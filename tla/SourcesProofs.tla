----------------------------- MODULE SourcesProofs -----------------------------
(***************************************************************************)
(* Where articles and feeds come from.  The window of a news sitemap never *)
(* passes an article without a row, for any publisher and timing, if the   *)
(* overlap covers late listing and the length of a run, the index dates    *)
(* all of its files or none, and no file and no insert fails.  A poll of SEBI's listing misses no row that was   *)
(* there when it began, if the pages it reads may hold all there is, and   *)
(* no source loses a release to its poller, if a night is long enough for  *)
(* the troubles of the polls.  A push of a feed file adds no feed twice,   *)
(* and ends well only when each feed of the file is known.                 *)
(***************************************************************************)
EXTENDS SitemapWindow, OfficialSource, FeedCatalogue, FiniteSetTheorems, SequenceTheorems,
        WellFoundedInduction, TLAPS

\* A set of numbers has a least one.
LEMMA LeastNumber ==
  ASSUME NEW T \in SUBSET Nat, T # {}
  PROVE  \E n \in T : \A m \in T : n <= m
  <1>1. PICK n \in T : \A m \in T : ~(<<m, n>> \in OpToRel(<, Nat))
    BY NatLessThanWellFounded, WFMin
  <1>2. \A m \in T : ~(m < n)
    BY <1>1 DEF OpToRel
  <1> QED
    BY <1>2

-----------------------------------------------------------------------------
(* SitemapWindow *)

LEMMA Limits ==
  /\ Undated \subseteq Entry /\ ChildOf \in [Entry -> Child] /\ IsFiniteSet(Child)
  /\ Bare \subseteq Child /\ MaxChildren \in Nat \ {0}
  /\ Lookback \in Nat /\ Overlap \in Nat /\ Slack \in Nat /\ Early \in Nat
  /\ Late \in Nat /\ Ahead \in Nat /\ Rounding \in Nat /\ RunTime \in Nat /\ MaxTime \in Nat
  BY EntryAssumption, TimeAssumption

\* What a poll takes is listed, and dated neither before its window nor ahead.
LEMMA TakenIsListed ==
  ASSUME NEW C \in SUBSET Child
  PROVE  /\ Taken(Items(C)) \subseteq listed
         /\ \A e \in Taken(Items(C)) \ Undated : published[e] <= now + Early
  BY DEF Taken, Items

LEMMA InitType == Init => TypeOK
  <1> SUFFICES ASSUME Init PROVE TypeOK
    OBVIOUS
  <1>1. published \in [Entry -> Int]
    BY Limits DEF Init
  <1>2. poll \in [at : {"idle", "inserting", "inserted"}, fetched : 0 .. now, rows : SUBSET listed]
    BY DEF Init, Idle
  <1> QED
    BY <1>1, <1>2, Limits DEF Init, TypeOK, Never, Idle

LEMMA ListType ==
  ASSUME TypeOK, NEW e \in Entry, List(e)
  PROVE  TypeOK'
  <1>1. PICK p \in Dates(e) : published' = [published EXCEPT ![e] = p]
    BY DEF List
  <1>0. p \in Int
    BY Limits DEF Dates, TypeOK
  <1>2. PICK m \in (now - Rounding) .. now :
          lastmod' = [lastmod EXCEPT ![ChildOf[e]] = Greater(@, m)]
    BY DEF List
  <1>3. lastmod' \in [Child -> 0 .. MaxTime]
    BY <1>2, Limits DEF TypeOK, Greater
  <1>4. published' \in [Entry -> Int]
    BY <1>0, <1>1 DEF TypeOK
  <1>5. /\ stored' \subseteq listed' /\ listed' \subseteq Entry
        /\ last' \in {Never} \cup 0 .. now'
        /\ poll' \in [at : {"idle", "inserting", "inserted"}, fetched : 0 .. now',
                      rows : SUBSET listed']
    BY DEF List, TypeOK
  <1>6. \A x \in poll.rows \ Undated : published'[x] = published[x]
    BY <1>1 DEF List, TypeOK
  <1> QED
    BY <1>3, <1>4, <1>5, <1>6 DEF List, TypeOK

LEMMA FetchType ==
  ASSUME TypeOK, Fetch
  PROVE  TypeOK'
  <1>1. PICK C \in SUBSET Child :
          poll' = [at |-> "inserting", fetched |-> now, rows |-> Taken(Items(C)) \ stored]
    BY DEF Fetch
  <1>2. poll' \in [at : {"idle", "inserting", "inserted"}, fetched : 0 .. now',
                   rows : SUBSET listed']
    BY <1>1, TakenIsListed DEF Fetch, TypeOK
  <1>3. \A e \in poll'.rows \ Undated : published'[e] <= poll'.fetched + Early
    BY <1>1, TakenIsListed DEF Fetch
  <1>4. poll'.at = "inserting"
    BY <1>1
  <1> QED
    BY <1>2, <1>3, <1>4 DEF Fetch, TypeOK

\* Every variable stays in its range, and the rows being inserted are listed and
\* not dated ahead of their poll (pipeline/sitemap.py:214).
THEOREM TypeCorrect == Spec => []TypeOK
  <1>1. TypeOK /\ [Next]_vars => TypeOK'
    <2> SUFFICES ASSUME TypeOK, [Next]_vars PROVE TypeOK'
      OBVIOUS
    <2>1. ASSUME NEW e \in Entry, List(e) PROVE TypeOK'
      BY <2>1, ListType
    <2>2. CASE Tick
      BY <2>2, Limits DEF Tick, TypeOK
    <2>3. CASE Fetch
      BY <2>3, FetchType
    <2>4. CASE Insert
      <3>1. poll' = [at |-> "inserted", fetched |-> poll.fetched, rows |-> {}]
        BY <2>4 DEF Insert, TypeOK
      <3>2. stored' \subseteq listed'
        BY <2>4 DEF Insert, TypeOK
      <3> QED
        BY <2>4, <3>1, <3>2 DEF Insert, TypeOK
    <2>5. CASE Record
      BY <2>5, Limits DEF Record, TypeOK, Idle
    <2>6. CASE Stop
      BY <2>6, Limits DEF Stop, TypeOK, Idle
    <2>7. CASE UNCHANGED vars
      BY <2>7 DEF vars, TypeOK
    <2> QED
      BY <2>1, <2>2, <2>3, <2>4, <2>5, <2>6, <2>7 DEF Next
  <1> QED
    BY InitType, <1>1, PTL DEF Spec

-----------------------------------------------------------------------------
(* The window *)

\* No file of the index is left out for being one too many.
LEMMA AllRecent ==
  ASSUME Punctual, NEW C \in SUBSET Child, Newest(C)
  PROVE  C = Recent
  <1> SUFFICES ASSUME NEW c \in Recent \ C PROVE FALSE
    BY DEF Newest
  <1>1. c \in Child /\ Cardinality(C) = MaxChildren
    BY DEF Newest, Recent
  <1>2. /\ IsFiniteSet(Child \ {c})
        /\ Cardinality(Child \ {c}) = Cardinality(Child) - 1
        /\ Cardinality(Child) \in Nat
    BY <1>1, Limits, FS_RemoveElement, FS_CardinalityType
  <1>3. C \in SUBSET (Child \ {c})
    OBVIOUS
  <1>4. Cardinality(C) <= Cardinality(Child \ {c})
    BY <1>2, <1>3, FS_Subset
  <1>5. Cardinality(Child) <= MaxChildren
    BY DEF Punctual
  <1> QED
    BY <1>1, <1>2, <1>4, <1>5, Limits

\* A dated article inside the window is in a file the poll reads.
LEMMA WindowIsRead ==
  ASSUME Punctual, WindowInv, NEW e \in listed \ Undated, published[e] >= Since(now)
  PROVE  ChildOf[e] \in Recent
  <1>1. lastmod[ChildOf[e]] >= published[e] - Ahead - Rounding
    BY DEF WindowInv, FilesDated
  <1>2. /\ Ahead + Rounding <= Slack
        /\ Since(now) \in Int
    BY Limits DEF Punctual, Since, Greater, WindowInv, TypeOK, Never
  <1>3. /\ ChildOf[e] \in Child /\ lastmod[ChildOf[e]] \in Int
        /\ published[e] \in Int
    BY Limits DEF WindowInv, TypeOK
  <1>4. CASE Bare = Child
    BY <1>3, <1>4 DEF Recent
  <1>5. CASE Bare # Child
    <2>1. Bare = {}
      BY <1>5 DEF Punctual
    <2>2. lastmod[ChildOf[e]] >= Since(now) - Slack
      BY <1>1, <1>2, <1>3, Limits
    <2> QED
      BY <1>3, <1>5, <2>1, <2>2 DEF Recent
  <1> QED
    BY <1>4, <1>5

\* So the next poll will look for every article that has no row.
LEMMA InvImpliesNoneSkipped ==
  ASSUME Punctual, WindowInv
  PROVE  NoneSkipped
  <1> SUFFICES ASSUME NEW e \in Missing, published[e] >= now - Lookback
               PROVE  published[e] >= Since(now) /\ ChildOf[e] \in Recent
    BY DEF NoneSkipped
  <1>1. published[e] \in Int /\ now \in Int /\ last \in Int
    BY Limits DEF WindowInv, TypeOK, Missing, Never
  <1>2. published[e] >= last - Overlap
    BY <1>1, Limits DEF WindowInv, WindowReaches
  <1>3. published[e] >= Since(now)
    BY <1>1, <1>2, Limits DEF Since, Greater
  <1> QED
    BY <1>3, WindowIsRead DEF Missing

LEMMA InitWindow == Init => WindowInv
  <1> SUFFICES ASSUME Init PROVE WindowInv
    OBVIOUS
  <1>1. TypeOK
    BY InitType
  <1>2. OnTime /\ LeftOutIsNew
    BY DEF Init, OnTime, LeftOutIsNew, Idle
  <1>3. FilesDated
    BY Limits DEF Init, FilesDated
  <1>4. WindowReaches
    BY Limits DEF Init, WindowReaches, Missing, Never
  <1> QED
    BY <1>1, <1>2, <1>3, <1>4 DEF WindowInv

\* A new article is dated late enough for the next poll and for the one in progress.
LEMMA ListWindow ==
  ASSUME Punctual, WindowInv, TypeOK', NEW e \in Entry, List(e)
  PROVE  WindowInv'
  <1>1. PICK p \in Dates(e) : published' = [published EXCEPT ![e] = p]
    BY DEF List
  <1>2. PICK m \in (now - Rounding) .. now :
          lastmod' = [lastmod EXCEPT ![ChildOf[e]] = Greater(@, m)]
    BY DEF List
  <1>3. /\ UNCHANGED <<now, stored, last, poll>> /\ listed' = listed \cup {e} /\ e \notin listed
        /\ e \notin poll.rows
    BY DEF List, WindowInv, TypeOK
  <1>4. published'[e] = p /\ \A x \in listed : published'[x] = published[x]
    BY <1>1, <1>3 DEF WindowInv, TypeOK
  <1>5. e \notin Undated => p \in (now - Late) .. (now + Ahead)
    BY DEF Dates
  <1>6. now \in Int /\ last \in Int /\ last <= now /\ poll.fetched \in Int /\ poll.fetched <= now
    BY Limits DEF WindowInv, TypeOK, Never
  <1>7. OnTime'
    BY <1>3 DEF WindowInv, OnTime
  <1>8. FilesDated'
    <2> SUFFICES ASSUME NEW x \in listed' \ Undated
                 PROVE  lastmod'[ChildOf[x]] >= published'[x] - Ahead - Rounding
      BY DEF FilesDated
    <2>1. lastmod'[ChildOf[x]] >= lastmod[ChildOf[x]] /\ lastmod'[ChildOf[e]] >= m
      BY <1>2, <1>3, Limits DEF Greater, WindowInv, TypeOK
    <2>2. /\ lastmod[ChildOf[x]] \in Int /\ lastmod'[ChildOf[x]] \in Int
          /\ published[x] \in Int
      BY <1>3, Limits DEF WindowInv, TypeOK
    <2>3. CASE x = e
      BY <2>1, <2>2, <2>3, <1>2, <1>4, <1>5, <1>6, Limits
    <2>4. CASE x \in listed
      BY <2>1, <2>2, <2>4, <1>4, Limits DEF WindowInv, FilesDated
    <2> QED
      BY <2>3, <2>4, <1>3
  <1>9. WindowReaches'
    <2> SUFFICES ASSUME NEW x \in Missing'
                 PROVE  (published[x] < now - Lookback \/ published[x] >= last - Overlap)'
      BY DEF WindowReaches
    <2>1. CASE x = e
      BY <2>1, <1>3, <1>4, <1>5, <1>6, Limits DEF Missing, Punctual
    <2>2. CASE x \in listed
      BY <2>2, <1>3, <1>4 DEF Missing, WindowInv, WindowReaches
    <2> QED
      BY <2>1, <2>2, <1>3 DEF Missing
  <1>10. LeftOutIsNew'
    <2> SUFFICES ASSUME poll.at # "idle", NEW x \in Missing', x \notin poll.rows
                 PROVE  (published[x] < now - Lookback \/ published[x] >= poll.fetched - Late)'
      BY <1>3 DEF LeftOutIsNew
    <2>1. CASE x = e
      BY <2>1, <1>3, <1>4, <1>5, <1>6, Limits DEF Missing
    <2>2. CASE x \in listed
      BY <2>2, <1>3, <1>4 DEF Missing, WindowInv, LeftOutIsNew
    <2> QED
      BY <2>1, <2>2, <1>3 DEF Missing
  <1> QED
    BY <1>7, <1>8, <1>9, <1>10 DEF WindowInv

LEMMA TickWindow ==
  ASSUME WindowInv, TypeOK', Tick
  PROVE  WindowInv'
  <1>1. OnTime'
    BY Limits DEF Tick, WindowInv, TypeOK, OnTime
  <1>2. FilesDated'
    BY DEF Tick, WindowInv, FilesDated
  <1>3. \A x \in Missing : published[x] \in Int
    BY DEF Missing, WindowInv, TypeOK
  <1>4. now \in Int /\ now' = now + 1 /\ UNCHANGED <<listed, published, stored, last, poll>>
    BY DEF Tick, WindowInv, TypeOK
  <1>5. WindowReaches'
    BY <1>3, <1>4, Limits DEF Missing, WindowInv, WindowReaches
  <1>6. LeftOutIsNew'
    BY <1>3, <1>4, Limits DEF Missing, WindowInv, LeftOutIsNew
  <1> QED
    BY <1>1, <1>2, <1>5, <1>6 DEF WindowInv

\* A poll takes everything in its window, so it leaves out only what is dated ahead.
LEMMA FetchWindow ==
  ASSUME Punctual, WindowInv, TypeOK', Fetch
  PROVE  WindowInv'
  <1>0. PICK C \in SUBSET Child : \E Unread \in SUBSET C :
          /\ Newest(C)
          /\ Unread # {} => "child" \in FaultKinds
          /\ poll' = [at |-> "inserting", fetched |-> now,
                      rows |-> Taken(Items(C \ Unread)) \ stored]
    BY DEF Fetch
  <1>1. PICK Unread \in SUBSET C :
          /\ Newest(C)
          /\ Unread # {} => "child" \in FaultKinds
          /\ poll' = [at |-> "inserting", fetched |-> now,
                      rows |-> Taken(Items(C \ Unread)) \ stored]
    BY <1>0
  <1>2. Unread = {} /\ C = Recent
    BY <1>1, AllRecent DEF Punctual
  <1>3. poll'.at # "idle" /\ poll'.fetched = now /\ poll'.rows = Taken(Items(Recent)) \ stored
    <2>1. C \ Unread = Recent
      BY <1>2
    <2> QED
      BY <1>1, <2>1
  <1>4. UNCHANGED <<now, listed, published, lastmod, stored, last>>
    BY DEF Fetch
  <1>5. OnTime'
    BY <1>3, <1>4, Limits DEF OnTime, WindowInv, TypeOK
  <1>6. FilesDated' /\ WindowReaches'
    BY <1>4 DEF WindowInv, FilesDated, WindowReaches, Missing
  <1>7. LeftOutIsNew'
    <2> SUFFICES ASSUME NEW x \in Missing, x \notin Taken(Items(Recent)),
                        published[x] >= now - Lookback
                 PROVE  published[x] >= now - Late
      <3>1. Missing' = Missing
        BY <1>4 DEF Missing
      <3>2. \A x \in Missing : published[x] \in Int /\ x \notin stored
        BY DEF Missing, WindowInv, TypeOK
      <3> QED
        BY <3>1, <3>2, <1>3, <1>4, Limits DEF LeftOutIsNew, WindowInv, TypeOK
    <2>1. published[x] >= Since(now) /\ ChildOf[x] \in Recent
      BY InvImpliesNoneSkipped DEF NoneSkipped
    <2>2. x \in Items(Recent) /\ x \notin Undated
      BY <2>1 DEF Items, Missing
    <2>3. ~(published[x] <= now + Early)
      BY <2>1, <2>2 DEF Taken
    <2>4. published[x] \in Int /\ now \in Int
      BY DEF Missing, WindowInv, TypeOK
    <2> QED
      BY <2>3, <2>4, Limits
  <1> QED
    BY <1>5, <1>6, <1>7 DEF WindowInv

LEMMA InsertWindow ==
  ASSUME Punctual, WindowInv, TypeOK', Insert
  PROVE  WindowInv'
  <1>1. stored' = stored \cup poll.rows
    BY DEF Insert, Punctual
  <1>2. poll'.at # "idle" /\ poll'.fetched = poll.fetched /\ poll.at # "idle"
    BY DEF Insert, WindowInv, TypeOK
  <1>3. UNCHANGED <<now, listed, published, lastmod, last>>
    BY DEF Insert
  <1>4. Missing' \subseteq Missing \ poll.rows
    BY <1>1, <1>3 DEF Missing
  <1>5. OnTime' /\ FilesDated' /\ WindowReaches'
    BY <1>2, <1>3, <1>4 DEF WindowInv, OnTime, FilesDated, WindowReaches
  <1>6. LeftOutIsNew'
    BY <1>2, <1>3, <1>4 DEF WindowInv, LeftOutIsNew
  <1> QED
    BY <1>5, <1>6 DEF WindowInv

\* The bookmark moves to the end of the run: what the poll left out was listed during
\* the run, and the overlap covers that.
LEMMA RecordWindow ==
  ASSUME Punctual, WindowInv, TypeOK', Record
  PROVE  WindowInv'
  <1>1. poll.at # "idle" /\ poll'.at = "idle" /\ last' = now
    BY DEF Record, Idle
  <1>2. UNCHANGED <<now, listed, published, lastmod, stored>> /\ Missing' = Missing
    BY DEF Record, Missing
  <1>3. OnTime' /\ FilesDated' /\ LeftOutIsNew'
    BY <1>1, <1>2 DEF WindowInv, OnTime, FilesDated, LeftOutIsNew
  <1>4. poll.rows = {}
    BY DEF Record, WindowInv, TypeOK
  <1>5. WindowReaches'
    <2> SUFFICES ASSUME NEW x \in Missing
                 PROVE  published[x] < now - Lookback \/ published[x] >= now - Overlap
      BY <1>1, <1>2 DEF WindowReaches
    <2>1. published[x] < now - Lookback \/ published[x] >= poll.fetched - Late
      BY <1>1, <1>4 DEF WindowInv, LeftOutIsNew
    <2>2. now <= poll.fetched + RunTime /\ Late + RunTime <= Overlap
      BY <1>1 DEF WindowInv, OnTime, Punctual
    <2>3. published[x] \in Int /\ now \in Int /\ poll.fetched \in Int
      BY DEF Missing, WindowInv, TypeOK
    <2> QED
      BY <2>1, <2>2, <2>3, Limits
  <1> QED
    BY <1>3, <1>5 DEF WindowInv

LEMMA StopWindow ==
  ASSUME WindowInv, TypeOK', Stop
  PROVE  WindowInv'
  <1>1. poll'.at = "idle" /\ UNCHANGED <<now, listed, published, lastmod, stored, last>>
    BY DEF Stop, Idle
  <1> QED
    BY <1>1 DEF WindowInv, OnTime, FilesDated, WindowReaches, LeftOutIsNew, Missing

\* The inductive invariant of the window, for a punctual publisher and job and an index that
\* dates all of its files or none.
THEOREM WindowHolds ==
  ASSUME Punctual
  PROVE  Spec => []WindowInv
  <1>1. WindowInv /\ TypeOK' /\ [Next]_vars => WindowInv'
    <2> SUFFICES ASSUME WindowInv, TypeOK', [Next]_vars PROVE WindowInv'
      OBVIOUS
    <2>1. ASSUME NEW e \in Entry, List(e) PROVE WindowInv'
      BY <2>1, ListWindow
    <2>2. CASE Tick
      BY <2>2, TickWindow
    <2>3. CASE Fetch
      BY <2>3, FetchWindow
    <2>4. CASE Insert
      BY <2>4, InsertWindow
    <2>5. CASE Record
      BY <2>5, RecordWindow
    <2>6. CASE Stop
      BY <2>6, StopWindow
    <2>7. CASE UNCHANGED vars
      BY <2>7 DEF vars, WindowInv, OnTime, FilesDated, WindowReaches, LeftOutIsNew, Missing
    <2> QED
      BY <2>1, <2>2, <2>3, <2>4, <2>5, <2>6, <2>7 DEF Next
  <1> QED
    BY <1>1, InitWindow, TypeCorrect, PTL DEF Spec

\* No article listed with a date is ever out of reach of the next poll while the
\* sitemap's own horizon holds it (pipeline/sitemap.py:42), if the index dates all of its
\* files or none.
THEOREM NothingSkipped ==
  ASSUME Punctual
  PROVE  Spec => []NoneSkipped
  <1>1. WindowInv => NoneSkipped
    BY InvImpliesNoneSkipped
  <1> QED
    BY <1>1, WindowHolds, PTL

-----------------------------------------------------------------------------
(* OfficialSource: days, slots, pages *)

LEMMA OfficialConstants ==
  /\ Kinds \subseteq Kind /\ Day \in Nat \ {0} /\ Night \in Nat /\ Night <= Day
  /\ Interval \in Nat \ {0} /\ DueAfter \in Nat /\ DueAfter <= Interval
  /\ JobTime \in Nat /\ JobTime < Interval /\ PageSize \in Nat \ {0} /\ MaxPages \in Nat \ {0}
  /\ MaxTrouble \in Nat /\ LastPost \in Nat /\ MaxReleases \in Nat /\ LastTick \in Nat
  BY KindAssumption, ScheduleAssumption

\* Remainders and multiples.
LEMMA Division ==
  ASSUME NEW t \in Nat, NEW n \in Nat \ {0}
  PROVE  /\ t \div n \in Nat /\ t % n \in Nat /\ t % n < n
         /\ t = n * (t \div n) + (t % n)
  BY SMT

LEMMA Product ==
  ASSUME NEW a \in Nat, NEW b \in Nat, NEW n \in Nat, a <= b
  PROVE  /\ n * a \in Nat /\ n * a <= n * b /\ n * (a + 1) = n * a + n
  BY SMT

LEMMA QuotientIs ==
  ASSUME NEW t \in Nat, NEW n \in Nat \ {0}, NEW d \in Nat, n * d <= t, t < n * d + n
  PROVE  t \div n = d /\ t % n = t - n * d
  <1> DEFINE q == t \div n
  <1>1. q \in Nat /\ t % n \in Nat /\ t % n < n /\ t = n * q + (t % n)
    BY Division
  <1> HIDE DEF q
  <1>2. ~(q < d)
    <2> SUFFICES ASSUME q + 1 <= d PROVE FALSE
      BY <1>1
    <2>1. n * (q + 1) <= n * d /\ n * (q + 1) = n * q + n
      BY <1>1, Product
    <2>2. n * q \in Nat /\ n * d \in Nat
      BY <1>1, Product
    <2> QED
      BY <1>1, <2>1, <2>2
  <1>3. ~(d < q)
    <2> SUFFICES ASSUME d + 1 <= q PROVE FALSE
      BY <1>1
    <2>1. n * (d + 1) <= n * q /\ n * (d + 1) = n * d + n
      BY <1>1, Product
    <2>2. n * q \in Nat /\ n * d \in Nat
      BY <1>1, Product
    <2> QED
      BY <1>1, <2>1, <2>2
  <1>4. q = d
    BY <1>1, <1>2, <1>3
  <1>5. n * d \in Nat
    BY Product
  <1> QED
    BY <1>1, <1>4, <1>5 DEF q

\* After any time a slot of the schedule comes within an interval, and an interval after a
\* slot the next one.
LEMMA SlotAfter ==
  ASSUME NEW t \in Nat
  PROVE  \E s \in Nat : s % Interval = 0 /\ s > t /\ s <= t + Interval
  <1> DEFINE k == t \div Interval
             s == Interval * (k + 1)
  <1>0. Interval \in Nat \ {0}
    BY OfficialConstants
  <1>1. k \in Nat /\ t % Interval \in Nat /\ t % Interval < Interval /\ t = Interval * k + (t % Interval)
    BY <1>0, Division
  <1> HIDE DEF k
  <1>2. Interval * k \in Nat /\ s \in Nat /\ s = Interval * k + Interval
    BY <1>0, <1>1, Product
  <1>3. s % Interval = 0
    <2>1. /\ k + 1 \in Nat /\ s \in Nat /\ s = Interval * (k + 1) /\ Interval * (k + 1) \in Nat
          /\ Interval * (k + 1) <= s /\ s < Interval * (k + 1) + Interval
      BY <1>0, <1>1, <1>2
    <2> HIDE DEF s
    <2>2. s % Interval = s - Interval * (k + 1)
      BY <1>0, <2>1, QuotientIs
    <2> QED
      BY <2>1, <2>2
  <1> QED
    BY <1>0, <1>1, <1>2, <1>3

LEMMA NextSlot ==
  ASSUME NEW t \in Nat, t % Interval = 0
  PROVE  (t + Interval) % Interval = 0
  <1> DEFINE k == t \div Interval
  <1>0. Interval \in Nat \ {0}
    BY OfficialConstants
  <1>1. k \in Nat /\ t = Interval * k
    BY <1>0, Division
  <1> HIDE DEF k
  <1>2. Interval * (k + 1) = t + Interval
    BY <1>0, <1>1, Product
  <1>3. (t + Interval) % Interval = (t + Interval) - Interval * (k + 1)
    BY <1>0, <1>1, <1>2, QuotientIs
  <1> QED
    BY <1>0, <1>2, <1>3

\* How many of S are newer than i.
NewerIn(S, i) == Cardinality({j \in S : j > i})

LEMMA NewerFinite ==
  ASSUME NEW S \in SUBSET Nat, IsFiniteSet(S), NEW i \in Nat
  PROVE  /\ IsFiniteSet({j \in S : j > i}) /\ NewerIn(S, i) \in Nat /\ Cardinality(S) \in Nat
         /\ i \in S => NewerIn(S, i) < Cardinality(S)
         /\ \A k \in S : i < k => NewerIn(S, k) < NewerIn(S, i)
  <1> DEFINE N(k) == {j \in S : j > k}
  <1>1. \A k \in Nat : IsFiniteSet(N(k)) /\ Cardinality(N(k)) \in Nat
    BY FS_Subset, FS_CardinalityType
  <1>2. ASSUME i \in S PROVE NewerIn(S, i) < Cardinality(S)
    <2>1. N(i) \subseteq S /\ N(i) # S
      BY <1>2
    <2> HIDE DEF N
    <2>2. Cardinality(N(i)) < Cardinality(S)
      BY <1>1, <2>1, FS_Subset, FS_CardinalityType
    <2> QED
      BY <2>2 DEF NewerIn, N
  <1>3. ASSUME NEW k \in S, i < k PROVE NewerIn(S, k) < NewerIn(S, i)
    <2>0. k \in N(i) /\ k \notin N(k) /\ N(k) \subseteq N(i)
      <3>1. k \in Nat /\ k > i /\ ~(k > k)
        BY <1>3
      <3>2. \A j \in S : j > k => j > i
        BY <1>3, <3>1
      <3> QED
        BY <3>1, <3>2
    <2>1. N(k) \subseteq N(i) /\ N(k) # N(i)
      BY <2>0
    <2> HIDE DEF N
    <2>2. Cardinality(N(k)) < Cardinality(N(i))
      BY <1>1, <2>1, FS_Subset
    <2> QED
      BY <2>2 DEF NewerIn, N
  <1> QED
    BY <1>1, <1>2, <1>3, FS_CardinalityType DEF NewerIn

LEMMA NewerGrows ==
  ASSUME NEW S \in SUBSET Nat, NEW T \in SUBSET Nat, IsFiniteSet(T), S \subseteq T, NEW i \in Nat
  PROVE  NewerIn(S, i) <= NewerIn(T, i)
  <1> DEFINE N(U) == {j \in U : j > i}
  <1>1. N(S) \subseteq N(T) /\ IsFiniteSet(N(T))
    BY FS_Subset
  <1> HIDE DEF N
  <1>2. Cardinality(N(S)) <= Cardinality(N(T))
    BY <1>1, FS_Subset
  <1> QED
    BY <1>2 DEF NewerIn, N

\* At most n rows have one of n ranks.
LEMMA RanksBound ==
  ASSUME NEW S \in SUBSET Nat, IsFiniteSet(S), NEW a \in Nat, NEW n \in Nat
  PROVE  Cardinality({i \in S : NewerIn(S, i) >= a /\ NewerIn(S, i) < a + n}) <= n
  <1> DEFINE P == {i \in S : NewerIn(S, i) >= a /\ NewerIn(S, i) < a + n}
             R == a .. (a + n - 1)
             f == [i \in P |-> NewerIn(S, i)]
  <1>1. \A i \in S : NewerIn(S, i) \in Nat
    BY NewerFinite
  <1>2. f \in Injection(P, R)
    <2>1. f \in [P -> R]
      <3>1. \A i \in P : NewerIn(S, i) \in R
        BY <1>1
      <3> HIDE DEF P, R
      <3> QED
        BY <3>1
    <2>2. \A i, k \in P : f[i] = f[k] => i = k
      <3> SUFFICES ASSUME NEW i \in P, NEW k \in P, i < k PROVE f[i] # f[k]
        OBVIOUS
      <3>1. NewerIn(S, k) < NewerIn(S, i)
        BY NewerFinite
      <3> QED
        BY <1>1, <3>1
    <2> QED
      BY <2>1, <2>2 DEF Injection, IsInjective
  <1>3. IsFiniteSet(R) /\ Cardinality(R) = n
    BY FS_Interval
  <1> HIDE DEF P, R, f
  <1>4. Cardinality(P) <= Cardinality(R)
    BY <1>2, <1>3, FS_Injection
  <1> QED
    BY <1>3, <1>4 DEF P

\* Every rank up to that of a row is that of some row.
LEMMA RanksMeet ==
  ASSUME NEW S \in SUBSET Nat, IsFiniteSet(S), NEW a \in Nat, NEW i \in S, NewerIn(S, i) >= a
  PROVE  \E j \in S : NewerIn(S, j) = a
  <1> DEFINE T == {NewerIn(S, j) : j \in {k \in S : NewerIn(S, k) >= a}}
  <1>1. \A j \in S : NewerIn(S, j) \in Nat
    BY NewerFinite
  <1>2. T \in SUBSET Nat /\ T # {}
    BY <1>1
  <1>3. PICK v \in T : \A m \in T : v <= m
    BY <1>2, LeastNumber
  <1>4. PICK j \in S : NewerIn(S, j) = v /\ v >= a
    BY <1>3
  <1>5. ASSUME v > a PROVE FALSE
    <2> DEFINE U == {k \in S : k > j}
    <2>1. IsFiniteSet(U) /\ Cardinality(U) = v
      BY <1>4, NewerFinite DEF NewerIn
    <2>2. U # {} /\ U \in SUBSET Nat
      BY <1>1, <1>4, <1>5, <2>1, FS_EmptySet
    <2>3. PICK k \in U : \A m \in U : k <= m
      BY <2>2, LeastNumber
    <2>4. {m \in S : m > k} = U \ {k}
      <3>1. \A m \in S : m > k => m \in U /\ m # k
        BY <2>3
      <3>2. \A m \in U : m # k => m \in S /\ m > k
        BY <2>2, <2>3
      <3> QED
        BY <3>1, <3>2
    <2>5. Cardinality(U \ {k}) = v - 1
      <3> HIDE DEF U
      <3> QED
        BY <2>1, <2>3, FS_RemoveElement
    <2>6. NewerIn(S, k) = v - 1
      BY <2>4, <2>5 DEF NewerIn
    <2>7. v - 1 \in T
      BY <1>1, <1>2, <1>3, <1>4, <1>5, <2>3, <2>6
    <2> QED
      BY <1>2, <1>3, <2>7
  <1> QED
    BY <1>1, <1>2, <1>4, <1>5
-----------------------------------------------------------------------------
(* OfficialSource: types and the shape of a visit *)

VisitRecord ==
  [at : {"none", "queued", "listing", "yesterday", "inserting", "recording"}, run : Nat, from : Nat,
   page : Nat, count : Nat, total : Nat, rows : SUBSET Nat, listed : Nat, whole : BOOLEAN]

\* A visit lies within its run, which began at a slot when the feed was due.
VisitFits ==
  /\ visit.run <= clock /\ visit.from <= clock /\ visit.page <= MaxPages
  /\ visit.rows \subseteq 1 .. Len(posted) /\ visit.listed <= Len(posted)
  /\ visit.at # "none" =>
       /\ visit.run = begun /\ visit.run % Interval = 0
       /\ clock <= visit.run + JobTime /\ polledAt <= visit.run
  /\ visit.at \in {"none", "queued"} =>
       visit.page = 0 /\ visit.count = 0 /\ visit.rows = {} /\ visit.whole
  /\ visit.at = "listing" => visit.whole /\ visit.page < MaxPages
  /\ visit.at = "yesterday" => kind = "pib"
  /\ visit.at \notin {"none", "queued"} =>
       /\ visit.run <= visit.from
       /\ \A i \in 1 .. Len(posted) :
            IF i > visit.listed THEN posted[i] >= visit.from ELSE posted[i] <= visit.from

OfficialTyped ==
  /\ kind \in Kinds /\ clock \in Nat /\ clock <= LastTick
  /\ posted \in Seq(Nat) /\ Len(posted) <= MaxReleases
  /\ \A i \in 1 .. Len(posted) : posted[i] <= clock
  /\ collected \subseteq 1 .. Len(posted)
  /\ polledAt \in Int /\ polledAt <= clock /\ (polledAt = Unpolled \/ polledAt >= 0)
  /\ begun \in Int /\ begun >= -1 /\ begun <= clock
  /\ troubles \in Nat /\ troubles <= MaxTrouble
  /\ visit \in VisitRecord

OfficialBase == OfficialTyped /\ VisitFits

LEMMA OfficialBaseType == OfficialBase => OfficialTypeOK
  <1> SUFFICES ASSUME OfficialBase PROVE OfficialTypeOK
    OBVIOUS
  <1>1. DOMAIN posted = 1 .. Len(posted) /\ Len(posted) \in Nat
    BY DEF OfficialBase, OfficialTyped
  <1>2. posted \in Seq(0 .. clock)
    <2>1. \A i \in 1 .. Len(posted) : posted[i] \in 0 .. clock
      BY DEF OfficialBase, OfficialTyped
    <2> QED
      BY <1>1, <2>1 DEF OfficialBase, OfficialTyped
  <1>3. visit \in [at : {"none", "queued", "listing", "yesterday", "inserting", "recording"},
                   run : 0 .. clock, from : 0 .. clock, page : 0 .. MaxPages, count : Nat,
                   total : Nat, rows : SUBSET Release, listed : 0 .. Len(posted), whole : BOOLEAN]
    <2>1. /\ visit.run \in 0 .. clock /\ visit.from \in 0 .. clock /\ visit.page \in 0 .. MaxPages
          /\ visit.rows \subseteq Release /\ visit.listed \in 0 .. Len(posted)
      BY <1>1, OfficialConstants DEF OfficialBase, OfficialTyped, VisitFits, VisitRecord, Release
    <2> QED
      BY <2>1 DEF OfficialBase, OfficialTyped, VisitRecord
  <1> QED
    BY <1>1, <1>2, <1>3, OfficialConstants DEF OfficialBase, OfficialTyped, OfficialTypeOK, Release

LEMMA GoesCounts ==
  ASSUME OfficialTyped, NEW k, Goes(k)
  PROVE  troubles' \in Nat /\ troubles' <= MaxTrouble /\ troubles' = troubles + 1
  BY OfficialConstants DEF Goes, OfficialTyped

LEMMA NoVisitFits ==
  /\ NoVisit \in VisitRecord /\ NoVisit.at = "none" /\ NoVisit.run = 0 /\ NoVisit.from = 0
  /\ NoVisit.page = 0 /\ NoVisit.count = 0 /\ NoVisit.rows = {} /\ NoVisit.listed = 0 /\ NoVisit.whole
  BY DEF NoVisit, VisitRecord

LEMMA PublicationBase ==
  ASSUME OfficialBase, Publication
  PROVE  /\ OfficialBase' /\ Len(posted') = Len(posted) + 1 /\ posted'[Len(posted) + 1] = clock
         /\ \A i \in 1 .. Len(posted) : posted'[i] = posted[i]
  <1>1. posted \in Seq(Nat) /\ Len(posted) \in Nat /\ clock \in Nat /\ posted' = Append(posted, clock)
    BY DEF OfficialBase, OfficialTyped, Publication
  <1>2. /\ posted' \in Seq(Nat) /\ Len(posted') = Len(posted) + 1 /\ posted'[Len(posted) + 1] = clock
        /\ \A i \in 1 .. Len(posted) : posted'[i] = posted[i]
    BY <1>1
  <1>3. Len(posted') <= MaxReleases
    BY <1>1, <1>2, OfficialConstants DEF Publication
  <1>4. \A i \in 1 .. Len(posted') : i \in 1 .. Len(posted) \/ i = Len(posted) + 1
    BY <1>1, <1>2
  <1>5. 1 .. Len(posted) \subseteq 1 .. Len(posted')
    BY <1>1, <1>2
  <1> HIDE <1>1
  <1>6. UNCHANGED <<kind, clock, collected, polledAt, begun, visit, troubles>>
    BY DEF Publication
  <1>7. OfficialTyped'
    BY <1>1, <1>2, <1>3, <1>4, <1>5, <1>6 DEF OfficialBase, OfficialTyped, Unpolled
  <1>8. VisitFits'
    BY <1>1, <1>2, <1>4, <1>5, <1>6 DEF OfficialBase, OfficialTyped, VisitFits, VisitRecord
  <1> QED
    BY <1>2, <1>7, <1>8 DEF OfficialBase

LEMMA MinuteBase ==
  ASSUME OfficialBase, Minute
  PROVE  OfficialBase'
  <1>1. /\ clock \in Nat /\ clock' = clock + 1 /\ clock < LastTick
        /\ UNCHANGED <<kind, posted, collected, polledAt, begun, visit, troubles>>
        /\ visit.at # "none" => clock < visit.run + JobTime
    BY DEF OfficialBase, OfficialTyped, Minute
  <1>2. OfficialTyped'
    BY <1>1, OfficialConstants DEF OfficialBase, OfficialTyped, Unpolled
  <1>3. VisitFits'
    BY <1>1, OfficialConstants DEF OfficialBase, OfficialTyped, VisitFits, VisitRecord
  <1> QED
    BY <1>2, <1>3 DEF OfficialBase

\* While a visit goes on the clock does not reach the next slot.
LEMMA NoSlotInVisit ==
  ASSUME OfficialBase, visit.at # "none", clock % Interval = 0
  PROVE  clock = visit.run
  <1>1. /\ visit.run \in Nat /\ clock \in Nat /\ visit.run % Interval = 0
        /\ visit.run <= clock /\ clock <= visit.run + JobTime
    BY DEF OfficialBase, OfficialTyped, VisitFits, VisitRecord
  <1> DEFINE a == visit.run \div Interval
             b == clock \div Interval
  <1>2. a \in Nat /\ b \in Nat /\ visit.run = Interval * a /\ clock = Interval * b
    BY <1>1, OfficialConstants, Division
  <1>3. b = a
    <2>1. Interval * a <= clock /\ clock < Interval * a + Interval
      BY <1>1, <1>2, OfficialConstants
    <2> HIDE DEF a
    <2> QED
      BY <1>1, <1>2, <2>1, OfficialConstants, QuotientIs
  <1> QED
    BY <1>2, <1>3

LEMMA ScheduleBase ==
  ASSUME OfficialBase, Schedule
  PROVE  OfficialBase' /\ visit.at = "none"
  <1>1. /\ clock \in Nat /\ clock % Interval = 0 /\ begun # clock /\ begun' = clock
        /\ UNCHANGED <<kind, clock, posted, collected, polledAt>>
    BY DEF OfficialBase, OfficialTyped, Schedule
  <1>2. visit.at = "none"
    <2> SUFFICES ASSUME visit.at # "none" PROVE FALSE
      OBVIOUS
    <2>1. clock = visit.run /\ visit.run = begun
      BY <1>1, NoSlotInVisit DEF OfficialBase, VisitFits
    <2> QED
      BY <1>1, <2>1
  <1> DEFINE queued == [NoVisit EXCEPT !.at = "queued", !.run = clock]
  <1>3. /\ queued \in VisitRecord /\ queued.at = "queued" /\ queued.run = clock /\ queued.from = 0
        /\ queued.page = 0 /\ queued.count = 0 /\ queued.rows = {} /\ queued.listed = 0 /\ queued.whole
    BY <1>1 DEF NoVisit, VisitRecord
  <1>4. (visit' = queued \/ visit' = visit) /\ troubles' \in Nat /\ troubles' <= MaxTrouble
    BY GoesCounts DEF Schedule, OfficialBase, OfficialTyped
  <1> HIDE DEF queued
  <1>5. OfficialTyped'
    BY <1>1, <1>3, <1>4 DEF OfficialBase, OfficialTyped, Unpolled
  <1>6. VisitFits'
    <2>1. CASE visit' = queued
      BY <1>1, <1>3, <2>1, OfficialConstants DEF OfficialBase, OfficialTyped, VisitFits
    <2>2. CASE visit' = visit
      BY <1>1, <1>2, <2>2 DEF OfficialBase, VisitFits
    <2> QED
      BY <1>4, <2>1, <2>2
  <1> QED
    BY <1>2, <1>5, <1>6 DEF OfficialBase

LEMMA BeginVisitBase ==
  ASSUME OfficialBase, BeginVisit
  PROVE  /\ OfficialBase' /\ visit'.at = "listing" /\ visit'.run = visit.run /\ visit'.from = clock
         /\ visit'.listed = Len(posted) /\ visit'.page = 0 /\ visit'.count = 0
  <1> DEFINE new == [visit EXCEPT !.at = "listing", !.from = clock, !.listed = Len(posted)]
  <1>1. /\ clock \in Nat /\ visit.at = "queued" /\ visit' = new /\ visit \in VisitRecord
        /\ Len(posted) \in Nat
        /\ UNCHANGED <<kind, clock, posted, collected, polledAt, begun, troubles>>
    BY DEF OfficialBase, OfficialTyped, BeginVisit
  <1>2. /\ new \in VisitRecord /\ new.at = "listing" /\ new.run = visit.run /\ new.from = clock
        /\ new.page = visit.page /\ new.count = visit.count /\ new.rows = visit.rows
        /\ new.listed = Len(posted) /\ new.whole = visit.whole
    BY <1>1 DEF VisitRecord
  <1> HIDE DEF new
  <1>3. OfficialTyped'
    BY <1>1, <1>2 DEF OfficialBase, OfficialTyped, Unpolled
  <1>4. VisitFits'
    BY <1>1, <1>2, OfficialConstants DEF OfficialBase, OfficialTyped, VisitFits
  <1> QED
    BY <1>1, <1>2, <1>3, <1>4 DEF OfficialBase, VisitFits
\* A step of a visit that keeps its run, its beginning and its place in the schedule.
LEMMA VisitMoves ==
  ASSUME OfficialBase, UNCHANGED <<kind, clock, posted, polledAt, begun>>,
         visit.at \notin {"none", "queued"}, NEW new \in VisitRecord, visit' = new,
         new.run = visit.run, new.from = visit.from, new.listed = visit.listed,
         new.rows \subseteq 1 .. Len(posted), new.page <= MaxPages,
         new.at \notin {"none", "queued"},
         new.at = "listing" => new.whole /\ new.page < MaxPages, new.at = "yesterday" => kind = "pib",
         collected' \subseteq 1 .. Len(posted), troubles' \in Nat, troubles' <= MaxTrouble
  PROVE  OfficialBase'
  <1>1. OfficialTyped'
    BY DEF OfficialBase, OfficialTyped, Unpolled
  <1>2. VisitFits'
    BY DEF OfficialBase, OfficialTyped, VisitFits
  <1> QED
    BY <1>1, <1>2 DEF OfficialBase

LEMMA OfDaysIs ==
  ASSUME OfficialBase, NEW D
  PROVE  /\ OfDays(D) = {i \in 1 .. Len(posted) : DayOf(posted[i]) \in D}
         /\ OfDays(D) \subseteq 1 .. Len(posted) /\ OfDays(D) \in SUBSET Nat
  <1>1. DOMAIN posted = 1 .. Len(posted) /\ Len(posted) \in Nat
    BY DEF OfficialBase, OfficialTyped
  <1> QED
    BY <1>1 DEF OfDays, Release

LEMMA ReadDayBase ==
  ASSUME OfficialBase, ReadDay
  PROVE  /\ OfficialBase' /\ visit.at = "listing" /\ kind # "sebi" /\ visit'.run = visit.run
         /\ visit'.from = visit.from /\ visit'.listed = visit.listed
         /\ visit'.rows = OfDays({DayOf(clock)})
         /\ visit'.at = (IF SweepsYesterday THEN "yesterday" ELSE "inserting")
         /\ UNCHANGED <<kind, clock, posted, collected, polledAt, begun, troubles>>
  <1> DEFINE rows == OfDays({DayOf(clock)})
             new  == [visit EXCEPT !.rows = rows, !.at = IF SweepsYesterday THEN "yesterday" ELSE "inserting"]
  <1>1. rows \in SUBSET Nat /\ rows \subseteq 1 .. Len(posted)
    BY OfDaysIs
  <1> HIDE DEF rows
  <1>2. /\ visit.at = "listing" /\ kind # "sebi" /\ visit' = new /\ visit \in VisitRecord
        /\ UNCHANGED <<kind, clock, posted, collected, polledAt, begun, troubles>>
    BY DEF ReadDay, OfficialBase, OfficialTyped, rows
  <1>3. /\ new \in VisitRecord /\ new.at = (IF SweepsYesterday THEN "yesterday" ELSE "inserting")
        /\ new.run = visit.run /\ new.from = visit.from /\ new.listed = visit.listed
        /\ new.rows = rows /\ new.page = visit.page
    BY <1>1, <1>2 DEF VisitRecord
  <1> HIDE DEF new
  <1>4. new.at = "yesterday" => kind = "pib"
    BY <1>3 DEF SweepsYesterday
  <1>5. OfficialBase'
    <2>1. collected \subseteq 1 .. Len(posted) /\ troubles \in Nat /\ troubles <= MaxTrouble
          /\ visit.page <= MaxPages
      BY DEF OfficialBase, OfficialTyped, VisitFits
    <2>2. visit.at \notin {"none", "queued"} /\ new.at \notin {"none", "queued"} /\ new.at # "listing"
      BY <1>2, <1>3
    <2> QED
      BY <1>1, <1>2, <1>3, <1>4, <2>1, <2>2, VisitMoves
  <1> QED
    BY <1>2, <1>3, <1>5 DEF rows

LEMMA ReadYesterdayBase ==
  ASSUME OfficialBase, ReadYesterday
  PROVE  /\ OfficialBase' /\ visit.at = "yesterday" /\ kind = "pib" /\ visit'.run = visit.run
         /\ visit'.from = visit.from /\ visit'.at = "inserting"
         /\ \/ visit'.rows = visit.rows \cup OfDays({DayOf(visit.from) - 1}) /\ UNCHANGED troubles
            \/ troubles' = troubles + 1
         /\ UNCHANGED <<kind, clock, posted, collected, polledAt, begun>>
  <1> DEFINE rows == visit.rows \cup OfDays({DayOf(visit.from) - 1})
             full == [visit EXCEPT !.rows = @ \cup OfDays({DayOf(visit.from) - 1}), !.at = "inserting"]
             part == [visit EXCEPT !.at = "inserting"]
  <1>1. OfDays({DayOf(visit.from) - 1}) \in SUBSET Nat
        /\ OfDays({DayOf(visit.from) - 1}) \subseteq 1 .. Len(posted)
    BY OfDaysIs
  <1>2. /\ visit.at = "yesterday" /\ kind = "pib" /\ visit \in VisitRecord
        /\ \/ visit' = full /\ UNCHANGED troubles
           \/ visit' = part /\ Goes("postback")
        /\ UNCHANGED <<kind, clock, posted, collected, polledAt, begun>>
    BY DEF ReadYesterday, OfficialBase, OfficialTyped, VisitFits
  <1>3. /\ full \in VisitRecord /\ full.at = "inserting" /\ full.run = visit.run /\ full.from = visit.from
        /\ full.listed = visit.listed /\ full.rows = rows /\ full.page = visit.page
        /\ part \in VisitRecord /\ part.at = "inserting" /\ part.run = visit.run /\ part.from = visit.from
        /\ part.listed = visit.listed /\ part.rows = visit.rows /\ part.page = visit.page
    BY <1>1, <1>2 DEF VisitRecord
  <1>4. /\ collected \subseteq 1 .. Len(posted) /\ troubles \in Nat /\ troubles <= MaxTrouble
        /\ visit.page <= MaxPages /\ visit.rows \subseteq 1 .. Len(posted)
    BY DEF OfficialBase, OfficialTyped, VisitFits
  <1>5. rows \subseteq 1 .. Len(posted)
    BY <1>1, <1>4
  <1>6. Goes("postback") => troubles' = troubles + 1 /\ troubles' \in Nat /\ troubles' <= MaxTrouble
    BY GoesCounts DEF OfficialBase
  <1> HIDE DEF full, part, rows
  <1>7. PICK new \in {full, part} : visit' = new
    BY <1>2
  <1>8. OfficialBase'
    <2>1. /\ new \in VisitRecord /\ new.at = "inserting" /\ new.run = visit.run /\ new.from = visit.from
          /\ new.listed = visit.listed /\ new.rows \subseteq 1 .. Len(posted) /\ new.page = visit.page
      BY <1>3, <1>4, <1>5, <1>7
    <2>2. visit.at \notin {"none", "queued"} /\ new.at \notin {"none", "queued"} /\ new.at # "listing"
          /\ new.at # "yesterday"
      BY <1>2, <2>1
    <2>3. troubles' \in Nat /\ troubles' <= MaxTrouble
      BY <1>2, <1>4, <1>6
    <2> QED
      BY <1>2, <1>4, <1>7, <2>1, <2>2, <2>3, VisitMoves
  <1> QED
    BY <1>2, <1>3, <1>6, <1>8 DEF rows

LEMMA SebiRowsFinite ==
  ASSUME OfficialBase
  PROVE  /\ SebiRows = {i \in 1 .. Len(posted) : DayOf(posted[i]) \in {DayOf(visit.from) - 1, DayOf(visit.from)}}
         /\ SebiRows \in SUBSET Nat /\ IsFiniteSet(SebiRows) /\ Cardinality(SebiRows) <= MaxReleases
         /\ Cardinality(SebiRows) \in Nat
  <1>1. SebiRows = {i \in 1 .. Len(posted) : DayOf(posted[i]) \in {DayOf(visit.from) - 1, DayOf(visit.from)}}
        /\ SebiRows \subseteq 1 .. Len(posted) /\ SebiRows \in SUBSET Nat
    BY OfDaysIs DEF SebiRows
  <1>2. Len(posted) \in Nat /\ Len(posted) <= MaxReleases
    BY DEF OfficialBase, OfficialTyped
  <1>3. IsFiniteSet(1 .. Len(posted)) /\ Cardinality(1 .. Len(posted)) = Len(posted)
    BY <1>2, FS_Interval
  <1>4. IsFiniteSet(SebiRows) /\ Cardinality(SebiRows) <= Len(posted)
    BY <1>1, <1>3, FS_Subset
  <1> QED
    BY <1>1, <1>2, <1>4, FS_CardinalityType, OfficialConstants

LEMMA ReadPageBase ==
  ASSUME OfficialBase, ReadPage
  PROVE  /\ OfficialBase' /\ visit.at = "listing" /\ kind = "sebi" /\ visit'.run = visit.run
         /\ visit'.from = visit.from /\ visit'.listed = visit.listed
         /\ UNCHANGED <<kind, clock, posted, collected, polledAt, begun>>
         /\ \/ /\ visit'.rows = visit.rows \cup SebiPage(visit.page)
               /\ visit'.count = visit.count + Cardinality(SebiPage(visit.page))
               /\ visit'.page = visit.page + 1 /\ visit'.whole = visit.whole
               /\ visit'.at = IF \/ SebiPage(visit.page) = {} \/ visit'.count >= Cardinality(SebiRows)
                                 \/ visit.page + 1 = MaxPages
                              THEN "inserting" ELSE "listing"
               /\ UNCHANGED troubles
            \/ ~visit'.whole /\ troubles' = troubles + 1 /\ visit'.at \in {"inserting", "recording"}
  <1> DEFINE rows  == SebiPage(visit.page)
             count == visit.count + Cardinality(rows)
             over  == rows = {} \/ count >= Total \/ visit.page + 1 = MaxPages
             next  == [visit EXCEPT !.rows = @ \cup rows, !.count = count, !.total = Total, !.page = @ + 1,
                                    !.at = IF over THEN "inserting" ELSE "listing"]
             cut   == [visit EXCEPT !.whole = FALSE,
                                    !.at = IF visit.rows = {} THEN "recording" ELSE "inserting"]
  <1>1. rows \in SUBSET Nat /\ rows \subseteq 1 .. Len(posted) /\ IsFiniteSet(rows)
    <2>1. SebiRows \in SUBSET Nat /\ SebiRows \subseteq 1 .. Len(posted)
      BY OfDaysIs DEF SebiRows
    <2>2. IsFiniteSet(1 .. Len(posted))
      <3>1. Len(posted) \in Nat
        BY DEF OfficialBase, OfficialTyped
      <3> QED
        BY <3>1, FS_Interval
    <2>3. rows \subseteq SebiRows
      BY DEF SebiPage
    <2> HIDE DEF rows
    <2> QED
      BY <2>1, <2>2, <2>3, FS_Subset
  <1>2. count \in Nat
    <2>1. visit.count \in Nat
      BY DEF OfficialBase, OfficialTyped, VisitRecord
    <2> HIDE DEF rows
    <2> QED
      BY <1>1, <2>1, FS_CardinalityType
  <1>3. /\ visit.at = "listing" /\ kind = "sebi" /\ visit \in VisitRecord
        /\ \/ visit' = next /\ UNCHANGED troubles
           \/ visit' = cut /\ Goes("blocked")
        /\ UNCHANGED <<kind, clock, posted, collected, polledAt, begun>>
    BY DEF ReadPage, OfficialBase, OfficialTyped
  <1>4. /\ collected \subseteq 1 .. Len(posted) /\ troubles \in Nat /\ troubles <= MaxTrouble
        /\ visit.page <= MaxPages /\ visit.rows \subseteq 1 .. Len(posted)
        /\ visit.whole /\ visit.page < MaxPages
    BY <1>3 DEF OfficialBase, OfficialTyped, VisitFits
  <1> HIDE DEF rows, count
  <1>5. /\ next \in VisitRecord /\ next.at = (IF over THEN "inserting" ELSE "listing")
        /\ next.run = visit.run /\ next.from = visit.from /\ next.listed = visit.listed
        /\ next.rows = visit.rows \cup rows /\ next.count = count /\ next.page = visit.page + 1
        /\ next.whole = visit.whole
    <2>1. visit.page + 1 \in Nat /\ visit.rows \cup rows \in SUBSET Nat /\ Total \in Nat
      BY <1>1, <1>3, SebiRowsFinite DEF VisitRecord, Total
    <2> HIDE DEF over
    <2> QED
      BY <1>2, <1>3, <2>1 DEF VisitRecord
  <1>6. /\ cut \in VisitRecord /\ cut.at \in {"recording", "inserting"} /\ cut.run = visit.run
        /\ cut.from = visit.from /\ cut.listed = visit.listed /\ cut.rows = visit.rows
        /\ cut.page = visit.page /\ ~cut.whole
    BY <1>3 DEF VisitRecord
  <1>7. Goes("blocked") => troubles' = troubles + 1 /\ troubles' \in Nat /\ troubles' <= MaxTrouble
    BY GoesCounts DEF OfficialBase
  <1> HIDE DEF next, cut
  <1>8. PICK new \in {next, cut} : visit' = new
    BY <1>3
  <1>9. OfficialBase'
    <2>1. visit.page + 1 <= MaxPages /\ visit.page + 1 \in Nat /\ (visit.page + 1 # MaxPages => visit.page + 1 < MaxPages)
      BY <1>3, <1>4, OfficialConstants DEF VisitRecord
    <2>2. /\ new \in VisitRecord /\ new.run = visit.run /\ new.from = visit.from
          /\ new.listed = visit.listed /\ new.rows \subseteq 1 .. Len(posted) /\ new.page <= MaxPages
          /\ new.at \in {"inserting", "listing", "recording"}
          /\ new.at = "listing" => new.whole /\ new.page < MaxPages
      BY <1>1, <1>4, <1>5, <1>6, <1>8, <2>1
    <2>3. visit.at \notin {"none", "queued"} /\ new.at \notin {"none", "queued"} /\ new.at # "yesterday"
      BY <1>3, <2>2
    <2>4. troubles' \in Nat /\ troubles' <= MaxTrouble
      BY <1>3, <1>4, <1>7
    <2> QED
      BY <1>3, <1>4, <1>8, <2>2, <2>3, <2>4, VisitMoves
  <1> QED
    BY <1>3, <1>4, <1>5, <1>6, <1>7, <1>9 DEF rows, count, Total

LEMMA RequestFailsBase ==
  ASSUME OfficialBase, RequestFails
  PROVE  /\ OfficialBase' /\ visit.at \in {"listing", "yesterday"} /\ visit'.run = visit.run
         /\ visit'.at = "recording" /\ troubles' = troubles + 1
         /\ UNCHANGED <<kind, clock, posted, collected, polledAt, begun>>
  <1> DEFINE new == [visit EXCEPT !.rows = {}, !.at = "recording"]
  <1>1. /\ visit.at \in {"listing", "yesterday"} /\ Goes("fetch") /\ visit' = new
        /\ visit \in VisitRecord
        /\ UNCHANGED <<kind, clock, posted, collected, polledAt, begun>>
    BY DEF RequestFails, OfficialBase, OfficialTyped
  <1>2. /\ new \in VisitRecord /\ new.at = "recording" /\ new.run = visit.run /\ new.from = visit.from
        /\ new.listed = visit.listed /\ new.rows = {} /\ new.page = visit.page
    BY <1>1 DEF VisitRecord
  <1> HIDE DEF new
  <1>3. troubles' = troubles + 1 /\ troubles' \in Nat /\ troubles' <= MaxTrouble
    BY <1>1, GoesCounts DEF OfficialBase
  <1>4. collected \subseteq 1 .. Len(posted) /\ visit.page <= MaxPages
    BY DEF OfficialBase, OfficialTyped, VisitFits
  <1>5. OfficialBase'
    <2>1. visit.at \notin {"none", "queued"} /\ new.at \notin {"none", "queued"} /\ new.at # "listing"
          /\ new.at # "yesterday" /\ new.rows \subseteq 1 .. Len(posted)
      BY <1>1, <1>2
    <2> QED
      BY <1>1, <1>2, <1>3, <1>4, <2>1, VisitMoves
  <1> QED
    BY <1>1, <1>2, <1>3, <1>5

LEMMA StoreBase ==
  ASSUME OfficialBase, Store
  PROVE  /\ OfficialBase' /\ visit.at = "inserting" /\ visit'.run = visit.run
         /\ visit'.at = "recording" /\ collected \subseteq collected'
         /\ \/ collected' = collected \cup visit.rows /\ UNCHANGED troubles
            \/ troubles' = troubles + 1
         /\ UNCHANGED <<kind, clock, posted, polledAt, begun>>
  <1> DEFINE new == [visit EXCEPT !.at = "recording"]
  <1>1. /\ visit.at = "inserting" /\ visit' = new /\ visit \in VisitRecord
        /\ UNCHANGED <<kind, clock, posted, polledAt, begun>>
    BY DEF Store, OfficialBase, OfficialTyped
  <1>2. PICK rows \in SUBSET (visit.rows \ collected) :
          /\ \/ rows = visit.rows \ collected /\ UNCHANGED troubles
             \/ rows # visit.rows \ collected /\ Goes("insert")
          /\ collected' = collected \cup rows
    BY DEF Store
  <1>3. /\ new \in VisitRecord /\ new.at = "recording" /\ new.run = visit.run /\ new.from = visit.from
        /\ new.listed = visit.listed /\ new.rows = visit.rows /\ new.page = visit.page
    BY <1>1 DEF VisitRecord
  <1> HIDE DEF new
  <1>4. Goes("insert") => troubles' = troubles + 1 /\ troubles' \in Nat /\ troubles' <= MaxTrouble
    BY GoesCounts DEF OfficialBase
  <1>5. /\ collected \subseteq 1 .. Len(posted) /\ visit.page <= MaxPages
        /\ visit.rows \subseteq 1 .. Len(posted) /\ troubles \in Nat /\ troubles <= MaxTrouble
    BY DEF OfficialBase, OfficialTyped, VisitFits
  <1>6. OfficialBase'
    <2>1. visit.at \notin {"none", "queued"} /\ new.at \notin {"none", "queued"} /\ new.at # "listing"
          /\ new.at # "yesterday" /\ new.rows \subseteq 1 .. Len(posted) /\ new.page <= MaxPages
      BY <1>1, <1>3, <1>5
    <2>2. collected' \subseteq 1 .. Len(posted) /\ troubles' \in Nat /\ troubles' <= MaxTrouble
      BY <1>2, <1>4, <1>5
    <2> QED
      BY <1>1, <1>3, <2>1, <2>2, VisitMoves
  <1> QED
    BY <1>1, <1>2, <1>3, <1>4, <1>6

LEMMA RecordVisitBase ==
  ASSUME OfficialBase, RecordVisit
  PROVE  /\ OfficialBase' /\ visit.at = "recording" /\ visit'.at = "none" /\ polledAt' = clock
         /\ UNCHANGED <<kind, clock, posted, collected, begun, troubles>>
  <1>1. /\ visit.at = "recording" /\ visit' = NoVisit /\ polledAt' = clock /\ clock \in Nat
        /\ UNCHANGED <<kind, clock, posted, collected, begun, troubles>>
    BY DEF RecordVisit, OfficialBase, OfficialTyped
  <1>2. OfficialTyped'
    BY <1>1, NoVisitFits DEF OfficialBase, OfficialTyped
  <1>3. VisitFits'
    BY <1>1, NoVisitFits, OfficialConstants DEF OfficialBase, OfficialTyped, VisitFits
  <1> QED
    BY <1>1, <1>2, <1>3, NoVisitFits DEF OfficialBase

LEMMA CutOffBase ==
  ASSUME OfficialBase, CutOff
  PROVE  /\ OfficialBase' /\ visit.at # "none" /\ visit'.at = "none" /\ troubles' = troubles + 1
         /\ UNCHANGED <<kind, clock, posted, collected, polledAt, begun>>
  <1>1. /\ visit.at # "none" /\ visit' = NoVisit /\ Goes("stop")
        /\ UNCHANGED <<kind, clock, posted, collected, polledAt, begun>>
    BY DEF CutOff
  <1>2. troubles' = troubles + 1 /\ troubles' \in Nat /\ troubles' <= MaxTrouble
    BY <1>1, GoesCounts DEF OfficialBase
  <1>3. OfficialTyped'
    BY <1>1, <1>2, NoVisitFits DEF OfficialBase, OfficialTyped, Unpolled
  <1>4. VisitFits'
    BY <1>1, NoVisitFits, OfficialConstants DEF OfficialBase, OfficialTyped, VisitFits
  <1> QED
    BY <1>1, <1>2, <1>3, <1>4, NoVisitFits DEF OfficialBase

LEMMA OfficialBaseInit == OfficialInit => OfficialBase
  <1> SUFFICES ASSUME OfficialInit PROVE OfficialBase
    OBVIOUS
  <1>1. /\ posted = << >> /\ Len(posted) = 0 /\ posted \in Seq(Nat) /\ clock = 0 /\ collected = {}
        /\ kind \in Kinds /\ polledAt = Unpolled /\ begun = -1 /\ visit = NoVisit /\ troubles = 0
    BY DEF OfficialInit
  <1>2. OfficialTyped
    BY <1>1, NoVisitFits, OfficialConstants DEF OfficialTyped, Unpolled
  <1>3. VisitFits
    BY <1>1, NoVisitFits, OfficialConstants DEF VisitFits
  <1> QED
    BY <1>2, <1>3 DEF OfficialBase

LEMMA OfficialBaseSame == OfficialBase /\ UNCHANGED officialVars => OfficialBase'
  <1> SUFFICES ASSUME OfficialBase, UNCHANGED officialVars PROVE OfficialBase'
    OBVIOUS
  <1>1. OfficialTyped'
    BY DEF officialVars, OfficialBase, OfficialTyped, Unpolled
  <1>2. VisitFits'
    BY DEF officialVars, OfficialBase, VisitFits
  <1> QED
    BY <1>1, <1>2 DEF OfficialBase

LEMMA OfficialBaseStep == OfficialBase /\ [OfficialNext]_officialVars => OfficialBase'
  BY PublicationBase, MinuteBase, ScheduleBase, BeginVisitBase, ReadDayBase, ReadYesterdayBase,
     ReadPageBase, RequestFailsBase, StoreBase, RecordVisitBase, CutOffBase, OfficialBaseSame
     DEF OfficialNext

\* The clock, the rows and the visit of an official source stay in their ranges.
THEOREM OfficialTypeCorrect == OfficialSpec => []OfficialTypeOK
  <1>1. OfficialSpec => []OfficialBase
    BY OfficialBaseInit, OfficialBaseStep, PTL DEF OfficialSpec
  <1> QED
    BY <1>1, OfficialBaseType, PTL
-----------------------------------------------------------------------------
(* OfficialSource: the pages of SEBI's listing *)

\* The pages a poll may ask for hold every release.
PagesSuffice == MaxReleases <= PageSize * MaxPages

\* The rows a query returns are those of its days, and only new ones come.
\* What the pages read so far held when they were read has been taken, except what is newer
\* than the poll.
SebiRead ==
  kind = "sebi" /\ visit.at = "listing" =>
    /\ visit.count <= PageSize * visit.page
    /\ \A i \in SebiRows :
         i <= visit.listed /\ NewerIn(SebiRows, i) < PageSize * visit.page => i \in visit.rows

PagesInv == SebiRead /\ PagesAddUp

LEMMA SebiPageIs ==
  ASSUME OfficialBase, NEW p \in Nat
  PROVE  /\ PageSize * p \in Nat
         /\ SebiPage(p) = {i \in SebiRows : /\ NewerIn(SebiRows, i) >= PageSize * p
                                            /\ NewerIn(SebiRows, i) < PageSize * p + PageSize}
         /\ IsFiniteSet(SebiPage(p)) /\ Cardinality(SebiPage(p)) \in Nat
         /\ Cardinality(SebiPage(p)) <= PageSize
  <1>1. SebiRows \in SUBSET Nat /\ IsFiniteSet(SebiRows)
    BY SebiRowsFinite
  <1>2. PageSize * p \in Nat /\ p * PageSize = PageSize * p /\ (p + 1) * PageSize = PageSize * p + PageSize
    <2>1. PageSize * (p + 1) = PageSize * p + PageSize /\ PageSize * p \in Nat
      BY OfficialConstants, Product
    <2> QED
      BY <2>1, OfficialConstants
  <1>3. SebiPage(p) = {i \in SebiRows : /\ NewerIn(SebiRows, i) >= PageSize * p
                                        /\ NewerIn(SebiRows, i) < PageSize * p + PageSize}
    BY <1>2 DEF SebiPage, NewerIn
  <1>4. Cardinality(SebiPage(p)) <= PageSize
    BY <1>1, <1>2, <1>3, RanksBound, OfficialConstants
  <1>5. IsFiniteSet(SebiPage(p))
    BY <1>1, <1>3, FS_Subset
  <1> QED
    BY <1>2, <1>3, <1>4, <1>5, FS_CardinalityType

LEMMA PublicationPages ==
  ASSUME OfficialBase, OfficialBase', PagesInv, Publication
  PROVE  PagesInv'
  <1>1. UNCHANGED <<kind, visit>>
    BY DEF Publication
  <1>2. /\ Len(posted') = Len(posted) + 1 /\ Len(posted) \in Nat
        /\ \A i \in 1 .. Len(posted) : posted'[i] = posted[i]
    BY PublicationBase DEF OfficialBase, OfficialTyped
  <1> DEFINE D == {DayOf(visit.from) - 1, DayOf(visit.from)}
  <1>3. SebiRows = {i \in 1 .. Len(posted) : DayOf(posted[i]) \in D}
    BY SebiRowsFinite
  <1>4. SebiRows' = {i \in 1 .. Len(posted') : DayOf(posted'[i]) \in D}
    <2>1. DOMAIN posted' = 1 .. Len(posted')
      BY DEF OfficialBase, OfficialTyped
    <2> QED
      BY <1>1, <2>1 DEF SebiRows, OfDays, Release
  <1>5. PICK T : T = SebiRows'
    OBVIOUS
  <1> HIDE DEF D
  <1>6. SebiRows \subseteq T /\ T \in SUBSET Nat /\ IsFiniteSet(T)
    <2>1. SebiRows \subseteq T
      BY <1>2, <1>3, <1>4, <1>5 DEF DayOf
    <2>2. T \subseteq 1 .. Len(posted') /\ IsFiniteSet(1 .. Len(posted'))
      <3>1. Len(posted') \in Nat
        BY <1>2
      <3> QED
        BY <1>4, <1>5, <3>1, FS_Interval
    <2>3. IsFiniteSet(T)
      BY <2>2, FS_Subset
    <2>4. T \in SUBSET Nat
      BY <2>2
    <2> QED
      BY <2>1, <2>3, <2>4
  <1>7. \A i \in T : i <= visit.listed => i \in SebiRows
    <2> SUFFICES ASSUME NEW i \in T, i <= visit.listed PROVE i \in SebiRows
      OBVIOUS
    <2>1. visit.listed <= Len(posted) /\ visit.listed \in Nat
      BY DEF OfficialBase, OfficialTyped, VisitFits, VisitRecord
    <2>2. i \in 1 .. Len(posted)
      BY <1>2, <1>4, <1>5, <2>1
    <2> QED
      BY <1>2, <1>3, <1>4, <1>5, <2>2 DEF DayOf
  <1>8. \A i \in SebiRows : NewerIn(SebiRows, i) <= NewerIn(T, i) /\ NewerIn(SebiRows, i) \in Nat
                            /\ NewerIn(T, i) \in Nat
    BY <1>6, NewerGrows, NewerFinite, SebiRowsFinite
  <1>9. SebiRead'
    <2> SUFFICES ASSUME kind = "sebi", visit.at = "listing"
                 PROVE  /\ visit.count <= PageSize * visit.page
                        /\ \A i \in T : i <= visit.listed /\ NewerIn(T, i) < PageSize * visit.page
                             => i \in visit.rows
      BY <1>1, <1>5 DEF SebiRead
    <2>1. PageSize * visit.page \in Nat
      BY OfficialConstants, Product DEF OfficialBase, OfficialTyped, VisitRecord
    <2> QED
      BY <1>7, <1>8, <2>1 DEF PagesInv, SebiRead
  <1>10. PagesAddUp'
    BY <1>1, <1>5, <1>7 DEF PagesInv, PagesAddUp
  <1> QED
    BY <1>9, <1>10 DEF PagesInv

LEMMA ReadPagePages ==
  ASSUME PagesSuffice, OfficialBase, OfficialBase', PagesInv, ReadPage
  PROVE  PagesInv'
  <1>1. /\ visit.at = "listing" /\ kind = "sebi" /\ kind' = kind /\ visit'.from = visit.from
        /\ visit'.listed = visit.listed /\ posted' = posted
    BY ReadPageBase
  <1>2. SebiRows' = SebiRows
    BY <1>1 DEF SebiRows, OfDays, Release, DayOf
  <1>3. CASE ~visit'.whole /\ visit'.at \in {"inserting", "recording"}
    BY <1>3 DEF PagesInv, SebiRead, PagesAddUp
  <1>4. CASE /\ visit'.rows = visit.rows \cup SebiPage(visit.page)
             /\ visit'.count = visit.count + Cardinality(SebiPage(visit.page))
             /\ visit'.page = visit.page + 1
             /\ visit'.at = IF \/ SebiPage(visit.page) = {} \/ visit'.count >= Cardinality(SebiRows)
                               \/ visit.page + 1 = MaxPages
                            THEN "inserting" ELSE "listing"
    <2> DEFINE S == SebiRows
               p == visit.page
               a == PageSize * p
    <2>1. /\ S \in SUBSET Nat /\ IsFiniteSet(S) /\ Cardinality(S) \in Nat
          /\ Cardinality(S) <= MaxReleases
      BY SebiRowsFinite
    <2>2. p \in Nat /\ visit.count \in Nat
      BY DEF OfficialBase, OfficialTyped, VisitRecord
    <2>3. /\ a \in Nat /\ Cardinality(SebiPage(p)) <= PageSize /\ Cardinality(SebiPage(p)) \in Nat
          /\ SebiPage(p) = {i \in S : NewerIn(S, i) >= a /\ NewerIn(S, i) < a + PageSize}
      BY <2>2, SebiPageIs
    <2>4. PageSize * (p + 1) = a + PageSize
      BY <2>2, OfficialConstants, Product
    <2>5. visit.count <= a /\ \A i \in S : i <= visit.listed /\ NewerIn(S, i) < a => i \in visit.rows
      BY <1>1 DEF PagesInv, SebiRead
    <2>6. \A i \in S : NewerIn(S, i) \in Nat /\ NewerIn(S, i) < Cardinality(S)
      BY <2>1, NewerFinite
    <2> HIDE DEF S, a
    <2>7. \A i \in S : i <= visit.listed /\ NewerIn(S, i) < a + PageSize => i \in visit'.rows
      BY <1>4, <2>3, <2>5, <2>6
    <2>8. visit'.count <= a + PageSize
      BY <1>4, <2>2, <2>3, <2>5, OfficialConstants
    <2>9. SebiRead'
      BY <1>1, <1>2, <1>4, <2>4, <2>7, <2>8 DEF SebiRead, S
    <2>10. PagesAddUp'
      <3> SUFFICES ASSUME visit'.at = "inserting"
                   PROVE  \A i \in S : i <= visit.listed => i \in visit'.rows
        BY <1>1, <1>2 DEF PagesAddUp, S
      <3>1. CASE SebiPage(p) = {}
        <4>1. ASSUME NEW i \in S, NewerIn(S, i) >= a PROVE FALSE
          <5>1. PICK j \in S : NewerIn(S, j) = a
            BY <2>1, <2>3, <4>1, RanksMeet
          <5>2. j \in SebiPage(p)
            BY <2>3, <5>1, OfficialConstants
          <5> QED
            BY <3>1, <5>2
        <4>2. \A i \in S : NewerIn(S, i) < a + PageSize
          BY <2>3, <2>6, <4>1, OfficialConstants
        <4> QED
          BY <2>7, <4>2
      <3>2. CASE visit'.count >= Cardinality(SebiRows)
        <4>1. Cardinality(S) <= a + PageSize
          BY <1>4, <2>1, <2>2, <2>3, <2>8, <3>2, OfficialConstants DEF S
        <4> QED
          BY <2>1, <2>3, <2>6, <2>7, <4>1, OfficialConstants
      <3>3. CASE p + 1 = MaxPages
        <4>1. Cardinality(S) <= a + PageSize
          BY <2>1, <2>3, <2>4, <3>3, OfficialConstants DEF PagesSuffice
        <4> QED
          BY <2>1, <2>3, <2>6, <2>7, <4>1, OfficialConstants
      <3> QED
        BY <1>4, <3>1, <3>2, <3>3
    <2> QED
      BY <2>9, <2>10 DEF PagesInv
  <1> QED
    BY <1>3, <1>4, ReadPageBase

LEMMA PagesStep ==
  ASSUME PagesSuffice, OfficialBase, OfficialBase', PagesInv, [OfficialNext]_officialVars
  PROVE  PagesInv'
  <1>1. CASE UNCHANGED <<kind, posted, visit>>
    <2>1. SebiRows' = SebiRows
      BY <1>1 DEF SebiRows, OfDays, Release, DayOf
    <2> QED
      BY <1>1, <2>1 DEF PagesInv, SebiRead, PagesAddUp
  <1>2. CASE visit'.at \notin {"listing", "inserting"} \/ kind' # "sebi"
    BY <1>2 DEF PagesInv, SebiRead, PagesAddUp
  <1>3. CASE BeginVisit
    <2>1. visit'.at = "listing" /\ visit'.page = 0 /\ visit'.count = 0
      BY <1>3, BeginVisitBase
    <2>2. PageSize * 0 = 0
      BY OfficialConstants
    <2>3. PICK T \in SUBSET Nat : T = SebiRows' /\ IsFiniteSet(T)
      <3>1. SebiRows' \subseteq 1 .. Len(posted') /\ Len(posted') \in Nat
        BY DEF SebiRows, OfDays, Release, OfficialBase, OfficialTyped
      <3>2. IsFiniteSet(1 .. Len(posted'))
        BY <3>1, FS_Interval
      <3>3. IsFiniteSet(SebiRows')
        BY <3>1, <3>2, FS_Subset
      <3> QED
        BY <3>1, <3>3
    <2>4. \A i \in T : ~(NewerIn(T, i) < 0)
      <3>1. \A i \in T : NewerIn(T, i) \in Nat
        BY <2>3, NewerFinite
      <3> QED
        BY <3>1
    <2> QED
      BY <2>1, <2>2, <2>3, <2>4 DEF PagesInv, SebiRead, PagesAddUp
  <1>4. CASE ReadDay
    BY <1>2, <1>4, ReadDayBase
  <1>5. CASE ReadYesterday
    BY <1>2, <1>5, ReadYesterdayBase
  <1>6. CASE Schedule
    BY <1>1, <1>2, <1>6 DEF Schedule, NoVisit
  <1>7. CASE UNCHANGED officialVars \/ Minute
    BY <1>1, <1>7 DEF officialVars, Minute
  <1>8. CASE Publication \/ ReadPage
    BY <1>8, PublicationPages, ReadPagePages
  <1>9. CASE RequestFails \/ Store \/ RecordVisit \/ CutOff
    BY <1>2, <1>9, RequestFailsBase, StoreBase, RecordVisitBase, CutOffBase
  <1> QED
    BY <1>3, <1>4, <1>5, <1>6, <1>7, <1>8, <1>9 DEF OfficialNext

LEMMA PagesStay ==
  ASSUME PagesSuffice
  PROVE  OfficialSpec => [](OfficialBase /\ PagesInv)
  <1>1. OfficialInit => OfficialBase /\ PagesInv
    BY OfficialBaseInit DEF OfficialInit, NoVisit, PagesInv, SebiRead, PagesAddUp
  <1>2. OfficialBase /\ PagesInv /\ [OfficialNext]_officialVars => (OfficialBase /\ PagesInv)'
    BY OfficialBaseStep, PagesStep
  <1> QED
    BY <1>1, <1>2, PTL DEF OfficialSpec

\* pipeline/official.py:238: a SEBI poll that was not blocked has every row that was there
\* when it began, whatever moves from page to page meanwhile.
THEOREM NoPageSlips ==
  ASSUME PagesSuffice
  PROVE  OfficialSpec => []PagesAddUp
  <1>1. OfficialBase /\ PagesInv => PagesAddUp
    BY DEF PagesInv
  <1> QED
    BY <1>1, PagesStay, PTL
-----------------------------------------------------------------------------
(* OfficialSource: no release is lost with its listing *)

\* The Bureau's listing is read long enough after midnight.
NightIsLong == "pib" \in Kinds => Patience <= Night

\* The time from which a poll that begins later and has no trouble is sure to see release i.
OpensAt(i) == IF kind = "pib" THEN (DayOf(posted[i]) + 1) * Day - 1 ELSE posted[i]

\* By then a run has polled the feed for it, if t troubles have come.
Grace(t)  == 2 * Interval * (t + 1)
Latest(i) == OpensAt(i) + Grace(troubles)

\* What NothingMissed promises release i.
Owed(i) == kind = "pib" \/ posted[i] + Patience < GoneAt(i)

\* A run that polls the feed starts by time t, if it has no trouble.
SlotBy(t) ==
  \E s \in Nat : /\ s % Interval = 0 /\ s >= clock /\ s # begun
                 /\ s >= polledAt + DueAfter /\ s <= t

WillSee(i) == i <= visit.listed /\ (kind = "pib" => visit.from > OpensAt(i))
Behind(i)  == visit.run + 2 * Interval <= Latest(i)

\* The poll under way takes release i, or began so early that the next one still is in time.
Timely(i) ==
  /\ visit.at = "none" => SlotBy(Latest(i))
  /\ visit.at # "none" => visit.run <= Latest(i)
  /\ visit.at \in {"listing", "yesterday"} => WillSee(i) \/ Behind(i)
  /\ visit.at = "inserting" => i \in visit.rows \/ Behind(i)
  /\ visit.at = "recording" => Behind(i)

TimelyInv ==
  \A i \in 1 .. Len(posted) :
    i \notin collected /\ OpensAt(i) <= clock /\ Owed(i) => Timely(i)

LEMMA GraceIs ==
  ASSUME NEW t \in Nat
  PROVE  /\ Grace(t) \in Nat /\ Grace(t + 1) = Grace(t) + 2 * Interval /\ Grace(t) >= 2 * Interval
         /\ t <= MaxTrouble => Grace(t) + JobTime <= Patience
  <1>1. 2 * Interval \in Nat /\ MaxTrouble + 1 \in Nat /\ t + 1 \in Nat
    BY OfficialConstants
  <1>2. 2 * Interval * (t + 1) \in Nat /\ 2 * Interval * (t + 1 + 1) = 2 * Interval * (t + 1) + 2 * Interval
    BY <1>1, Product
  <1>3. 2 * Interval * (t + 1) = 2 * Interval * t + 2 * Interval /\ 2 * Interval * t \in Nat
    BY <1>1, Product
  <1>4. t <= MaxTrouble => 2 * Interval * (t + 1) <= 2 * Interval * (MaxTrouble + 1)
    <2> SUFFICES ASSUME t + 1 <= MaxTrouble + 1 PROVE 2 * Interval * (t + 1) <= 2 * Interval * (MaxTrouble + 1)
      BY OfficialConstants
    <2> QED
      BY <1>1, Product
  <1>5. 2 * Interval * (MaxTrouble + 1) \in Nat
    BY <1>1, Product
  <1> QED
    BY <1>1, <1>2, <1>3, <1>4, <1>5, OfficialConstants DEF Grace, Patience

\* The day of release i, when it opens and when it is gone.
LEMMA ReleaseTimes ==
  ASSUME OfficialBase, NEW i \in 1 .. Len(posted)
  PROVE  /\ posted[i] \in Nat /\ posted[i] <= clock /\ DayOf(posted[i]) \in Nat
         /\ OpensAt(i) \in Nat /\ posted[i] <= OpensAt(i) /\ Latest(i) \in Nat
         /\ Latest(i) >= OpensAt(i) + 2 * Interval
         /\ \E dawn \in Nat :
              /\ dawn = Day * DayOf(posted[i]) /\ dawn <= posted[i] /\ posted[i] < dawn + Day
              /\ kind = "pib" => OpensAt(i) = dawn + Day - 1 /\ GoneAt(i) = dawn + Day + Night
              /\ kind = "exchange" => GoneAt(i) = dawn + Day
              /\ kind = "sebi" => GoneAt(i) = dawn + Day + Day
              /\ kind # "pib" => OpensAt(i) = posted[i]
         /\ kind \in {"pib", "exchange", "sebi"}
  <1>1. posted[i] \in Nat /\ posted[i] <= clock /\ troubles \in Nat /\ kind \in {"pib", "exchange", "sebi"}
    BY OfficialConstants DEF OfficialBase, OfficialTyped, Kind
  <1> DEFINE d == DayOf(posted[i])
  <1>2. d \in Nat /\ Day * d <= posted[i] /\ posted[i] < Day * d + Day /\ Day * d \in Nat
    <2>1. posted[i] \div Day \in Nat
      BY <1>1, OfficialConstants, Division
    <2>2. Day * (posted[i] \div Day) \in Nat
      BY <2>1, OfficialConstants, Product
    <2>3. /\ posted[i] % Day \in Nat /\ posted[i] % Day < Day
          /\ posted[i] = Day * (posted[i] \div Day) + (posted[i] % Day)
      BY <1>1, OfficialConstants, Division
    <2>4. d = posted[i] \div Day
      BY DEF DayOf
    <2>5. PICK r \in Nat : r < Day /\ posted[i] = Day * d + r /\ d \in Nat /\ Day * d \in Nat
      BY <2>1, <2>2, <2>3, <2>4
    <2> HIDE DEF d
    <2> QED
      BY <1>1, <2>5, OfficialConstants
  <1> HIDE DEF d
  <1>3. (d + 1) * Day = Day * d + Day /\ (d + 2) * Day = Day * d + Day + Day
    <2>1. Day * (d + 1) = Day * d + Day
      BY <1>2, OfficialConstants, Product
    <2>2. Day * ((d + 1) + 1) = Day * (d + 1) + Day
      <3>1. d + 1 \in Nat
        BY <1>2
      <3> QED
        BY <3>1, OfficialConstants, Product
    <2>3. (d + 1) * Day = Day * (d + 1) /\ (d + 2) * Day = Day * ((d + 1) + 1)
      BY <1>2, OfficialConstants
    <2> QED
      BY <2>1, <2>2, <2>3
  <1>4. OpensAt(i) = IF kind = "pib" THEN Day * d + Day - 1 ELSE posted[i]
    <2>1. OpensAt(i) = IF kind = "pib" THEN (d + 1) * Day - 1 ELSE posted[i]
      BY DEF OpensAt, d
    <2> QED
      BY <1>2, <1>3, <2>1, OfficialConstants
  <1>5. /\ kind = "pib" => GoneAt(i) = Day * d + Day + Night
        /\ kind = "exchange" => GoneAt(i) = Day * d + Day
        /\ kind = "sebi" => GoneAt(i) = Day * d + Day + Day
    BY <1>3 DEF GoneAt, d
  <1>6. OpensAt(i) \in Nat /\ posted[i] <= OpensAt(i)
    BY <1>1, <1>2, <1>4, OfficialConstants
  <1>7. Latest(i) \in Nat /\ Latest(i) >= OpensAt(i) + 2 * Interval
    <2>1. Grace(troubles) \in Nat /\ Grace(troubles) >= 2 * Interval
      BY <1>1, GraceIs
    <2> QED
      BY <1>6, <2>1, OfficialConstants DEF Latest
  <1> QED
    BY <1>1, <1>2, <1>4, <1>5, <1>6, <1>7 DEF d

\* The listing of a release goes at some time.
LEMMA GoneIsNat ==
  ASSUME OfficialBase, NEW i \in 1 .. Len(posted)
  PROVE  GoneAt(i) \in Nat
  <1>1. PICK dawn \in Nat :
          /\ kind = "pib" => GoneAt(i) = dawn + Day + Night
          /\ kind = "exchange" => GoneAt(i) = dawn + Day
          /\ kind = "sebi" => GoneAt(i) = dawn + Day + Day
    BY ReleaseTimes
  <1>2. kind \in {"pib", "exchange", "sebi"}
    BY ReleaseTimes
  <1>3. Day \in Nat /\ Night \in Nat
    BY OfficialConstants
  <1> QED
    BY <1>1, <1>2, <1>3

\* A run that starts in time reads before the listing is gone.
LEMMA InTime ==
  ASSUME NightIsLong, OfficialBase, NEW i \in 1 .. Len(posted), Owed(i), NEW t \in Nat,
         t <= Latest(i) + JobTime
  PROVE  t < GoneAt(i)
  <1>1. troubles \in Nat /\ troubles <= MaxTrouble /\ kind \in Kinds
    BY DEF OfficialBase, OfficialTyped
  <1>2. Latest(i) + JobTime <= OpensAt(i) + Patience /\ Patience \in Nat
    <2>1. Grace(troubles) \in Nat /\ Grace(troubles) + JobTime <= Patience
      BY <1>1, GraceIs
    <2>2. Patience \in Nat
      <3>1. 2 * Interval * (MaxTrouble + 1) \in Nat
        BY OfficialConstants, Product
      <3> QED
        BY <3>1, OfficialConstants DEF Patience
    <2> QED
      BY <2>1, <2>2, ReleaseTimes, OfficialConstants DEF Latest
  <1>3. PICK dawn \in Nat :
          /\ kind = "pib" => OpensAt(i) = dawn + Day - 1 /\ GoneAt(i) = dawn + Day + Night
          /\ kind = "exchange" => GoneAt(i) = dawn + Day
          /\ kind = "sebi" => GoneAt(i) = dawn + Day + Day
          /\ kind # "pib" => OpensAt(i) = posted[i]
    BY ReleaseTimes
  <1>4. CASE kind = "pib"
    BY <1>1, <1>2, <1>3, <1>4, ReleaseTimes, OfficialConstants DEF NightIsLong
  <1>5. CASE kind # "pib"
    BY <1>2, <1>3, <1>5, ReleaseTimes, OfficialConstants DEF Owed
  <1> QED
    BY <1>4, <1>5

\* What opens now finds everything in time.
LEMMA FreshIsTimely ==
  OfficialBase => \A i \in 1 .. Len(posted) : OpensAt(i) >= clock => Timely(i)
  <1> SUFFICES ASSUME OfficialBase, NEW i \in 1 .. Len(posted), OpensAt(i) >= clock PROVE Timely(i)
    OBVIOUS
  <1>1. /\ clock \in Nat /\ polledAt \in Int /\ polledAt <= clock /\ begun \in Int /\ begun <= clock
        /\ visit.run \in Nat /\ visit.run <= clock
        /\ visit.at \in {"none", "queued", "listing", "yesterday", "inserting", "recording"}
    BY DEF OfficialBase, OfficialTyped, VisitFits, VisitRecord
  <1>2. OpensAt(i) \in Nat /\ Latest(i) \in Nat /\ Latest(i) >= clock + 2 * Interval
    BY <1>1, ReleaseTimes, OfficialConstants
  <1>3. Behind(i) /\ visit.run <= Latest(i)
    BY <1>1, <1>2, OfficialConstants DEF Behind
  <1>4. SlotBy(Latest(i))
    <2>1. clock + Interval \in Nat /\ clock + Interval >= polledAt + DueAfter
      BY <1>1, OfficialConstants
    <2>2. PICK s \in Nat : s % Interval = 0 /\ s > clock + Interval /\ s <= (clock + Interval) + Interval
      BY <2>1, SlotAfter
    <2>3. s >= clock /\ s # begun /\ s >= polledAt + DueAfter /\ s <= Latest(i)
      BY <1>1, <1>2, <2>1, <2>2, OfficialConstants
    <2> QED
      BY <2>2, <2>3 DEF SlotBy
  <1> QED
    BY <1>1, <1>3, <1>4 DEF Timely

\* A trouble gives two intervals more.
LEMMA LatestMoves ==
  ASSUME OfficialBase, NEW i \in 1 .. Len(posted), UNCHANGED kind, posted'[i] = posted[i]
  PROVE  /\ OpensAt(i)' = OpensAt(i) /\ Owed(i)' = Owed(i)
         /\ UNCHANGED troubles => Latest(i)' = Latest(i)
         /\ troubles' = troubles + 1 => Latest(i)' = Latest(i) + 2 * Interval
  <1>1. OpensAt(i)' = OpensAt(i)
    BY DEF OpensAt, DayOf
  <1>2. Owed(i)' = Owed(i)
    BY DEF Owed, GoneAt, DayOf
  <1>3. troubles \in Nat /\ OpensAt(i) \in Nat
    BY ReleaseTimes DEF OfficialBase, OfficialTyped
  <1>4. Latest(i)' = OpensAt(i) + Grace(troubles')
    BY <1>1 DEF Latest, Grace
  <1>5. UNCHANGED troubles => Latest(i)' = Latest(i)
    BY <1>4 DEF Latest
  <1>6. troubles' = troubles + 1 => Latest(i)' = Latest(i) + 2 * Interval
    <2>1. Grace(troubles) \in Nat /\ Grace(troubles + 1) = Grace(troubles) + 2 * Interval
      BY <1>3, GraceIs
    <2> QED
      BY <1>3, <1>4, <2>1, OfficialConstants DEF Latest
  <1> QED
    BY <1>1, <1>2, <1>5, <1>6
\* The same in the next state.
LEMMA FreshNext ==
  /\ (OfficialBase => \A i \in 1 .. Len(posted) : OpensAt(i) >= clock => Timely(i))'
  /\ (OfficialBase => \A i \in 1 .. Len(posted) : OpensAt(i) \in Nat /\ posted[i] <= OpensAt(i))'
  <1>1. OfficialBase => \A i \in 1 .. Len(posted) : OpensAt(i) \in Nat /\ posted[i] <= OpensAt(i)
    BY ReleaseTimes
  <1> QED
    BY <1>1, FreshIsTimely, PTL

LEMMA MinuteTimely ==
  ASSUME OfficialBase, Minute, NEW i \in 1 .. Len(posted), Timely(i)
  PROVE  Timely(i)'
  <1>1. /\ clock \in Nat /\ clock' = clock + 1 /\ (clock % Interval = 0 => begun = clock)
        /\ UNCHANGED <<kind, posted, collected, polledAt, begun, visit, troubles>>
    BY DEF OfficialBase, OfficialTyped, Minute
  <1>2. Latest(i)' = Latest(i) /\ OpensAt(i)' = OpensAt(i)
    BY <1>1, LatestMoves
  <1>3. SlotBy(Latest(i)) => SlotBy(Latest(i))'
    <2> SUFFICES ASSUME SlotBy(Latest(i)) PROVE SlotBy(Latest(i))'
      OBVIOUS
    <2>1. PICK s \in Nat : /\ s % Interval = 0 /\ s >= clock /\ s # begun
                           /\ s >= polledAt + DueAfter /\ s <= Latest(i)
      BY DEF SlotBy
    <2>2. s # clock
      BY <1>1, <2>1
    <2>3. s >= clock'
      BY <1>1, <2>1, <2>2
    <2> QED
      BY <1>1, <1>2, <2>1, <2>3 DEF SlotBy
  <1> QED
    BY <1>1, <1>2, <1>3 DEF Timely, WillSee, Behind

LEMMA ScheduleTimely ==
  ASSUME OfficialBase, Schedule, NEW i \in 1 .. Len(posted), Timely(i)
  PROVE  Timely(i)'
  <1>1. /\ clock \in Nat /\ clock % Interval = 0 /\ begun' = clock /\ visit.at = "none"
        /\ UNCHANGED <<kind, clock, posted, collected, polledAt>> /\ polledAt \in Int
    BY ScheduleBase DEF OfficialBase, OfficialTyped, Schedule
  <1>2. PICK s \in Nat : /\ s % Interval = 0 /\ s >= clock /\ s # begun
                         /\ s >= polledAt + DueAfter /\ s <= Latest(i)
    BY <1>1 DEF Timely, SlotBy
  <1>3. Latest(i) \in Nat
    BY ReleaseTimes
  <1>4. /\ UNCHANGED troubles => Latest(i)' = Latest(i)
        /\ troubles' = troubles + 1 => Latest(i)' = Latest(i) + 2 * Interval
    BY <1>1, LatestMoves
  <1>5. CASE visit' = [NoVisit EXCEPT !.at = "queued", !.run = clock] /\ UNCHANGED troubles
    <2>1. visit'.at = "queued" /\ visit'.run = clock
      BY <1>5 DEF NoVisit
    <2>2. visit'.run <= Latest(i)'
      BY <1>1, <1>2, <1>3, <1>4, <1>5, <2>1
    <2> QED
      BY <2>1, <2>2 DEF Timely
  <1>6. CASE ~IsDue /\ UNCHANGED <<visit, troubles>>
    <2>1. s # begun'
      BY <1>1, <1>2, <1>6, OfficialConstants DEF IsDue
    <2>2. SlotBy(Latest(i))'
      BY <1>1, <1>2, <1>4, <1>6, <2>1 DEF SlotBy
    <2> QED
      BY <1>1, <1>6, <2>2 DEF Timely
  <1>7. CASE Goes("schedule") /\ UNCHANGED visit
    <2>1. troubles' = troubles + 1
      BY <1>7 DEF Goes
    <2>2. /\ s + Interval \in Nat /\ (s + Interval) % Interval = 0 /\ s + Interval >= clock
          /\ s + Interval # begun' /\ s + Interval >= polledAt + DueAfter /\ s + Interval <= Latest(i)'
      BY <1>1, <1>2, <1>3, <1>4, <2>1, NextSlot, OfficialConstants
    <2>3. SlotBy(Latest(i))'
      BY <1>1, <2>2 DEF SlotBy
    <2> QED
      BY <1>1, <1>7, <2>3 DEF Timely
  <1> QED
    BY <1>5, <1>6, <1>7 DEF Schedule

LEMMA BeginVisitTimely ==
  ASSUME OfficialBase, BeginVisit, NEW i \in 1 .. Len(posted), OpensAt(i) <= clock, Timely(i)
  PROVE  Timely(i)'
  <1>1. /\ visit.at = "queued" /\ UNCHANGED <<kind, clock, posted, collected, polledAt, begun, troubles>>
        /\ visit.run \in Nat /\ visit.run <= clock /\ clock \in Nat /\ Len(posted) \in Nat
    BY DEF BeginVisit, OfficialBase, OfficialTyped, VisitFits, VisitRecord
  <1>2. visit'.at = "listing" /\ visit'.run = visit.run /\ visit'.from = clock /\ visit'.listed = Len(posted)
    BY BeginVisitBase
  <1>3. Latest(i)' = Latest(i) /\ OpensAt(i)' = OpensAt(i)
    BY <1>1, LatestMoves
  <1>4. OpensAt(i) \in Nat /\ Latest(i) \in Nat /\ Latest(i) >= OpensAt(i) + 2 * Interval
    BY ReleaseTimes
  <1>5. CASE OpensAt(i) = clock
    <2>1. Behind(i)'
      BY <1>1, <1>2, <1>3, <1>4, <1>5, OfficialConstants DEF Behind
    <2> QED
      BY <1>1, <1>2, <1>3, <2>1 DEF Timely
  <1>6. CASE OpensAt(i) < clock
    <2>1. WillSee(i)'
      BY <1>1, <1>2, <1>3, <1>6 DEF WillSee
    <2> QED
      BY <1>1, <1>2, <1>3, <2>1 DEF Timely
  <1> QED
    BY <1>1, <1>4, <1>5, <1>6

\* What a step of a visit does to the promise: early enough it stays so, and a trouble
\* makes every run early.
LEMMA VisitTimely ==
  ASSUME OfficialBase, NEW i \in 1 .. Len(posted), Timely(i), UNCHANGED <<kind, posted>>,
         visit.at # "none", visit'.run = visit.run,
         UNCHANGED troubles \/ troubles' = troubles + 1
  PROVE  /\ visit'.run <= Latest(i)'
         /\ Behind(i) => Behind(i)'
         /\ troubles' = troubles + 1 => Behind(i)'
  <1>1. visit.run \in Nat /\ Latest(i) \in Nat /\ visit.run <= Latest(i)
    BY ReleaseTimes DEF Timely, OfficialBase, OfficialTyped, VisitRecord
  <1>2. /\ UNCHANGED troubles => Latest(i)' = Latest(i)
        /\ troubles' = troubles + 1 => Latest(i)' = Latest(i) + 2 * Interval
    BY LatestMoves
  <1> QED
    BY <1>1, <1>2, OfficialConstants DEF Behind

\* When a visit is sure to see release i, it reads while the listing holds it.
LEMMA SeenInTime ==
  ASSUME NightIsLong, OfficialBase, NEW i \in 1 .. Len(posted), Timely(i), Owed(i), WillSee(i),
         visit.at \in {"listing", "yesterday"}
  PROVE  /\ clock < GoneAt(i) /\ visit.from <= clock /\ posted[i] <= visit.from
         /\ visit.from \in Nat /\ clock \in Nat
  <1>1. /\ clock \in Nat /\ visit.from \in Nat /\ visit.from <= clock /\ visit.run \in Nat
        /\ clock <= visit.run + JobTime /\ visit.run <= Latest(i) /\ posted[i] <= visit.from
    BY DEF OfficialBase, OfficialTyped, VisitFits, VisitRecord, Timely, WillSee
  <1>2. clock <= Latest(i) + JobTime
    BY <1>1, ReleaseTimes, OfficialConstants
  <1> QED
    BY <1>1, <1>2, InTime

LEMMA ReadDayTimely ==
  ASSUME NightIsLong, OfficialBase, ReadDay, NEW i \in 1 .. Len(posted), Timely(i), Owed(i)
  PROVE  Timely(i)'
  <1>1. /\ visit.at = "listing" /\ kind # "sebi" /\ visit'.run = visit.run
        /\ visit'.from = visit.from /\ visit'.listed = visit.listed
        /\ visit'.rows = OfDays({DayOf(clock)})
        /\ visit'.at = (IF SweepsYesterday THEN "yesterday" ELSE "inserting")
        /\ UNCHANGED <<kind, clock, posted, collected, polledAt, begun, troubles>>
    BY ReadDayBase
  <1>2. visit'.run <= Latest(i)' /\ (Behind(i) => Behind(i)')
    BY <1>1, VisitTimely
  <1>3. WillSee(i) => WillSee(i)'
    BY <1>1, LatestMoves DEF WillSee
  <1>4. ASSUME WillSee(i), kind # "pib" PROVE i \in visit'.rows
    <2>1. clock < GoneAt(i) /\ posted[i] <= clock /\ clock \in Nat
      BY <1>1, <1>4, SeenInTime, ReleaseTimes
    <2>2. PICK dawn \in Nat :
            /\ dawn = Day * DayOf(posted[i]) /\ dawn <= posted[i] /\ GoneAt(i) = dawn + Day
      BY <1>1, <1>4, ReleaseTimes
    <2>3. DayOf(posted[i]) \in Nat /\ posted[i] \in Nat
      BY ReleaseTimes
    <2>4. clock \div Day = DayOf(posted[i])
      <3>1. PICK d \in Nat : d = DayOf(posted[i])
        BY <2>3
      <3>2. Day * d <= clock /\ clock < Day * d + Day
        BY <2>1, <2>2, <2>3, <3>1
      <3>3. clock \div Day = d
        BY <2>1, <3>2, QuotientIs, OfficialConstants
      <3> QED
        BY <3>1, <3>3
    <2>5. DayOf(posted[i]) \in {DayOf(clock)}
      BY <2>4 DEF DayOf
    <2> QED
      BY <1>1, <2>5, OfDaysIs
  <1>5. ASSUME WillSee(i), kind = "pib" PROVE SweepsYesterday
    <2>1. clock < GoneAt(i) /\ visit.from <= clock /\ visit.from \in Nat /\ clock \in Nat
          /\ visit.from > OpensAt(i)
      BY <1>1, <1>5, SeenInTime DEF WillSee
    <2>2. PICK dawn \in Nat :
            /\ dawn = Day * DayOf(posted[i]) /\ OpensAt(i) = dawn + Day - 1
            /\ GoneAt(i) = dawn + Day + Night
      BY <1>5, ReleaseTimes
    <2>3. PICK d \in Nat : d = DayOf(posted[i])
      BY ReleaseTimes
    <2>4. Day * (d + 1) = dawn + Day /\ d + 1 \in Nat
      BY <2>2, <2>3, Product, OfficialConstants
    <2>5. PICK next \in Nat : next = dawn + Day /\ Day * (d + 1) = next
      BY <2>4, OfficialConstants
    <2>6. next <= visit.from /\ visit.from < next + Night /\ visit.from < next + Day
      <3>1. OpensAt(i) = next - 1 /\ GoneAt(i) = next + Night
        BY <2>2, <2>5, OfficialConstants
      <3> QED
        BY <2>1, <3>1, OfficialConstants
    <2>7. visit.from % Day = visit.from - Day * (d + 1)
      <3>1. Day * (d + 1) <= visit.from /\ visit.from < Day * (d + 1) + Day
        BY <2>5, <2>6
      <3> QED
        BY <2>1, <2>4, <3>1, QuotientIs, OfficialConstants
    <2>8. Hour(visit.from) < Night
      BY <2>1, <2>5, <2>6, <2>7, OfficialConstants DEF Hour
    <2> QED
      BY <1>5, <2>8 DEF SweepsYesterday
  <1>6. WillSee(i) \/ Behind(i)
    BY <1>1 DEF Timely
  <1>7. SweepsYesterday => kind = "pib"
    BY DEF SweepsYesterday
  <1>8. visit'.at \in {"yesterday", "inserting"}
    BY <1>1
  <1>9. visit'.at = "inserting" => i \in visit'.rows \/ Behind(i)'
    BY <1>1, <1>2, <1>4, <1>5, <1>6
  <1> QED
    BY <1>2, <1>3, <1>6, <1>8, <1>9 DEF Timely

LEMMA ReadYesterdayTimely ==
  ASSUME NightIsLong, OfficialBase, ReadYesterday, NEW i \in 1 .. Len(posted), Timely(i), Owed(i)
  PROVE  Timely(i)'
  <1>1. /\ visit.at = "yesterday" /\ kind = "pib" /\ visit'.run = visit.run
        /\ visit'.from = visit.from /\ visit'.at = "inserting"
        /\ \/ visit'.rows = visit.rows \cup OfDays({DayOf(visit.from) - 1}) /\ UNCHANGED troubles
           \/ troubles' = troubles + 1
        /\ UNCHANGED <<kind, clock, posted, collected, polledAt, begun>>
    BY ReadYesterdayBase
  <1>2. /\ visit'.run <= Latest(i)' /\ (Behind(i) => Behind(i)')
        /\ troubles' = troubles + 1 => Behind(i)'
    <2>1. UNCHANGED troubles \/ troubles' = troubles + 1
      BY <1>1
    <2> QED
      BY <1>1, <2>1, VisitTimely
  <1>3. ASSUME WillSee(i) PROVE i \in OfDays({DayOf(visit.from) - 1})
    <2>1. clock < GoneAt(i) /\ visit.from <= clock /\ visit.from \in Nat /\ clock \in Nat
          /\ visit.from > OpensAt(i)
      BY <1>1, <1>3, SeenInTime DEF WillSee
    <2>2. PICK dawn \in Nat :
            /\ dawn = Day * DayOf(posted[i]) /\ OpensAt(i) = dawn + Day - 1
            /\ GoneAt(i) = dawn + Day + Night
      BY <1>1, ReleaseTimes
    <2>3. PICK d \in Nat : d = DayOf(posted[i])
      BY ReleaseTimes
    <2>4. Day * (d + 1) = dawn + Day /\ d + 1 \in Nat
      BY <2>2, <2>3, Product, OfficialConstants
    <2>5. Day * (d + 1) <= visit.from /\ visit.from < Day * (d + 1) + Day
      BY <2>1, <2>2, <2>4, OfficialConstants
    <2>6. visit.from \div Day = d + 1
      BY <2>1, <2>4, <2>5, QuotientIs, OfficialConstants
    <2>7. DayOf(posted[i]) \in {DayOf(visit.from) - 1}
      <3>1. DayOf(visit.from) = d + 1
        BY <2>6 DEF DayOf
      <3> QED
        BY <2>3, <3>1
    <2> QED
      BY <2>7, OfDaysIs
  <1>4. WillSee(i) \/ Behind(i)
    BY <1>1 DEF Timely
  <1>5. i \in visit'.rows \/ Behind(i)'
    BY <1>1, <1>2, <1>3, <1>4
  <1> QED
    BY <1>1, <1>2, <1>5 DEF Timely

LEMMA ReadPageTimely ==
  ASSUME NightIsLong, OfficialBase, OfficialBase', PagesAddUp', ReadPage,
         NEW i \in 1 .. Len(posted), Timely(i), Owed(i)
  PROVE  Timely(i)'
  <1>1. /\ visit.at = "listing" /\ kind = "sebi" /\ visit'.run = visit.run
        /\ visit'.from = visit.from /\ visit'.listed = visit.listed
        /\ UNCHANGED <<kind, clock, posted, collected, polledAt, begun>>
        /\ visit'.at \in {"listing", "inserting", "recording"}
        /\ \/ visit'.whole = visit.whole /\ visit'.at # "recording" /\ UNCHANGED troubles
           \/ troubles' = troubles + 1 /\ visit'.at # "listing"
    BY ReadPageBase
  <1>2. /\ visit'.run <= Latest(i)' /\ (Behind(i) => Behind(i)')
        /\ troubles' = troubles + 1 => Behind(i)'
    <2>1. UNCHANGED troubles \/ troubles' = troubles + 1
      BY <1>1
    <2> QED
      BY <1>1, <2>1, VisitTimely
  <1>3. WillSee(i) => WillSee(i)'
    BY <1>1, LatestMoves DEF WillSee
  <1>4. WillSee(i) \/ Behind(i)
    BY <1>1 DEF Timely
  <1>5. ASSUME WillSee(i), visit'.whole, visit'.at = "inserting" PROVE i \in visit'.rows
    <2>1. clock < GoneAt(i) /\ visit.from <= clock /\ posted[i] <= visit.from
          /\ visit.from \in Nat /\ clock \in Nat
      BY <1>1, <1>5, SeenInTime
    <2>2. PICK dawn \in Nat :
            /\ dawn = Day * DayOf(posted[i]) /\ dawn <= posted[i] /\ GoneAt(i) = dawn + Day + Day
      BY <1>1, ReleaseTimes
    <2>3. PICK d \in Nat : d = DayOf(posted[i])
      BY ReleaseTimes
    <2>4. Day * (d + 1) = dawn + Day /\ d + 1 \in Nat /\ Day * d = dawn
      BY <2>2, <2>3, Product, OfficialConstants
    <2>5. dawn <= visit.from /\ visit.from < dawn + Day + Day
      <3>1. posted[i] \in Nat
        BY ReleaseTimes
      <3> QED
        BY <2>1, <2>2, <3>1, OfficialConstants
    <2>6. CASE visit.from < dawn + Day
      <3>1. Day * d <= visit.from /\ visit.from < Day * d + Day
        BY <2>4, <2>5, <2>6
      <3>2. DayOf(visit.from) = d
        BY <2>1, <3>1, QuotientIs, OfficialConstants DEF DayOf
      <3> QED
        BY <1>1, <1>5, <2>3, <3>2 DEF PagesAddUp, SebiRows, OfDays, Release, DayOf, WillSee,
           OfficialBase, OfficialTyped
    <2>7. CASE visit.from >= dawn + Day
      <3>1. Day * (d + 1) <= visit.from /\ visit.from < Day * (d + 1) + Day
        BY <2>4, <2>5, <2>7
      <3>2. DayOf(visit.from) = d + 1
        BY <2>1, <2>4, <3>1, QuotientIs, OfficialConstants DEF DayOf
      <3>3. DayOf(posted[i]) = DayOf(visit.from) - 1
        BY <2>3, <3>2
      <3> QED
        BY <1>1, <1>5, <3>3 DEF PagesAddUp, SebiRows, OfDays, Release, DayOf, WillSee,
           OfficialBase, OfficialTyped
    <2> QED
      BY <2>1, <2>5, <2>6, <2>7, OfficialConstants
  <1>6. visit.whole
    BY <1>1 DEF OfficialBase, VisitFits
  <1>7. visit'.at = "listing" => WillSee(i)' \/ Behind(i)'
    BY <1>2, <1>3, <1>4
  <1>8. visit'.at = "inserting" => i \in visit'.rows \/ Behind(i)'
    BY <1>1, <1>2, <1>4, <1>5, <1>6
  <1>9. visit'.at = "recording" => Behind(i)'
    BY <1>1, <1>2
  <1> QED
    BY <1>1, <1>2, <1>7, <1>8, <1>9 DEF Timely

LEMMA EndTimely ==
  ASSUME OfficialBase, RequestFails \/ Store, NEW i \in 1 .. Len(posted), Timely(i), i \notin collected'
  PROVE  Timely(i)'
  <1>1. /\ visit.at # "none" /\ visit'.run = visit.run /\ visit'.at = "recording"
        /\ UNCHANGED <<kind, posted>>
        /\ \/ troubles' = troubles + 1
           \/ visit.at = "inserting" /\ collected' = collected \cup visit.rows /\ UNCHANGED troubles
    BY RequestFailsBase, StoreBase
  <1>2. /\ visit'.run <= Latest(i)' /\ (Behind(i) => Behind(i)')
        /\ troubles' = troubles + 1 => Behind(i)'
    <2>1. UNCHANGED troubles \/ troubles' = troubles + 1
      BY <1>1
    <2> QED
      BY <1>1, <2>1, VisitTimely
  <1>3. Behind(i)'
    BY <1>1, <1>2 DEF Timely
  <1> QED
    BY <1>1, <1>2, <1>3 DEF Timely

LEMMA LeaveTimely ==
  ASSUME OfficialBase, RecordVisit \/ CutOff, NEW i \in 1 .. Len(posted), Timely(i)
  PROVE  Timely(i)'
  <1>1. /\ visit.at # "none" /\ visit'.at = "none" /\ UNCHANGED <<kind, clock, posted, begun>>
        /\ \/ visit.at = "recording" /\ polledAt' = clock /\ UNCHANGED troubles
           \/ polledAt' = polledAt /\ troubles' = troubles + 1
    BY RecordVisitBase, CutOffBase
  <1>2. /\ clock \in Nat /\ visit.run \in Nat /\ visit.run % Interval = 0 /\ visit.run = begun
        /\ visit.run <= clock /\ clock <= visit.run + JobTime /\ polledAt \in Int
        /\ polledAt <= visit.run /\ visit.run <= Latest(i) /\ Latest(i) \in Nat
    BY <1>1, ReleaseTimes DEF OfficialBase, OfficialTyped, VisitFits, VisitRecord, Timely
  <1>3. /\ UNCHANGED troubles => Latest(i)' = Latest(i)
        /\ troubles' = troubles + 1 => Latest(i)' = Latest(i) + 2 * Interval
    BY <1>1, LatestMoves
  <1> DEFINE s == visit.run + Interval
             t == s + Interval
  <1>4. s \in Nat /\ t \in Nat /\ s % Interval = 0 /\ t % Interval = 0
    <2>1. s \in Nat /\ s % Interval = 0
      BY <1>2, NextSlot, OfficialConstants
    <2> HIDE DEF s
    <2>2. (s + Interval) % Interval = 0
      BY <2>1, NextSlot
    <2>3. s + Interval \in Nat
      BY <2>1, OfficialConstants
    <2> QED
      BY <2>1, <2>2, <2>3
  <1>5. CASE visit.at = "recording" /\ polledAt' = clock /\ UNCHANGED troubles
    <2>1. visit.run + 2 * Interval <= Latest(i)
      BY <1>5 DEF Timely, Behind
    <2>2. t >= clock' /\ t # begun' /\ t >= polledAt' + DueAfter /\ t <= Latest(i)'
      BY <1>1, <1>2, <1>3, <1>5, <2>1, OfficialConstants
    <2> HIDE DEF s, t
    <2> QED
      BY <1>1, <1>4, <2>2 DEF Timely, SlotBy
  <1>6. CASE polledAt' = polledAt /\ troubles' = troubles + 1
    <2>2. s >= clock' /\ s # begun' /\ s >= polledAt' + DueAfter /\ s <= Latest(i)'
      BY <1>1, <1>2, <1>3, <1>6, OfficialConstants
    <2> HIDE DEF s, t
    <2> QED
      BY <1>1, <1>4, <2>2 DEF Timely, SlotBy
  <1> QED
    BY <1>1, <1>5, <1>6

LEMMA TimelyStep ==
  ASSUME NightIsLong, OfficialBase, OfficialBase', PagesAddUp', TimelyInv, [OfficialNext]_officialVars
  PROVE  TimelyInv'
  <1> SUFFICES ASSUME NEW i \in 1 .. Len(posted'), i \notin collected', OpensAt(i)' <= clock', Owed(i)'
               PROVE  Timely(i)'
    BY DEF TimelyInv
  <1>1. OpensAt(i)' >= clock' => Timely(i)'
    BY FreshNext
  <1>2. clock \in Nat /\ clock' \in Nat /\ OpensAt(i)' \in Nat /\ posted'[i] <= OpensAt(i)'
    BY FreshNext DEF OfficialBase, OfficialTyped
  <1>3. ASSUME UNCHANGED posted, UNCHANGED kind, OpensAt(i) <= clock, collected \subseteq collected'
        PROVE  i \in 1 .. Len(posted) /\ Owed(i) /\ Timely(i) /\ OpensAt(i)' = OpensAt(i)
    <2>1. i \in 1 .. Len(posted) /\ posted'[i] = posted[i] /\ i \notin collected
      BY <1>3
    <2>2. Owed(i)' = Owed(i) /\ OpensAt(i)' = OpensAt(i)
      BY <1>3, <2>1, LatestMoves
    <2> QED
      BY <1>3, <2>1, <2>2 DEF TimelyInv
  <1>4. CASE Publication
    <2>1. /\ UNCHANGED <<kind, clock, collected, visit, troubles, polledAt, begun>>
          /\ Len(posted') = Len(posted) + 1 /\ posted'[Len(posted) + 1] = clock /\ Len(posted) \in Nat
          /\ \A k \in 1 .. Len(posted) : posted'[k] = posted[k]
      BY <1>4, PublicationBase DEF Publication, OfficialBase, OfficialTyped
    <2>2. CASE i = Len(posted) + 1
      BY <1>1, <1>2, <2>1, <2>2
    <2>3. CASE i # Len(posted) + 1
      <3>1. i \in 1 .. Len(posted)
        BY <2>1, <2>3
      <3>2. OpensAt(i)' = OpensAt(i) /\ Owed(i)' = Owed(i) /\ Latest(i)' = Latest(i)
        BY <2>1, <3>1, LatestMoves
      <3>3. Timely(i)
        BY <2>1, <3>1, <3>2 DEF TimelyInv
      <3> QED
        BY <2>1, <3>2, <3>3 DEF Timely, WillSee, Behind, SlotBy
    <2> QED
      BY <2>2, <2>3
  <1>5. CASE Minute
    <2>1. clock' = clock + 1 /\ UNCHANGED <<posted, kind, collected>>
      BY <1>5 DEF Minute
    <2>2. CASE OpensAt(i) <= clock
      BY <1>3, <1>5, <2>1, <2>2, MinuteTimely
    <2>3. CASE ~(OpensAt(i) <= clock)
      <3>1. i \in 1 .. Len(posted) /\ posted'[i] = posted[i]
        BY <2>1
      <3>2. OpensAt(i)' = OpensAt(i)
        BY <2>1, <3>1, LatestMoves
      <3> QED
        BY <1>1, <1>2, <2>1, <2>3, <3>2
    <2> QED
      BY <2>2, <2>3
  <1>6. ASSUME UNCHANGED <<posted, kind, clock>>, collected \subseteq collected'
        PROVE  i \in 1 .. Len(posted) /\ Owed(i) /\ Timely(i) /\ OpensAt(i) <= clock
    <2>1. i \in 1 .. Len(posted) /\ posted'[i] = posted[i]
      BY <1>6
    <2>2. OpensAt(i)' = OpensAt(i)
      BY <1>6, <2>1, LatestMoves
    <2> QED
      BY <1>3, <1>6, <2>2
  <1>7. CASE Schedule
    BY <1>6, <1>7, ScheduleTimely DEF Schedule
  <1>8. CASE BeginVisit
    BY <1>6, <1>8, BeginVisitTimely DEF BeginVisit
  <1>9. CASE ReadDay
    BY <1>6, <1>9, ReadDayTimely DEF ReadDay
  <1>10. CASE ReadYesterday
    BY <1>6, <1>10, ReadYesterdayTimely DEF ReadYesterday
  <1>11. CASE ReadPage
    BY <1>6, <1>11, ReadPageTimely DEF ReadPage
  <1>12. CASE RequestFails \/ Store
    <2>1. UNCHANGED <<posted, kind, clock>> /\ collected \subseteq collected'
      BY <1>12, RequestFailsBase, StoreBase
    <2> QED
      BY <1>6, <1>12, <2>1, EndTimely
  <1>13. CASE RecordVisit \/ CutOff
    <2>1. UNCHANGED <<posted, kind, clock, collected>>
      BY <1>13, RecordVisitBase, CutOffBase
    <2> QED
      BY <1>6, <1>13, <2>1, LeaveTimely
  <1>14. CASE UNCHANGED officialVars
    <2>1. UNCHANGED <<posted, kind, clock, collected, polledAt, begun, visit, troubles>>
      BY <1>14 DEF officialVars
    <2>2. i \in 1 .. Len(posted) /\ Timely(i) /\ Latest(i)' = Latest(i) /\ OpensAt(i)' = OpensAt(i)
      BY <1>6, <2>1, LatestMoves
    <2> QED
      BY <2>1, <2>2 DEF Timely, WillSee, Behind, SlotBy
  <1> QED
    BY <1>4, <1>5, <1>7, <1>8, <1>9, <1>10, <1>11, <1>12, <1>13, <1>14 DEF OfficialNext

\* pipeline/official.py:16: when its listing is gone every release of the Bureau has a row, and
\* so has what any source had listed for longer than a few failed polls may take.
THEOREM NothingIsMissed ==
  ASSUME PagesSuffice, NightIsLong
  PROVE  OfficialSpec => []NothingMissed
  <1>1. OfficialInit => TimelyInv
    BY DEF OfficialInit, TimelyInv
  <1>2. OfficialBase /\ OfficialBase' /\ PagesInv' /\ TimelyInv /\ [OfficialNext]_officialVars => TimelyInv'
    BY TimelyStep DEF PagesInv
  <1>3. OfficialBase /\ TimelyInv => NothingMissed
    <2> SUFFICES ASSUME OfficialBase, TimelyInv, NEW i \in Release, clock >= GoneAt(i),
                        Owed(i), i \notin collected
                 PROVE  FALSE
      BY DEF NothingMissed, Owed
    <2>1. i \in 1 .. Len(posted) /\ clock \in Nat
      BY DEF Release, OfficialBase, OfficialTyped
    <2>2. OpensAt(i) <= clock
      <3>1. OpensAt(i) \in Nat /\ Latest(i) \in Nat /\ OpensAt(i) + 2 * Interval <= Latest(i)
        BY <2>1, ReleaseTimes
      <3>2. OpensAt(i) < GoneAt(i)
        BY <2>1, <3>1, InTime, OfficialConstants
      <3>3. GoneAt(i) \in Nat
        BY <2>1, GoneIsNat
      <3> QED
        BY <2>1, <3>1, <3>2, <3>3
    <2>3. Timely(i)
      BY <2>1, <2>2 DEF TimelyInv
    <2>4. Latest(i) \in Nat
      BY <2>1, ReleaseTimes
    <2>5. clock <= Latest(i) + JobTime
      <3>1. CASE visit.at = "none"
        BY <2>1, <2>3, <2>4, <3>1, OfficialConstants DEF Timely, SlotBy
      <3>2. CASE visit.at # "none"
        <4>1. clock <= visit.run + JobTime /\ visit.run \in Nat /\ visit.run <= Latest(i)
          BY <2>3, <3>2 DEF OfficialBase, OfficialTyped, VisitFits, VisitRecord, Timely
        <4> QED
          BY <2>1, <2>4, <4>1, OfficialConstants
      <3> QED
        BY <3>1, <3>2
    <2>6. clock < GoneAt(i)
      BY <2>1, <2>5, InTime
    <2>7. GoneAt(i) \in Nat
      BY <2>1, GoneIsNat
    <2> QED
      BY <2>1, <2>6, <2>7
  <1>4. OfficialSpec => []TimelyInv
    BY <1>1, <1>2, PagesStay, PTL DEF OfficialSpec
  <1> QED
    BY <1>3, <1>4, PagesStay, PTL

-----------------------------------------------------------------------------
(* FeedCatalogue: files *)

LEMMA RowsOfBoth ==
  ASSUME NEW s \in Seq(FileRow), NEW t \in Seq(FileRow)
  PROVE  s \o t \in Seq(FileRow) /\ RowsOf(s \o t) = RowsOf(s) \cup RowsOf(t)
  <1>1. /\ s \o t \in Seq(FileRow) /\ Len(s \o t) = Len(s) + Len(t)
        /\ Len(s) \in Nat /\ Len(t) \in Nat
        /\ \A i \in 1 .. Len(s) : (s \o t)[i] = s[i]
        /\ \A i \in 1 .. Len(t) : (s \o t)[Len(s) + i] = t[i]
    OBVIOUS
  <1>2. DOMAIN s = 1 .. Len(s) /\ DOMAIN t = 1 .. Len(t) /\ DOMAIN (s \o t) = 1 .. (Len(s) + Len(t))
    BY <1>1
  <1>3. ASSUME NEW i \in 1 .. (Len(s) + Len(t)) PROVE (s \o t)[i] \in RowsOf(s) \cup RowsOf(t)
    <2>1. CASE i <= Len(s)
      BY <1>1, <1>2, <2>1 DEF RowsOf
    <2>2. CASE ~(i <= Len(s))
      <3>1. i - Len(s) \in 1 .. Len(t) /\ i = Len(s) + (i - Len(s))
        BY <1>1, <2>2
      <3>2. (s \o t)[i] = t[i - Len(s)]
        BY <1>1, <3>1
      <3> QED
        BY <1>2, <3>1, <3>2 DEF RowsOf
    <2> QED
      BY <2>1, <2>2
  <1>4. ASSUME NEW i \in 1 .. Len(s) PROVE s[i] \in RowsOf(s \o t)
    <2>1. i \in 1 .. (Len(s) + Len(t))
      BY <1>1
    <2> QED
      BY <1>1, <1>2, <2>1 DEF RowsOf
  <1>5. ASSUME NEW i \in 1 .. Len(t) PROVE t[i] \in RowsOf(s \o t)
    <2>1. Len(s) + i \in 1 .. (Len(s) + Len(t))
      BY <1>1
    <2> QED
      BY <1>1, <1>2, <2>1 DEF RowsOf
  <1> QED
    BY <1>1, <1>2, <1>3, <1>4, <1>5 DEF RowsOf

\* The rows before row i, row i, and those after it.
LEMMA RewrittenRows ==
  ASSUME table \in Seq(FileRow), NEW i \in DOMAIN table
  PROVE  Rewritten(i) \in Seq(FileRow) /\ RowsOf(Rewritten(i)) = RowsOf(table)
         /\ Len(Rewritten(i)) = Len(table)
  <1> DEFINE n == Len(table)
             before == SubSeq(table, 1, i - 1)
             after  == SubSeq(table, i + 1, n)
             moved  == <<table[i]>>
  <1>1. n \in Nat /\ i \in 1 .. n /\ DOMAIN table = 1 .. n /\ \A k \in 1 .. n : table[k] \in FileRow
    OBVIOUS
  <1>2. /\ before \in Seq(FileRow) /\ Len(before) = i - 1
        /\ \A k \in 1 .. (i - 1) : before[k] = table[k]
    BY <1>1
  <1>3. /\ after \in Seq(FileRow) /\ Len(after) = n - i
        /\ \A k \in 1 .. (n - i) : after[k] = table[i + k]
    <2>1. i + 1 \in Int /\ n \in Int /\ \A k \in (i + 1) .. n : table[k] \in FileRow
      BY <1>1
    <2> HIDE DEF n
    <2>2. /\ after \in Seq(FileRow) /\ Len(after) = (IF i + 1 <= n THEN n - (i + 1) + 1 ELSE 0)
          /\ \A k \in 1 .. (n - (i + 1) + 1) : after[k] = table[(i + 1) + k - 1]
      BY <2>1, SubSeqProperties
    <2>3. n - (i + 1) + 1 = n - i /\ (i + 1 <= n \/ n - i = 0)
      BY <1>1
    <2>4. \A k \in 1 .. (n - i) : (i + 1) + k - 1 = i + k
      BY <1>1
    <2>5. Len(after) = n - i
      BY <2>2, <2>3
    <2>6. \A k \in 1 .. (n - i) : after[k] = table[(i + 1) + k - 1]
      BY <2>2, <2>3
    <2> QED
      BY <2>2, <2>4, <2>5, <2>6
  <1>4. moved \in Seq(FileRow) /\ Len(moved) = 1 /\ moved[1] = table[i]
    BY <1>1
  <1> HIDE DEF n, before, after, moved
  <1>5. RowsOf(before) = {table[k] : k \in 1 .. (i - 1)}
    <2>1. DOMAIN before = 1 .. (i - 1)
      BY <1>2
    <2> QED
      BY <1>2, <2>1 DEF RowsOf
  <1>6. RowsOf(after) = {table[k] : k \in (i + 1) .. n}
    <2>1. DOMAIN after = 1 .. (n - i)
      BY <1>3
    <2>2. RowsOf(after) = {table[i + k] : k \in 1 .. (n - i)}
      BY <1>3, <2>1 DEF RowsOf
    <2>3. \A k \in (i + 1) .. n : k - i \in 1 .. (n - i) /\ i + (k - i) = k
      BY <1>1
    <2>4. \A k \in 1 .. (n - i) : i + k \in (i + 1) .. n
      BY <1>1
    <2> QED
      BY <2>2, <2>3, <2>4
  <1>7. RowsOf(moved) = {table[i]}
    <2>1. DOMAIN moved = {1}
      BY <1>4
    <2> QED
      BY <1>4, <2>1 DEF RowsOf
  <1>8. RowsOf(table) = {table[k] : k \in 1 .. (i - 1)} \cup {table[k] : k \in (i + 1) .. n} \cup {table[i]}
    <2>1. \A k \in 1 .. n : k \in 1 .. (i - 1) \/ k \in (i + 1) .. n \/ k = i
      BY <1>1
    <2>2. 1 .. (i - 1) \subseteq 1 .. n /\ (i + 1) .. n \subseteq 1 .. n
      BY <1>1
    <2> QED
      BY <1>1, <2>1, <2>2 DEF RowsOf
  <1>9. /\ before \o after \in Seq(FileRow)
        /\ RowsOf(before \o after) = RowsOf(before) \cup RowsOf(after)
    BY <1>2, <1>3, RowsOfBoth
  <1>10. Rewritten(i) = (before \o after) \o moved
    BY DEF Rewritten, before, after, moved, n
  <1>11. (before \o after) \o moved \in Seq(FileRow)
         /\ RowsOf((before \o after) \o moved) = RowsOf(before \o after) \cup RowsOf(moved)
    BY <1>4, <1>9, RowsOfBoth
  <1>12. Len((before \o after) \o moved) = n
    <2>1. Len(before \o after) = Len(before) + Len(after)
      BY <1>2, <1>3, ConcatProperties
    <2>2. Len((before \o after) \o moved) = Len(before \o after) + Len(moved)
      BY <1>4, <1>9, ConcatProperties
    <2> QED
      BY <1>1, <1>2, <1>3, <1>4, <2>1, <2>2
  <1> QED
    BY <1>5, <1>6, <1>7, <1>8, <1>9, <1>10, <1>11, <1>12 DEF n

\* Where a row stands first.
LEMMA PositionIs ==
  ASSUME NEW file \in Seq(FileRow), NEW r \in RowsOf(file)
  PROVE  Position(file, r) \in DOMAIN file /\ file[Position(file, r)] = r
         /\ Position(file, r) \in Nat
  <1> DEFINE At == {i \in DOMAIN file : file[i] = r}
  <1>1. At \in SUBSET Nat /\ At # {}
    BY DEF RowsOf
  <1>2. PICK i \in At : \A j \in At : i <= j
    BY <1>1, LeastNumber
  <1>3. \A j \in 1 .. (i - 1) : file[j] # r
    BY <1>1, <1>2
  <1>4. \E k \in DOMAIN file : file[k] = r /\ \A j \in 1 .. (k - 1) : file[j] # r
    BY <1>2, <1>3
  <1> QED
    BY <1>1, <1>4 DEF Position

\* Each feed_url is in the first layer.
LEMMA FirstOfFeed ==
  ASSUME NEW file \in Seq(FileRow), NEW r \in RowsOf(file)
  PROVE  \E same \in Firsts(file) : same.feed = r.feed
  <1> DEFINE At == {i \in DOMAIN file : file[i].feed = r.feed}
  <1>1. At \in SUBSET Nat /\ At # {}
    BY DEF RowsOf
  <1>2. PICK i \in At : \A j \in At : i <= j
    BY <1>1, LeastNumber
  <1>3. \A j \in 1 .. (i - 1) : file[j].feed # r.feed
    <2> SUFFICES ASSUME NEW j \in 1 .. (i - 1), file[j].feed = r.feed PROVE FALSE
      OBVIOUS
    <2>1. j \in DOMAIN file
      BY <1>1, <1>2
    <2> QED
      BY <1>1, <1>2, <2>1
  <1>4. file[i] \in Firsts(file)
    BY <1>2, <1>3 DEF Firsts, RowsOf
  <1> QED
    BY <1>2, <1>4

-----------------------------------------------------------------------------
(* FeedCatalogue: the best of its target *)

Rivals(file, f) ==
  {s \in Firsts(file) : Target(s) # NoUrl /\ TargetForm(s) = TargetForm(f)}

Beats(file, s, t) ==
  \/ t.quality < s.quality
  \/ t.quality = s.quality /\ Position(file, s) < Position(file, t)

LEMMA FiniteFile ==
  ASSUME NEW file \in Seq(FileRow)
  PROVE  IsFiniteSet(RowsOf(file))
  <1>1. IsFiniteSet(DOMAIN file)
    <2>1. DOMAIN file = 1 .. Len(file) /\ Len(file) \in Nat
      OBVIOUS
    <2> QED
      BY <2>1, FS_Interval
  <1>2. file \in Surjection(DOMAIN file, RowsOf(file))
    <2>1. file \in [DOMAIN file -> RowsOf(file)]
      BY DEF RowsOf
    <2> QED
      BY <2>1 DEF Surjection, RowsOf
  <1> QED
    BY <1>1, <1>2, FS_Surjection

LEMMA BestExists ==
  ASSUME NEW file \in Seq(FileRow), NEW f \in Firsts(file), Target(f) # NoUrl
  PROVE  \E w \in Winners(file) : w \in Rivals(file, f)
  <1> DEFINE S       == Rivals(file, f)
             Over(s) == {t \in S : Beats(file, t, s)}
             Sizes   == {Cardinality(Over(s)) : s \in S}
  <1>1. S \in SUBSET RowsOf(file) /\ f \in S
    BY DEF Rivals, Firsts
  <1>2. IsFiniteSet(S)
    BY <1>1, FiniteFile, FS_Subset
  <1>3. \A s \in S : /\ s.quality \in Nat /\ Position(file, s) \in Nat
                     /\ file[Position(file, s)] = s
    <2>1. \A s \in S : s \in FileRow
      BY <1>1 DEF RowsOf
    <2> QED
      BY <1>1, <2>1, PositionIs DEF FileRow
  <1> HIDE DEF S
  <1>4. \A s \in S : IsFiniteSet(Over(s)) /\ Cardinality(Over(s)) \in Nat
    BY <1>2, FS_Subset, FS_CardinalityType
  <1>5. Sizes \in SUBSET Nat /\ Sizes # {}
    BY <1>1, <1>4
  <1>6. PICK n \in Sizes : \A m \in Sizes : n <= m
    BY <1>5, LeastNumber
  <1>7. PICK w \in S : n = Cardinality(Over(w))
    BY <1>6
  <1>8. ASSUME NEW t \in S, Beats(file, t, w) PROVE FALSE
    <2>1. Over(t) \subseteq Over(w)
      BY <1>3, <1>8 DEF Beats
    <2>2. t \in Over(w) /\ t \notin Over(t)
      BY <1>3, <1>8 DEF Beats
    <2> HIDE DEF Over
    <2>3. Cardinality(Over(t)) < Cardinality(Over(w))
      BY <1>4, <2>1, <2>2, FS_Subset
    <2>4. n <= Cardinality(Over(t))
      BY <1>6
    <2> QED
      BY <1>4, <1>7, <2>3, <2>4
  <1>9. \A t \in S \ {w} : Beats(file, w, t)
    <2> SUFFICES ASSUME NEW t \in S, t # w PROVE Beats(file, w, t)
      OBVIOUS
    <2>1. Position(file, t) # Position(file, w)
      BY <1>3
    <2> QED
      BY <1>3, <1>8, <2>1 DEF Beats
  <1>10. w \in Winners(file)
    <2>1. \A t \in Firsts(file) \ {w} : Target(t) # NoUrl /\ TargetForm(t) = TargetForm(w) => t \in S
      BY DEF S, Rivals
    <2> QED
      BY <1>9, <2>1 DEF Winners, Beats, S, Rivals
  <1> QED
    BY <1>10 DEF S

\* Two winners have two targets.
LEMMA WinnersDiffer ==
  ASSUME NEW file \in Seq(FileRow), NEW w \in Winners(file), NEW v \in Winners(file), w # v
  PROVE  TargetForm(w) # TargetForm(v)
  <1> SUFFICES ASSUME TargetForm(w) = TargetForm(v) PROVE FALSE
    OBVIOUS
  <1>1. w \in Firsts(file) /\ v \in Firsts(file) /\ Target(w) # NoUrl /\ Target(v) # NoUrl
    BY DEF Winners
  <1>2. Beats(file, w, v) /\ Beats(file, v, w)
    BY <1>1 DEF Winners, Beats
  <1>3. w \in RowsOf(file) /\ v \in RowsOf(file)
    BY <1>1 DEF Firsts
  <1>4. w.quality \in Nat /\ v.quality \in Nat /\ Position(file, w) \in Nat /\ Position(file, v) \in Nat
    <2>1. w \in FileRow /\ v \in FileRow
      BY <1>3 DEF RowsOf
    <2>2. Position(file, w) \in Nat /\ Position(file, v) \in Nat
      BY <1>3, PositionIs
    <2> QED
      BY <2>1, <2>2 DEF FileRow
  <1> QED
    BY <1>2, <1>4 DEF Beats

\* The address a row is known by is one of its addresses.
LEMMA TargetIsForm ==
  ASSUME NEW r \in FileRow, Target(r) # NoUrl
  PROVE  TargetForm(r) \in FormsOf(r)
  BY DEF TargetForm, Target, FormsOf

-----------------------------------------------------------------------------
(* FeedCatalogue: the invariant *)

PushRecord ==
  [at : Running \cup {"out", "ended", "killed"}, file : Files \cup {<<>>}, offset : Nat,
   existing : SUBSET {NormOf[u] : u \in Url}, todo : SUBSET FileRow,
   failed : BOOLEAN, disturbed : BOOLEAN, pushes : Nat]

CatalogueTyped ==
  /\ table \in Seq(FileRow) /\ \A r \in RowsOf(table) : r.feed # NoUrl
  /\ push \in [Push -> PushRecord]

\* What a push has loaded is in the table; undisturbed it has all of what it read.
Loaded(p) ==
  push[p].at = "loading" =>
    /\ push[p].existing \subseteq FormsIn(table)
    /\ push[p].offset <= Len(table)
    /\ ~push[p].disturbed => \A k \in 1 .. push[p].offset : FormsOf(table[k]) \subseteq push[p].existing

\* A winner of the file is still to be inserted, or known in the table.
Served(p) ==
  /\ push[p].at \in {"inserting", "ended"} /\ ~push[p].failed =>
       \A w \in Winners(push[p].file) :
         w.feed = NoUrl \/ w \in push[p].todo \/ FormsOf(w) \cap FormsIn(table) # {}
  /\ push[p].at = "ended" => push[p].todo = {}
  /\ push[p].todo \subseteq Winners(push[p].file)

\* Undisturbed, it has no row left to insert whose target the table has.
Unrivalled(p) ==
  push[p].at = "inserting" /\ ~push[p].disturbed =>
    \A w \in push[p].todo : \A s \in RowsOf(table) : TargetForm(s) # TargetForm(w)

PushInv(p) == Loaded(p) /\ Served(p) /\ Unrivalled(p)

CatalogueInv == CatalogueTyped /\ \A p \in Push : PushInv(p)

LEMMA FileRows ==
  ASSUME CatalogueTyped, NEW p \in Push
  PROVE  /\ push[p] \in PushRecord /\ push[p].file \in Seq(FileRow)
         /\ \A r \in RowsOf(push[p].file) : r \in FileRow
         /\ Winners(push[p].file) \subseteq RowsOf(push[p].file)
  <1>1. push[p].file \in Files \cup {<<>>} /\ push[p] \in PushRecord
    BY DEF CatalogueTyped, PushRecord
  <1>2. push[p].file \in Seq(FileRow)
    <2>1. <<>> \in Seq(FileRow)
      OBVIOUS
    <2> QED
      BY <1>1, <2>1, FileAssumption
  <1> QED
    BY <1>1, <1>2 DEF RowsOf, Winners, Firsts

LEMMA MoreForms ==
  ASSUME RowsOf(table) \subseteq RowsOf(table)'
  PROVE  FormsIn(table) \subseteq FormsIn(table)'
  <1>1. FormsIn(table) \subseteq FormsIn(table')
    BY DEF FormsIn
  <1> QED
    BY <1>1

\* A push that does not move itself while rows come.
LEMMA WaitingPush ==
  ASSUME CatalogueTyped, NEW p \in Push, PushInv(p), NEW new, table' = new,
         RowsOf(table) \subseteq RowsOf(new), Len(table) <= Len(new), Len(new) \in Nat,
         push'[p] = push[p] \/ push'[p] = [push[p] EXCEPT !.disturbed = TRUE],
         ~push'[p].disturbed /\ push[p].at = "loading" => new = table,
         ~push'[p].disturbed /\ push[p].at = "inserting" => RowsOf(new) = RowsOf(table)
  PROVE  PushInv(p)'
  <1>1. push[p] \in PushRecord
    BY DEF CatalogueTyped
  <1>2. /\ push'[p].at = push[p].at /\ push'[p].file = push[p].file
        /\ push'[p].offset = push[p].offset /\ push'[p].existing = push[p].existing
        /\ push'[p].todo = push[p].todo /\ push'[p].failed = push[p].failed
        /\ ~push'[p].disturbed => ~push[p].disturbed
    BY <1>1 DEF PushRecord
  <1>3. FormsIn(table) \subseteq FormsIn(new)
    BY DEF FormsIn
  <1>4. push[p].offset \in Nat /\ Len(table) \in Nat
    BY <1>1 DEF PushRecord, CatalogueTyped
  <1>5. Loaded(p)'
    BY <1>2, <1>3, <1>4 DEF PushInv, Loaded
  <1>6. Served(p)'
    BY <1>2, <1>3 DEF PushInv, Served
  <1>7. Unrivalled(p)'
    <2> SUFFICES ASSUME push'[p].at = "inserting", ~push'[p].disturbed,
                        NEW w \in push'[p].todo, NEW s \in RowsOf(new)
                 PROVE  TargetForm(s) # TargetForm(w)
      BY DEF Unrivalled
    <2> QED
      BY <1>2 DEF PushInv, Unrivalled
  <1> QED
    BY <1>5, <1>6, <1>7 DEF PushInv

LEMMA SameTable ==
  ASSUME CatalogueTyped, UNCHANGED table, NEW p \in Push, PushInv(p), push'[p] = push[p]
  PROVE  PushInv(p)'
  <1>1. Len(table) \in Nat /\ Len(table) <= Len(table)
    BY DEF CatalogueTyped
  <1> QED
    BY <1>1, WaitingPush

LEMMA BeginPushInv ==
  ASSUME CatalogueInv, NEW p \in Push, BeginPush(p)
  PROVE  CatalogueInv'
  <1>1. CatalogueTyped /\ UNCHANGED table /\ \A q \in Push : PushInv(q)
    BY DEF CatalogueInv, BeginPush
  <1>2. PICK file \in Files :
          push' = [push EXCEPT ![p] = [Out EXCEPT !.at = "loading", !.file = file,
                                                  !.pushes = push[p].pushes + 1]]
    BY DEF BeginPush
  <1> DEFINE new == [Out EXCEPT !.at = "loading", !.file = file, !.pushes = push[p].pushes + 1]
  <1>3. /\ new \in PushRecord /\ new.at = "loading" /\ new.existing = {} /\ new.offset = 0
        /\ new.todo = {}
    <2>1. push[p].pushes + 1 \in Nat
      BY <1>1 DEF CatalogueTyped, PushRecord
    <2> QED
      BY <2>1 DEF Out, PushRecord, Running
  <1> HIDE DEF new
  <1>4. push' = [push EXCEPT ![p] = new]
    BY <1>2 DEF new
  <1>5. push' \in [Push -> PushRecord] /\ push'[p] = new /\ \A q \in Push : q # p => push'[q] = push[q]
    BY <1>1, <1>3, <1>4 DEF CatalogueTyped
  <1>6. Len(table) \in Nat
    BY <1>1 DEF CatalogueTyped
  <1>7. PushInv(p)'
    BY <1>1, <1>3, <1>5, <1>6 DEF PushInv, Loaded, Served, Unrivalled
  <1>8. \A q \in Push : q # p => PushInv(q)'
    BY <1>1, <1>5, SameTable
  <1> QED
    BY <1>1, <1>5, <1>7, <1>8 DEF CatalogueInv, CatalogueTyped

LEMMA KillPushInv ==
  ASSUME CatalogueInv, NEW p \in Push, KillPush(p)
  PROVE  CatalogueInv'
  <1>1. CatalogueTyped /\ UNCHANGED table /\ \A q \in Push : PushInv(q)
    BY DEF CatalogueInv, KillPush
  <1> DEFINE new == [Out EXCEPT !.at = "killed", !.pushes = push[p].pushes]
  <1>3. new \in PushRecord /\ new.at = "killed" /\ new.todo = {}
    <2>1. push[p].pushes \in Nat
      BY <1>1 DEF CatalogueTyped, PushRecord
    <2> QED
      BY <2>1 DEF Out, PushRecord, Running
  <1> HIDE DEF new
  <1>4. push' = [push EXCEPT ![p] = new]
    BY DEF new, KillPush
  <1>5. push' \in [Push -> PushRecord] /\ push'[p] = new /\ \A q \in Push : q # p => push'[q] = push[q]
    BY <1>1, <1>3, <1>4 DEF CatalogueTyped
  <1>7. PushInv(p)'
    BY <1>3, <1>5 DEF PushInv, Loaded, Served, Unrivalled
  <1>8. \A q \in Push : q # p => PushInv(q)'
    BY <1>1, <1>5, SameTable
  <1> QED
    BY <1>1, <1>5, <1>7, <1>8 DEF CatalogueInv, CatalogueTyped

\* Others write to the table.
LEMMA DisturbedPushes ==
  ASSUME CatalogueTyped, NEW stages, Disturb(Push, stages)
  PROVE  /\ push' \in [Push -> PushRecord]
         /\ \A q \in Push : push'[q] = push[q] \/ push'[q] = [push[q] EXCEPT !.disturbed = TRUE]
         /\ \A q \in Push : push[q].at \in stages => push'[q].disturbed
  <1>1. \A q \in Push : push[q] \in PushRecord
    BY DEF CatalogueTyped
  <1>2. \A q \in Push : push'[q] = IF push[q].at \in stages THEN [push[q] EXCEPT !.disturbed = TRUE]
                                                             ELSE push[q]
    BY DEF Disturb
  <1>3. \A q \in Push : [push[q] EXCEPT !.disturbed = TRUE] \in PushRecord
                        /\ [push[q] EXCEPT !.disturbed = TRUE].disturbed
    BY <1>1 DEF PushRecord
  <1> QED
    BY <1>1, <1>2, <1>3 DEF Disturb

LEMMA WritersInv ==
  ASSUME CatalogueInv, NEW stages, "loading" \in stages, Disturb(Push, stages),
         NEW new \in Seq(FileRow), table' = new, Len(table) <= Len(new),
         RowsOf(table) \subseteq RowsOf(new), \A r \in RowsOf(new) : r.feed # NoUrl,
         "inserting" \in stages \/ RowsOf(new) = RowsOf(table)
  PROVE  CatalogueInv'
  <1>1. CatalogueTyped /\ \A q \in Push : PushInv(q)
    BY DEF CatalogueInv
  <1>2. /\ push' \in [Push -> PushRecord]
        /\ \A q \in Push : push'[q] = push[q] \/ push'[q] = [push[q] EXCEPT !.disturbed = TRUE]
        /\ \A q \in Push : push[q].at \in stages => push'[q].disturbed
    BY <1>1, DisturbedPushes
  <1>3. Len(new) \in Nat
    OBVIOUS
  <1>4. \A q \in Push : PushInv(q)'
    BY <1>1, <1>2, <1>3, WaitingPush
  <1> QED
    BY <1>2, <1>4 DEF CatalogueInv, CatalogueTyped

LEMMA RowMovesInv ==
  ASSUME CatalogueInv, NEW i \in DOMAIN table, RowMoves(i)
  PROVE  CatalogueInv'
  <1>1. table \in Seq(FileRow) /\ \A r \in RowsOf(table) : r.feed # NoUrl
    BY DEF CatalogueInv, CatalogueTyped
  <1>2. PICK new \in Seq(FileRow) : new = Rewritten(i) /\ RowsOf(new) = RowsOf(table) /\ Len(new) = Len(table)
    BY <1>1, RewrittenRows
  <1>3. table' = new /\ Disturb(Push, {"loading"}) /\ Len(table) <= Len(new)
    BY <1>1, <1>2 DEF RowMoves
  <1> QED
    BY <1>1, <1>2, <1>3, WritersInv

LEMMA RegisterRowInv ==
  ASSUME CatalogueInv, NEW u \in Url, RegisterRow(u)
  PROVE  CatalogueInv'
  <1>1. table \in Seq(FileRow) /\ \A r \in RowsOf(table) : r.feed # NoUrl
    BY DEF CatalogueInv, CatalogueTyped
  <1>2. Disturb(Push, Running) /\ "loading" \in Running /\ "inserting" \in Running
    BY DEF RegisterRow, Running
  <1>3. CASE \E i \in DOMAIN table : table' = Rewritten(i)
    <2>1. PICK i \in DOMAIN table : table' = Rewritten(i)
      BY <1>3
    <2>2. PICK new \in Seq(FileRow) : new = Rewritten(i) /\ RowsOf(new) = RowsOf(table) /\ Len(new) = Len(table)
      BY <1>1, RewrittenRows
    <2>3. table' = new /\ Len(table) <= Len(new)
      BY <1>1, <2>1, <2>2
    <2> QED
      BY <1>1, <1>2, <2>2, <2>3, WritersInv
  <1>4. CASE table' = Append(table, [feed |-> u, final |-> NoUrl, quality |-> 0])
    <2> DEFINE r == [feed |-> u, final |-> NoUrl, quality |-> 0]
    <2>1. r \in FileRow /\ r.feed # NoUrl
      BY UrlAssumption DEF FileRow
    <2> HIDE DEF r
    <2>2. PICK one \in Seq(FileRow) : one = <<r>> /\ Len(one) = 1 /\ RowsOf(one) = {r}
      <3>1. <<r>> \in Seq(FileRow) /\ Len(<<r>>) = 1 /\ RowsOf(<<r>>) = {r}
        BY <2>1 DEF RowsOf
      <3> QED
        BY <3>1
    <2>3. PICK new \in Seq(FileRow) : new = table \o one /\ RowsOf(new) = RowsOf(table) \cup {r}
      <3>1. table \o one \in Seq(FileRow) /\ RowsOf(table \o one) = RowsOf(table) \cup RowsOf(one)
        BY <1>1, RowsOfBoth
      <3> QED
        BY <2>2, <3>1
    <2>4. table' = new
      <3>1. Append(table, r) = table \o <<r>>
        BY <1>1, <2>1, AppendIsConcat
      <3> QED
        BY <1>4, <2>2, <2>3, <3>1 DEF r
    <2>5. Len(table) <= Len(new)
      BY <1>1, <2>2, <2>3, ConcatProperties
    <2> QED
      BY <1>1, <1>2, <2>1, <2>3, <2>4, <2>5, WritersInv
  <1> QED
    BY <1>3, <1>4 DEF RegisterRow

\* The winners of a file once a page is known.
LEMMA LoadPageInv ==
  ASSUME CatalogueInv, NEW p \in Push, LoadPage(p)
  PROVE  CatalogueInv'
  <1> DEFINE o     == push[p].offset
             rest  == Len(table) - o
             size  == IF rest < PageRows THEN rest ELSE PageRows
             page  == SubSeq(table, o + 1, o + size)
             known == push[p].existing \cup FormsIn(page)
             new   == NewRows(push[p].file, known)
             more  == [push[p] EXCEPT !.existing = known, !.offset = o + PageRows]
             done  == [push[p] EXCEPT !.existing = {}, !.offset = 0, !.todo = new,
                                      !.at = IF new = {} THEN "ended" ELSE "inserting"]
             next  == IF Len(page) = PageRows THEN more ELSE done
  <1>1. CatalogueTyped /\ UNCHANGED table /\ push[p].at = "loading" /\ \A q \in Push : PushInv(q)
    BY DEF CatalogueInv, LoadPage
  <1>2. push[p] \in PushRecord /\ o \in Nat /\ o <= Len(table) /\ rest \in Nat /\ Len(table) \in Nat
    BY <1>1 DEF CatalogueTyped, PushRecord, PushInv, Loaded
  <1>3. size \in Nat /\ o + size <= Len(table)
    BY <1>2, PageAssumption
  <1>4. Len(page) = size /\ DOMAIN page = 1 .. size /\ \A k \in 1 .. size : page[k] = table[o + k]
    <2>1. /\ page \in Seq(FileRow)
          /\ Len(page) = IF o + 1 <= o + size THEN (o + size) - (o + 1) + 1 ELSE 0
          /\ \A k \in 1 .. ((o + size) - (o + 1) + 1) : page[k] = table[(o + 1) + k - 1]
      <3>1. \A k \in (o + 1) .. (o + size) : table[k] \in FileRow
        <4>1. \A k \in 1 .. Len(table) : table[k] \in FileRow
          BY <1>1 DEF CatalogueTyped
        <4> QED
          BY <1>2, <1>3, <4>1
      <3>2. o + 1 \in Int /\ o + size \in Int
        BY <1>2, <1>3
      <3> HIDE DEF o, size
      <3> QED
        BY <3>1, <3>2, SubSeqProperties
    <2>2. (o + size) - (o + 1) + 1 = size /\ (o + 1 <= o + size \/ size = 0)
          /\ \A k \in 1 .. size : (o + 1) + k - 1 = o + k
      BY <1>2, <1>3
    <2> HIDE DEF page, o, size
    <2>3. Len(page) = size
      BY <2>1, <2>2
    <2>4. \A k \in 1 .. size : page[k] = table[o + k]
      <3>1. \A k \in 1 .. size : page[k] = table[(o + 1) + k - 1]
        BY <2>1, <2>2
      <3> QED
        BY <2>2, <3>1
    <2> QED
      BY <2>1, <2>3, <2>4
  <1>5. push' = [push EXCEPT ![p] = next]
    BY DEF LoadPage
  <1> HIDE DEF page
  <1>6. \A k \in 1 .. size : FormsOf(table[o + k]) \subseteq known
    BY <1>4 DEF FormsIn, RowsOf
  <1>7. known \subseteq FormsIn(table)
    <2>1. \A k \in 1 .. size : o + k \in DOMAIN table
      <3>1. DOMAIN table = 1 .. Len(table)
        BY <1>1 DEF CatalogueTyped
      <3> QED
        BY <1>2, <1>3, <3>1
    <2>2. RowsOf(page) \subseteq RowsOf(table)
      BY <1>4, <2>1 DEF RowsOf
    <2>3. FormsIn(page) \subseteq FormsIn(table)
      BY <2>2 DEF FormsIn
    <2> QED
      BY <1>1, <2>3 DEF PushInv, Loaded
  <1>8. known \in SUBSET {NormOf[u] : u \in Url}
    <2>1. \A r \in RowsOf(table) : FormsOf(r) \subseteq {NormOf[u] : u \in Url}
      <3>1. \A r \in RowsOf(table) : r \in FileRow
        BY <1>1 DEF CatalogueTyped, RowsOf
      <3>2. \A r \in FileRow : {r.feed, r.final} \ {NoUrl} \subseteq Url
        BY DEF FileRow
      <3> QED
        BY <3>1, <3>2 DEF FormsOf
    <2> QED
      BY <1>7, <2>1 DEF FormsIn
  <1>9. ~push[p].disturbed => \A k \in 1 .. (o + size) : FormsOf(table[k]) \subseteq known
    <2> SUFFICES ASSUME ~push[p].disturbed, NEW k \in 1 .. (o + size)
                 PROVE  FormsOf(table[k]) \subseteq known
      OBVIOUS
    <2>1. CASE k <= o
      <3>1. k \in 1 .. push[p].offset
        BY <1>2, <2>1
      <3>2. FormsOf(table[k]) \subseteq push[p].existing
        BY <1>1, <3>1 DEF PushInv, Loaded
      <3> QED
        BY <3>2
    <2>2. CASE ~(k <= o)
      <3>1. k - o \in 1 .. size /\ o + (k - o) = k
        BY <1>2, <1>3, <2>2
      <3> QED
        BY <1>6, <3>1
    <2> QED
      BY <2>1, <2>2
  <1>10. new \subseteq Winners(push[p].file) /\ new \subseteq FileRow
    BY <1>1, FileRows DEF NewRows
  <1> HIDE DEF known, new
  <1>11. more \in PushRecord /\ done \in PushRecord
    <2>1. o + PageRows \in Nat
      BY <1>2, PageAssumption
    <2> QED
      BY <1>2, <1>8, <1>10, <2>1 DEF PushRecord, Running
  <1>12. /\ more.at = "loading" /\ more.todo = push[p].todo /\ more.offset = o + PageRows
         /\ more.existing = known /\ more.disturbed = push[p].disturbed
         /\ more.file = push[p].file
    BY <1>1, <1>2 DEF PushRecord
  <1>13. /\ done.at = (IF new = {} THEN "ended" ELSE "inserting") /\ done.todo = new
         /\ done.file = push[p].file /\ done.disturbed = push[p].disturbed
    BY <1>2 DEF PushRecord
  <1> HIDE DEF more, done
  <1>14. push' \in [Push -> PushRecord] /\ push'[p] = next /\ \A q \in Push : q # p => push'[q] = push[q]
    BY <1>1, <1>5, <1>11 DEF CatalogueTyped
  <1>15. CASE Len(page) = PageRows
    <2>1. push'[p] = more /\ size = PageRows
      BY <1>4, <1>14, <1>15
    <2>2. PushInv(p)'
      <3>1. Loaded(p)'
        BY <1>1, <1>3, <1>7, <1>9, <1>12, <2>1 DEF Loaded
      <3>2. push[p].todo \subseteq Winners(push[p].file)
        BY <1>1 DEF PushInv, Served
      <3> QED
        BY <1>12, <2>1, <3>1, <3>2 DEF PushInv, Served, Unrivalled
    <2> QED
      BY <1>1, <1>14, <2>2, SameTable DEF CatalogueInv, CatalogueTyped
  <1>16. CASE Len(page) # PageRows
    <2>1. push'[p] = done /\ size = rest /\ o + size = Len(table)
      BY <1>2, <1>4, <1>14, <1>16
    <2>2. ASSUME ~push[p].disturbed, NEW w \in new, NEW s \in RowsOf(table)
          PROVE  TargetForm(s) # TargetForm(w)
      <3>1. w \in FileRow /\ Target(w) # NoUrl /\ FormsOf(w) \cap known = {}
        BY <1>10 DEF new, NewRows, Winners
      <3>2. TargetForm(w) \notin known
        BY <3>1, TargetIsForm
      <3>3. s \in FileRow /\ Target(s) # NoUrl
        BY <1>1 DEF CatalogueTyped, RowsOf, Target
      <3>4. TargetForm(s) \in FormsOf(s)
        BY <3>3, TargetIsForm
      <3>5. PICK k \in DOMAIN table : s = table[k]
        BY DEF RowsOf
      <3>6. k \in 1 .. (o + size)
        BY <1>1, <2>1 DEF CatalogueTyped
      <3>7. FormsOf(s) \subseteq known
        BY <1>9, <2>2, <3>5, <3>6
      <3> QED
        BY <3>2, <3>4, <3>7
    <2>3. \A w \in Winners(push[p].file) : w \in new \/ FormsOf(w) \cap FormsIn(table) # {}
      BY <1>7 DEF new, NewRows
    <2>4. PushInv(p)'
      <3>1. Loaded(p)'
        BY <1>13, <2>1 DEF Loaded
      <3>2. Served(p)'
        BY <1>1, <1>10, <1>13, <2>1, <2>3 DEF Served
      <3>3. Unrivalled(p)'
        BY <1>1, <1>13, <2>1, <2>2 DEF Unrivalled
      <3> QED
        BY <3>1, <3>2, <3>3 DEF PushInv
    <2> QED
      BY <1>1, <1>14, <2>4, SameTable DEF CatalogueInv, CatalogueTyped
  <1> QED
    BY <1>15, <1>16

LEMMA InsertBatchInv ==
  ASSUME CatalogueInv, NEW p \in Push, InsertBatch(p)
  PROVE  CatalogueInv'
  <1>1. CatalogueTyped /\ push[p].at = "inserting" /\ \A q \in Push : PushInv(q)
    BY DEF CatalogueInv, InsertBatch
  <1>2. push[p] \in PushRecord /\ push[p].todo \subseteq Winners(push[p].file)
        /\ push[p].todo \subseteq FileRow /\ table \in Seq(FileRow) /\ Len(table) \in Nat
    BY <1>1 DEF CatalogueTyped, PushRecord, PushInv, Served
  <1> DEFINE Added(batch) == {r \in batch : r.feed # NoUrl /\ ~InTable(r.feed)}
             Left(batch)  == push[p].todo \ batch
             After(batch, failed) ==
               [push[p] EXCEPT !.todo = Left(batch), !.failed = failed,
                               !.at = IF Left(batch) = {} THEN "ended" ELSE "inserting"]
             Ends(batch, failed) ==
               [push EXCEPT ![p].todo = Left(batch), ![p].failed = failed,
                            ![p].at = IF Left(batch) = {} THEN "ended" ELSE "inserting"]
             Adds(batch, failed) ==
               /\ \E s \in [1 .. Cardinality(Added(batch)) -> Added(batch)] :
                    RowsOf(s) = Added(batch) /\ table' = table \o s
               /\ push' = [q \in Push |->
                             IF q # p /\ Ends(batch, failed)[q].at \in Running /\ Added(batch) # {}
                             THEN [Ends(batch, failed)[q] EXCEPT !.disturbed = TRUE]
                             ELSE Ends(batch, failed)[q]]
  <1>3. PICK batch \in SUBSET push[p].todo :
          \/ Adds(batch, push[p].failed)
          \/ Adds(batch, Failed(p, batch))
          \/ push' = Ends(batch, Failed(p, batch)) /\ UNCHANGED table
    BY DEF InsertBatch
  <1> DEFINE added == Added(batch)
             left  == Left(batch)
             flag  == Failed(p, batch)
  <1>4. flag \in BOOLEAN /\ (flag \/ (added = {} /\ flag = push[p].failed))
    <2>1. push[p].failed \in BOOLEAN
      BY <1>2 DEF PushRecord
    <2>2. CASE \E r \in batch : r.feed # NoUrl
      <3>1. flag
        BY <2>2, Zenon DEF Failed
      <3> HIDE DEF flag
      <3>2. flag \in BOOLEAN
        BY <2>1, Zenon DEF Failed, flag
      <3> QED
        BY <3>1, <3>2, Zenon
    <2>3. CASE \A r \in batch : r.feed = NoUrl
      <3>1. flag = push[p].failed
        BY <2>1, <2>3, Zenon DEF Failed
      <3>2. added = {}
        BY <2>3
      <3> QED
        BY <2>1, <3>1, <3>2
    <2> QED
      BY <2>2, <2>3
  <1> HIDE DEF flag
  <1>5. ASSUME NEW failed \in BOOLEAN
        PROVE  /\ Ends(batch, failed) = [push EXCEPT ![p] = After(batch, failed)]
               /\ After(batch, failed) \in PushRecord
               /\ After(batch, failed).at = (IF left = {} THEN "ended" ELSE "inserting")
               /\ After(batch, failed).todo = left /\ After(batch, failed).failed = failed
               /\ After(batch, failed).file = push[p].file
               /\ After(batch, failed).disturbed = push[p].disturbed
    <2>1. left \in SUBSET FileRow
      BY <1>2
    <2>2. push \in [Push -> PushRecord]
      BY <1>1 DEF CatalogueTyped
    <2> HIDE DEF Left
    <2> QED
      BY <1>2, <2>1, <2>2 DEF PushRecord, Running
  <1>6. added \subseteq FileRow /\ IsFiniteSet(added) /\ Cardinality(added) \in Nat
    <2>1. IsFiniteSet(push[p].todo)
      <3>1. push[p].file \in Seq(FileRow) /\ push[p].todo \subseteq RowsOf(push[p].file)
        BY <1>1, <1>2, FileRows
      <3> QED
        BY <3>1, FiniteFile, FS_Subset
    <2>2. added \subseteq push[p].todo
      OBVIOUS
    <2> HIDE DEF added
    <2> QED
      BY <1>2, <2>1, <2>2, FS_Subset, FS_CardinalityType
  <1>7. \A r \in RowsOf(table) : r.feed # NoUrl
    BY <1>1 DEF CatalogueTyped
  <1>8. ASSUME NEW failed \in BOOLEAN, NEW new \in Seq(FileRow), table' = new,
               push'[p] = After(batch, failed), RowsOf(table) \subseteq RowsOf(new),
               RowsOf(new) \subseteq RowsOf(table) \cup added,
               failed \/ (added \subseteq RowsOf(new) /\ failed = push[p].failed)
        PROVE  PushInv(p)'
    <2>1. left \subseteq Winners(push[p].file)
      BY <1>2
    <2>2. ASSUME ~failed, NEW w \in Winners(push[p].file), w.feed # NoUrl, w \notin left
          PROVE  FormsOf(w) \cap FormsIn(new) # {}
      <3>1. CASE w \in push[p].todo
        <4>1. w \in batch
          BY <2>2, <3>1
        <4>2. w \in added \/ \E r \in RowsOf(table) : r.feed = w.feed
          BY <2>2, <4>1 DEF InTable
        <4>3. \E r \in RowsOf(new) : r.feed = w.feed
          BY <1>8, <2>2, <4>2
        <4>4. PICK r \in RowsOf(new) : r.feed = w.feed
          BY <4>3
        <4>5. NormOf[w.feed] \in FormsOf(w) /\ NormOf[w.feed] \in FormsOf(r)
          BY <2>2, <4>4 DEF FormsOf
        <4> QED
          BY <4>4, <4>5 DEF FormsIn
      <3>2. CASE w \notin push[p].todo
        <4>1. FormsOf(w) \cap FormsIn(table) # {}
          BY <1>1, <1>8, <2>2, <3>2 DEF PushInv, Served
        <4>2. FormsIn(table) \subseteq FormsIn(new)
          BY <1>8 DEF FormsIn
        <4> QED
          BY <4>1, <4>2
      <3> QED
        BY <3>1, <3>2
    <2>3. ASSUME ~push[p].disturbed, NEW w \in left, NEW s \in RowsOf(new)
          PROVE  TargetForm(s) # TargetForm(w)
      <3>1. CASE s \in RowsOf(table)
        BY <1>1, <2>3, <3>1 DEF PushInv, Unrivalled
      <3>2. CASE s \in added
        <4>1. s \in batch /\ s \in Winners(push[p].file) /\ w \notin batch /\ w \in Winners(push[p].file)
          BY <1>2, <2>1, <2>3, <3>2
        <4>2. push[p].file \in Seq(FileRow)
          BY <1>1, FileRows
        <4> QED
          BY <4>1, <4>2, WinnersDiffer
      <3> QED
        BY <1>8, <2>3, <3>1, <3>2
    <2> HIDE DEF left, Left, After
    <2>4. /\ push'[p].at = (IF left = {} THEN "ended" ELSE "inserting")
          /\ push'[p].todo = left /\ push'[p].failed = failed /\ push'[p].file = push[p].file
          /\ push'[p].disturbed = push[p].disturbed
      BY <1>5, <1>8
    <2>5. Loaded(p)'
      BY <2>4 DEF Loaded
    <2>6. Served(p)'
      BY <1>8, <2>1, <2>2, <2>4 DEF Served
    <2>7. Unrivalled(p)'
      BY <1>8, <2>3, <2>4 DEF Unrivalled
    <2> QED
      BY <2>5, <2>6, <2>7 DEF PushInv
  <1>9. ASSUME NEW failed \in BOOLEAN, Adds(batch, failed), failed \/ failed = push[p].failed
        PROVE  CatalogueInv'
    <2>1. PICK s \in [1 .. Cardinality(added) -> added] : RowsOf(s) = added /\ table' = table \o s
      BY <1>9
    <2>2. s \in Seq(FileRow) /\ Len(s) = Cardinality(added)
      <3> HIDE DEF added
      <3> QED
        BY <1>6
    <2>3. PICK new \in Seq(FileRow) : new = table \o s /\ RowsOf(new) = RowsOf(table) \cup added
      <3>1. table \o s \in Seq(FileRow) /\ RowsOf(table \o s) = RowsOf(table) \cup RowsOf(s)
        BY <1>2, <2>2, RowsOfBoth
      <3> QED
        BY <2>1, <3>1
    <2>4. table' = new /\ Len(table) <= Len(new) /\ Len(new) \in Nat
      BY <1>2, <2>1, <2>2, <2>3, ConcatProperties
    <2>5. added = {} => new = table
      <3> SUFFICES ASSUME added = {} PROVE new = table
        OBVIOUS
      <3>1. Len(s) = 0
        BY <2>2, FS_EmptySet
      <3>2. s = << >>
        BY <2>2, <3>1, EmptySeq
      <3> QED
        BY <1>2, <2>3, <3>2, ConcatEmptySeq
    <2> DEFINE ends == Ends(batch, failed)
    <2>6. /\ push \in [Push -> PushRecord] /\ ends = [push EXCEPT ![p] = After(batch, failed)]
          /\ After(batch, failed) \in PushRecord
      BY <1>1, <1>5 DEF CatalogueTyped
    <2>7. push' = [q \in Push |-> IF q # p /\ ends[q].at \in Running /\ added # {}
                                  THEN [ends[q] EXCEPT !.disturbed = TRUE] ELSE ends[q]]
      BY <1>9
    <2> HIDE DEF ends, Ends, After, Left, added
    <2>8. ends \in [Push -> PushRecord] /\ ends[p] = After(batch, failed)
          /\ \A q \in Push : q # p => ends[q] = push[q]
      BY <2>6
    <2>9. /\ push'[p] = After(batch, failed)
          /\ \A q \in Push : q # p =>
               \/ push'[q] = push[q] /\ (push[q].at \in Running => added = {})
               \/ push'[q] = [push[q] EXCEPT !.disturbed = TRUE]
      BY <2>7, <2>8
    <2>10. push' \in [Push -> PushRecord]
      <3>1. \A r \in PushRecord : [r EXCEPT !.disturbed = TRUE] \in PushRecord
        BY DEF PushRecord
      <3> QED
        BY <2>7, <2>8, <3>1
    <2>11. PushInv(p)'
      BY <1>8, <1>9, <2>3, <2>4, <2>9
    <2>12. ASSUME NEW q \in Push, q # p PROVE PushInv(q)'
      <3>1. push'[q] = push[q] \/ push'[q] = [push[q] EXCEPT !.disturbed = TRUE]
        BY <2>9, <2>12
      <3>2. ~push'[q].disturbed /\ push[q].at \in Running => added = {}
        <4>1. [push[q] EXCEPT !.disturbed = TRUE].disturbed
          BY <2>6, <2>12 DEF PushRecord
        <4> QED
          BY <2>9, <2>12, <4>1
      <3>3. ~push'[q].disturbed /\ push[q].at \in Running => new = table /\ RowsOf(new) = RowsOf(table)
        BY <2>5, <3>2
      <3>4. "loading" \in Running /\ "inserting" \in Running
        BY DEF Running
      <3>5. RowsOf(table) \subseteq RowsOf(new)
        BY <2>3
      <3> QED
        BY <1>1, <2>4, <2>12, <3>1, <3>3, <3>4, <3>5, WaitingPush
    <2>13. \A r \in RowsOf(new) : r.feed # NoUrl
      BY <1>7, <2>3 DEF added
    <2> QED
      BY <2>3, <2>4, <2>10, <2>11, <2>12, <2>13 DEF CatalogueInv, CatalogueTyped
  <1>10. CASE push' = Ends(batch, flag) /\ UNCHANGED table
    <2>1. /\ push \in [Push -> PushRecord] /\ Ends(batch, flag) = [push EXCEPT ![p] = After(batch, flag)]
          /\ After(batch, flag) \in PushRecord
      BY <1>1, <1>5, <1>4 DEF CatalogueTyped
    <2> HIDE DEF Ends, After, Left, Added
    <2>2. /\ push' \in [Push -> PushRecord] /\ push'[p] = After(batch, flag)
          /\ \A q \in Push : q # p => push'[q] = push[q]
      BY <1>10, <2>1
    <2>3. PushInv(p)'
      BY <1>2, <1>8, <1>10, <1>4, <2>2
    <2>4. \A q \in Push : q # p => PushInv(q)'
      BY <1>1, <1>10, <2>2, SameTable
    <2> QED
      BY <1>1, <1>10, <2>2, <2>3, <2>4 DEF CatalogueInv, CatalogueTyped
  <1>11. push[p].failed \in BOOLEAN
    BY <1>2 DEF PushRecord
  <1> QED
    BY <1>3, <1>9, <1>10, <1>11, <1>4 DEF flag

LEMMA CatalogueStays ==
  CatalogueSpec => []CatalogueInv
  <1>1. CatalogueInit => CatalogueInv
    <2> SUFFICES ASSUME CatalogueInit PROVE CatalogueInv
      OBVIOUS
    <2>1. Out \in PushRecord /\ Out.at = "out" /\ Out.todo = {}
      BY DEF Out, PushRecord, Running
    <2>2. CatalogueTyped
      BY <2>1, FileAssumption DEF CatalogueInit, CatalogueTyped, RowsOf
    <2>3. \A p \in Push : push[p] = Out
      BY DEF CatalogueInit
    <2> QED
      BY <2>1, <2>2, <2>3 DEF CatalogueInv, PushInv, Loaded, Served, Unrivalled
  <1>2. CatalogueInv /\ [CatalogueNext]_catalogueVars => CatalogueInv'
    <2> SUFFICES ASSUME CatalogueInv, [CatalogueNext]_catalogueVars PROVE CatalogueInv'
      OBVIOUS
    <2>1. CASE UNCHANGED catalogueVars
      BY <2>1 DEF catalogueVars, CatalogueInv, CatalogueTyped, PushInv, Loaded, Served, Unrivalled,
         FormsIn, RowsOf
    <2>2. ASSUME NEW p \in Push, BeginPush(p) \/ LoadPage(p) \/ InsertBatch(p) \/ KillPush(p)
          PROVE  CatalogueInv'
      BY <2>2, BeginPushInv, LoadPageInv, InsertBatchInv, KillPushInv
    <2>3. ASSUME NEW i \in DOMAIN table, RowMoves(i) PROVE CatalogueInv'
      BY <2>3, RowMovesInv
    <2>4. ASSUME NEW u \in Url, RegisterRow(u) PROVE CatalogueInv'
      BY <2>4, RegisterRowInv
    <2> QED
      BY <2>1, <2>2, <2>3, <2>4 DEF CatalogueNext
  <1> QED
    BY <1>1, <1>2, PTL DEF CatalogueSpec

\* push_feeds.py:491: a push that ended with status 0 has left every row of its file in
\* the table, as itself, or as one with the same feed_url or target.
THEOREM CleanPushes == CatalogueSpec => []CleanPushComplete
  <1>1. CatalogueInv => CleanPushComplete
    <2> SUFFICES ASSUME CatalogueInv, NEW p \in Push, push[p].at = "ended", ~push[p].failed,
                        NEW r \in RowsOf(push[p].file), r.feed # NoUrl
                 PROVE  \E same \in Firsts(push[p].file) :
                          /\ same.feed = r.feed
                          /\ \/ \E s \in Rivals(push[p].file, same) : s.feed = NoUrl
                             \/ \E s \in Rivals(push[p].file, same) :
                                  FormsOf(s) \cap FormsIn(table) # {}
      BY DEF CleanPushComplete, Rivals
    <2>1. push[p].file \in Seq(FileRow) /\ \A s \in RowsOf(push[p].file) : s \in FileRow
      BY FileRows DEF CatalogueInv
    <2>2. PICK same \in Firsts(push[p].file) : same.feed = r.feed
      BY <2>1, FirstOfFeed
    <2>3. Target(same) # NoUrl
      BY <2>2 DEF Target
    <2>4. PICK w \in Winners(push[p].file) : w \in Rivals(push[p].file, same)
      BY <2>1, <2>2, <2>3, BestExists
    <2>5. w.feed = NoUrl \/ FormsOf(w) \cap FormsIn(table) # {}
      BY <2>4 DEF CatalogueInv, PushInv, Served
    <2> QED
      BY <2>2, <2>4, <2>5
  <1> QED
    BY <1>1, CatalogueStays, PTL

\* push_feeds.py:9-25: a batch of a push during which nobody else wrote adds no row with
\* the target of another, of the table or of the batch itself.
THEOREM NoTwins == CatalogueSpec => NoTwinAdded
  <1> DEFINE Alone == \A p \in Push :
       push[p].at = "inserting" /\ push'[p].todo # push[p].todo /\ ~push[p].disturbed =>
         \A r \in RowsOf(table') \ RowsOf(table) : \A s \in RowsOf(table') \ {r} :
           TargetForm(s) # TargetForm(r)
  <1>1. CatalogueInv /\ [CatalogueNext]_catalogueVars => [Alone]_catalogueVars
    <2> SUFFICES ASSUME CatalogueInv, CatalogueNext, NEW p \in Push, push[p].at = "inserting",
                        push'[p].todo # push[p].todo, ~push[p].disturbed,
                        NEW r \in RowsOf(table') \ RowsOf(table), NEW s \in RowsOf(table') \ {r}
                 PROVE  TargetForm(s) # TargetForm(r)
      OBVIOUS
    <2>1. CatalogueTyped /\ PushInv(p) /\ push[p] \in PushRecord /\ push \in [Push -> PushRecord]
      BY DEF CatalogueInv, CatalogueTyped
    <2>2. ASSUME NEW stages, Disturb(Push, stages) PROVE push'[p].todo = push[p].todo
      <3>1. push'[p] = push[p] \/ push'[p] = [push[p] EXCEPT !.disturbed = TRUE]
        BY <2>1, <2>2, DisturbedPushes
      <3> QED
        BY <2>1, <3>1 DEF PushRecord
    <2>3. ~(\E i \in DOMAIN table : RowMoves(i)) /\ ~(\E u \in Url : RegisterRow(u))
      BY <2>2 DEF RowMoves, RegisterRow
    <2>4. PICK q \in Push : BeginPush(q) \/ LoadPage(q) \/ InsertBatch(q) \/ KillPush(q)
      BY <2>3 DEF CatalogueNext
    <2>5. InsertBatch(q)
      BY <2>4 DEF BeginPush, LoadPage, KillPush
    <2>6. q = p
      <3> SUFFICES ASSUME q # p PROVE FALSE
        OBVIOUS
      <3>1. push'[p] = push[p] \/ push'[p] = [push[p] EXCEPT !.disturbed = TRUE]
        BY <2>1, <2>5 DEF InsertBatch
      <3> QED
        BY <2>1, <3>1 DEF PushRecord
    <2>7. PICK added \in SUBSET push[p].todo :
            \E t \in [1 .. Cardinality(added) -> added] : RowsOf(t) = added /\ table' = table \o t
      <3>1. table' # table
        OBVIOUS
      <3> QED
        BY <2>5, <2>6, <3>1 DEF InsertBatch
    <2>8. r \in push[p].todo /\ (s \in RowsOf(table) \/ s \in push[p].todo)
      <3>1. PICK t \in [1 .. Cardinality(added) -> added] : RowsOf(t) = added /\ table' = table \o t
        BY <2>7
      <3>2. added \subseteq FileRow /\ IsFiniteSet(added)
        <4>1. IsFiniteSet(RowsOf(push[p].file)) /\ push[p].todo \subseteq RowsOf(push[p].file)
          BY <2>1, FileRows, FiniteFile DEF PushInv, Served
        <4> QED
          BY <2>1, <2>7, <4>1, FS_Subset DEF PushRecord
      <3>3. t \in Seq(FileRow)
        <4>1. Cardinality(added) \in Nat
          BY <3>2, FS_CardinalityType
        <4> QED
          BY <3>2, <4>1
      <3>4. RowsOf(table \o t) = RowsOf(table) \cup RowsOf(t)
        BY <2>1, <3>3, RowsOfBoth DEF CatalogueTyped
      <3> QED
        BY <2>7, <3>1, <3>4
    <2>9. CASE s \in RowsOf(table)
      BY <2>1, <2>8, <2>9 DEF PushInv, Unrivalled
    <2>10. CASE s \in push[p].todo
      <3>1. s \in Winners(push[p].file) /\ r \in Winners(push[p].file) /\ push[p].file \in Seq(FileRow)
        BY <2>1, <2>8, <2>10, FileRows DEF PushInv, Served
      <3> QED
        BY <3>1, WinnersDiffer
    <2> QED
      BY <2>8, <2>9, <2>10
  <1>2. CatalogueSpec => [][Alone]_catalogueVars
    BY <1>1, CatalogueStays, PTL DEF CatalogueSpec
  <1> QED
    BY <1>2 DEF NoTwinAdded
=============================================================================
