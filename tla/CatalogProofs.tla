------------------------------ MODULE CatalogProofs ------------------------------
(***************************************************************************)
(* Theorems about Catalog, for any catalogue, any harvests and any number  *)
(* of overlapping runs and crashes.                                        *)
(***************************************************************************)
EXTENDS Catalog, WellFoundedInduction, TLAPS

Counts == {0} \cup {Cardinality(L) : L \in SUBSET (Parts \X Nat \X Nat)}

RunRecord ==
    [pc : {"scrape", "upsert", "failed", "sweep", "record", "count", "store", "done", "crashed"},
     weekly : BOOLEAN, srcs : Seq(Sources), i : Nat, asOf : Nat, from : Nat, till : Nat,
     onEmpty : BOOLEAN, seen : SUBSET Parts, ok : SUBSET Sources, stored : BOOLEAN,
     count : Counts, alone : BOOLEAN]

Shape ==
    /\ runs \in Seq(RunRecord) /\ runs # <<>>
    /\ today \in Nat \ {0}
    /\ active \subseteq Parts
    /\ latest \in [Parts -> {0} \cup Started]
    /\ health \in [Sources -> [run : {0} \cup Started, ok : BOOLEAN]]
    /\ log \in SUBSET (Parts \X Nat \X Nat)
    /\ \A row \in log : row[2] \in 1 .. today /\ row[3] \in Started /\ runs[row[3]].stored

\* Where a run stands, and what it has by then.
PlaceInv ==
    \A r \in Started :
        /\ Live(r) => runs[r].i \in DOMAIN runs[r].srcs
        /\ runs[r].pc \in {"sweep", "record", "count", "store"} => runs[r].stored
        /\ runs[r].pc \in {"scrape", "upsert", "failed"} => ~runs[r].stored
        /\ runs[r].pc \in {"scrape", "upsert"} => runs[r].i = 1
        /\ Live(r) => /\ runs[r].ok \subseteq SrcSet(r)
                      /\ \A p \in runs[r].seen : SourceOf[p] \in SrcSet(r)

\* A pinned run stamps a date that the log has; only one that is weekly, or
\* found no prices, is not pinned.
StampInv ==
    \A r \in Started :
        /\ 0 < runs[r].from /\ runs[r].from <= runs[r].till /\ runs[r].till <= today
        /\ IF runs[r].asOf = NoDate THEN runs[r].weekly \/ runs[r].onEmpty
                                    ELSE runs[r].asOf \in Dates

\* What was seen and stored is a part of the catalogue, and so is what is listed.
KnownInv ==
    /\ \A p \in active : latest[p] # 0
    /\ \A r \in Started : runs[r].stored => \A p \in runs[r].seen : latest[p] # 0

\* How far run r has come with its sources: swept, recorded.
SweptTo(r, k) ==
    LET s == runs[r].srcs[k]
    IN s \in runs[r].ok /\ runs[r].seen \cap PartsOf(s) # {}
           => active \cap PartsOf(s) \subseteq runs[r].seen
RecordedTo(r, k) ==
    LET s == runs[r].srcs[k] IN health[s] = [run |-> r, ok |-> s \in runs[r].ok]

\* The last run, when nobody overlapped it, has done what the steps behind it do.
SoloInv ==
    LET r == Len(runs) IN runs[r].alone =>
        /\ \A q \in Started : q # r => ~Live(q)
        /\ runs[r].stored /\ runs[r].pc # "crashed" =>
              /\ runs[r].pc \in {"sweep", "record", "count", "store", "done"}
              /\ runs[r].ok \subseteq SrcSet(r)
              /\ \A p \in runs[r].seen : p \in active /\ latest[p] = r
              /\ \A k \in DOMAIN runs[r].srcs :
                    /\ (runs[r].pc = "sweep" => k < runs[r].i) => SweptTo(r, k)
                    /\ runs[r].pc # "sweep" /\ (runs[r].pc = "record" => k < runs[r].i)
                          => RecordedTo(r, k)
              /\ runs[r].pc = "store" => runs[r].count = Cardinality(log)
              /\ runs[r].pc = "done" => storedCount = Cardinality(log)

CatalogInv == Shape /\ PlaceInv /\ StampInv /\ KnownInv /\ NoStrayDate /\ SoloInv

-----------------------------------------------------------------------------

\* Changing one run of a sequence of runs leaves the others where they are.
LEMMA RunSet ==
    ASSUME NEW R \in Seq(RunRecord), NEW r \in DOMAIN R, NEW x \in RunRecord
    PROVE  LET Q == [R EXCEPT ![r] = x]
           IN /\ Q \in Seq(RunRecord) /\ Len(Q) = Len(R) /\ DOMAIN Q = DOMAIN R
              /\ Q[r] = x /\ \A q \in DOMAIN R : q # r => Q[q] = R[q]
OBVIOUS

\* All that a run keeps to itself when another one is started.
Same(x, y) ==
    /\ x.pc = y.pc /\ x.weekly = y.weekly /\ x.srcs = y.srcs /\ x.i = y.i
    /\ x.asOf = y.asOf /\ x.from = y.from /\ x.till = y.till /\ x.onEmpty = y.onEmpty
    /\ x.seen = y.seen /\ x.ok = y.ok /\ x.stored = y.stored /\ x.count = y.count

\* Setting the history flag of a run record changes nothing else of it.
LEMMA AloneSet ==
    ASSUME NEW x \in RunRecord, NEW b \in BOOLEAN
    PROVE  LET y == [x EXCEPT !.alone = b] IN y \in RunRecord /\ Same(y, x) /\ y.alone = b
BY DEF RunRecord, Same

\* LatestDate is a date of the log, when there is one.
LEMMA LatestIsADate ==
    ASSUME NEW D, NEW n \in Nat, D \subseteq 1 .. n, D # {}
    PROVE  (CHOOSE d \in D : \A e \in D : e <= d) \in D
<1> DEFINE back == {n - d : d \in D}
<1>0. \A d \in D : d \in Nat /\ n - d \in Nat
  OBVIOUS
<1>1. back \subseteq Nat /\ back # {}
  BY <1>0
<1>2. PICK x \in back : \A y \in back : ~(<<y, x>> \in OpToRel(<, Nat))
  BY <1>1, WFMin, NatLessThanWellFounded
<1> HIDE DEF back
<1>6. x \in Nat /\ \A y \in back : y \in Nat
  BY <1>1, <1>2
<1>3. \A y \in back : x <= y
  <2> SUFFICES ASSUME NEW y \in back, y < x PROVE FALSE
    BY <1>6
  <2>1. <<y, x>> \in OpToRel(<, Nat)
    BY <1>1, <1>2 DEF OpToRel
  <2> QED
    BY <1>2, <2>1
<1>4. PICK d \in D : x = n - d
  BY <1>2 DEF back
<1>5. \A e \in D : n - d <= n - e
  BY <1>3, <1>4 DEF back
<1>7. \A e \in D : e <= d
  BY <1>5
<1> QED
  BY <1>4, <1>7

\* The date that is pinned, where there is one, is a date.
LEMMA PinnedDateInLog ==
    ASSUME Shape, LatestDate # NoDate
    PROVE  LatestDate \in Dates
<1>1. log # {}
  BY DEF LatestDate
<1>2. Dates \subseteq 1 .. today /\ Dates # {} /\ today \in Nat
  BY <1>1 DEF Shape, Dates
<1> QED
  BY <1>1, <1>2, LatestIsADate DEF LatestDate

-----------------------------------------------------------------------------

\* What the earlier runs left satisfies the invariant.
LEMMA CatalogInitInv == Init => CatalogInv
<1> SUFFICES ASSUME Init PROVE CatalogInv
  OBVIOUS
<1>1. PICK past \in Pasts :
        /\ active = past[2]
        /\ latest = [p \in Parts |-> IF p \in past[1] THEN 1 ELSE 0]
        /\ log = {<<p, 1, 1>> : p \in past[1]}
        /\ storedCount = Cardinality(past[1])
        /\ health = [s \in Sources |-> IF past[1] \cap PartsOf(s) = {} THEN NoRow
                                       ELSE [run |-> 1, ok |-> TRUE]]
        /\ today = 1 /\ runs = <<Earlier(past[1])>> /\ crashes = 0
  BY DEF Init
<1>2. past[2] \subseteq past[1] /\ past[1] \subseteq Parts
  BY CatalogAssumption
<1>3. Earlier(past[1]) \in RunRecord
  BY <1>2 DEF Earlier, RunRecord, Counts, NoDate
<1>4. /\ runs \in Seq(RunRecord) /\ runs # <<>> /\ Len(runs) = 1 /\ Started = {1}
      /\ runs[1] = Earlier(past[1])
  BY <1>1, <1>3 DEF Started
<1>5. \A row \in log : row \in Parts \X Nat \X Nat /\ row[2] = 1 /\ row[3] = 1
  BY <1>1, <1>2
<1>6. Shape
  BY <1>1, <1>2, <1>4, <1>5 DEF Shape, NoRow, Earlier
<1>7. PlaceInv /\ StampInv
  BY <1>1, <1>4 DEF PlaceInv, StampInv, Live, Earlier, NoDate
<1>8. KnownInv
  BY <1>1, <1>2, <1>4 DEF KnownInv, Earlier
<1>9. NoStrayDate
  BY <1>1, <1>4, <1>5 DEF NoStrayDate, Earlier
<1>10. SoloInv
  BY <1>1, <1>4 DEF SoloInv, Earlier
<1> QED
  BY <1>6, <1>7, <1>8, <1>9, <1>10 DEF CatalogInv

-----------------------------------------------------------------------------
(* The steps, one lemma each.                                              *)

\* A run starts and pins its trend date; whoever runs now is not alone.
LEMMA StartStep ==
    ASSUME CatalogInv, NEW weekly \in BOOLEAN, NEW srcs \in SourceSets, Start(weekly, srcs)
    PROVE  CatalogInv'
<1> DEFINE
      n   == Len(runs) + 1
      new == [pc |-> "scrape", weekly |-> weekly, srcs |-> srcs, i |-> 1,
              asOf |-> PinnedDate(weekly), from |-> today, till |-> today,
              onEmpty |-> (log = {}), seen |-> {}, ok |-> {}, stored |-> FALSE, count |-> 0,
              alone |-> \A r \in Started : ~Live(r)]
      old(q) == [runs[q] EXCEPT !.alone = @ /\ ~Live(q)]
<1>0. /\ Shape /\ PlaceInv /\ StampInv /\ KnownInv /\ NoStrayDate
      /\ runs \in Seq(RunRecord) /\ today \in Nat \ {0}
      /\ UNCHANGED <<active, latest, log, health, storedCount, today, crashes>>
  BY DEF CatalogInv, Shape, Start, db
<1>1. /\ PinnedDate(weekly) # NoDate => PinnedDate(weekly) \in Dates
      /\ PinnedDate(weekly) = NoDate => weekly \/ log = {}
  <2>1. LatestDate = NoDate => log = {}
    <3> SUFFICES ASSUME log # {} PROVE LatestDate # NoDate
      OBVIOUS
    <3>1. Dates \subseteq 1 .. today /\ Dates # {} /\ today \in Nat
      BY <1>0 DEF Shape, Dates
    <3>2. LatestDate \in Dates
      BY <3>1, LatestIsADate DEF LatestDate
    <3> QED
      BY <3>1, <3>2 DEF NoDate
  <2> QED
    BY <1>0, <2>1, PinnedDateInLog DEF PinnedDate
<1>2. PinnedDate(weekly) \in Nat
  BY <1>0, <1>1 DEF Dates, Shape, NoDate
<1>3. srcs \in Seq(Sources) /\ srcs # <<>>
  BY CatalogAssumption
<1>4. new.alone \in BOOLEAN /\ new.onEmpty \in BOOLEAN
  BY Zenon
<1>5. new \in RunRecord
  BY <1>0, <1>2, <1>3, <1>4 DEF RunRecord, Counts
<1>6. \A q \in Started : old(q) \in RunRecord /\ Same(old(q), runs[q])
  <2> SUFFICES ASSUME NEW q \in Started PROVE old(q) \in RunRecord /\ Same(old(q), runs[q])
    OBVIOUS
  <2>1. runs[q] \in RunRecord
    BY <1>0 DEF Started
  <2>2. (runs[q].alone /\ ~Live(q)) \in BOOLEAN
    BY Zenon
  <2>3. old(q) = [runs[q] EXCEPT !.alone = runs[q].alone /\ ~Live(q)]
    OBVIOUS
  <2> QED
    BY <2>1, <2>2, <2>3, AloneSet
<1>7. runs' = Append([q \in Started |-> old(q)], new)
  BY DEF Start
<1> HIDE DEF old
<1>8. [q \in Started |-> old(q)] \in Seq(RunRecord)
      /\ Len([q \in Started |-> old(q)]) = Len(runs)
  BY <1>0, <1>6 DEF Started
<1>9. /\ runs' \in Seq(RunRecord) /\ Len(runs') = n /\ n \in Nat /\ runs' # <<>>
      /\ Started' = Started \cup {n} /\ n \notin Started
      /\ runs'[n] = new
      /\ \A q \in Started : runs'[q] = old(q)
  <2> DEFINE s == [q \in Started |-> old(q)]
  <2>1. s \in Seq(RunRecord) /\ Len(s) = Len(runs) /\ \A q \in Started : s[q] = old(q)
    BY <1>8
  <2>2. runs' = Append(s, new) /\ new \in RunRecord
    BY <1>5, <1>7
  <2> HIDE DEF s, new
  <2>3. /\ runs' \in Seq(RunRecord) /\ Len(runs') = Len(s) + 1 /\ runs'[Len(s) + 1] = new
        /\ \A q \in 1 .. Len(s) : runs'[q] = s[q]
    BY <2>1, <2>2
  <2>4. Started = 1 .. Len(s) /\ Started' = 1 .. Len(s) + 1 /\ Len(s) \in Nat
    BY <1>0, <2>1, <2>3 DEF Started
  <2> QED
    BY <2>1, <2>3, <2>4 
<1>10. \A q \in Started : Same(runs'[q], runs[q])
  BY <1>6, <1>9
<1>11. Shape'
  BY <1>0, <1>9, <1>10 DEF Shape, Same
<1>12. \A q \in Started : (Live(q)' <=> Live(q)) /\ SrcSet(q)' = SrcSet(q)
  BY <1>10, <1>9 DEF Live, SrcSet, Same
<1>13. PlaceInv'
  <2>1. \A q \in Started :
        /\ Live(q)' => runs'[q].i \in DOMAIN runs'[q].srcs
        /\ runs'[q].pc \in {"sweep", "record", "count", "store"} => runs'[q].stored
        /\ runs'[q].pc \in {"scrape", "upsert", "failed"} => ~runs'[q].stored
        /\ runs'[q].pc \in {"scrape", "upsert"} => runs'[q].i = 1
        /\ Live(q)' => /\ runs'[q].ok \subseteq SrcSet(q)'
                       /\ \A p \in runs'[q].seen : SourceOf[p] \in SrcSet(q)'
    BY <1>0, <1>10, <1>12 DEF PlaceInv, Same
  <2>2. new.i \in DOMAIN new.srcs
    BY <1>3
  <2> QED
    BY <1>9, <2>1, <2>2 DEF PlaceInv
<1>14. StampInv'
  <2>1. Dates' = Dates
    BY <1>0 DEF Dates
  <2> DEFINE Good(x) == /\ 0 < x.from /\ x.from <= x.till /\ x.till <= today
                        /\ IF x.asOf = NoDate THEN x.weekly \/ x.onEmpty
                                              ELSE x.asOf \in Dates
  <2>2. \A q \in Started : Good(runs'[q])
    BY <1>0, <1>10 DEF StampInv, Same
  <2>3. Good(new)
    <3>1. new.asOf = PinnedDate(weekly) /\ new.from = today /\ new.till = today
      OBVIOUS
    <3>2. new.asOf = NoDate => new.weekly \/ new.onEmpty
      <4>1. new.weekly = weekly /\ new.onEmpty = (log = {})
        OBVIOUS
      <4> QED
        BY <1>1, <3>1, <4>1, Zenon
    <3> HIDE DEF new
    <3> QED
      BY <1>0, <1>1, <3>1, <3>2
  <2> QED
    BY <1>0, <1>9, <2>1, <2>2, <2>3 DEF StampInv
<1>15. KnownInv'
  BY <1>0, <1>9, <1>10 DEF KnownInv, Same
<1>16. NoStrayDate'
  BY <1>0, <1>9, <1>10 DEF NoStrayDate, Same
<1>17. SoloInv'
  BY <1>9, <1>12 DEF SoloInv
<1> QED
  BY <1>11, <1>13, <1>14, <1>15, <1>16, <1>17 DEF CatalogInv

\* A step of one run replaces that run's record.
LEMMA RunStep ==
    ASSUME Shape, NEW r \in Started, NEW x \in RunRecord, runs' = [runs EXCEPT ![r] = x]
    PROVE  /\ runs' \in Seq(RunRecord) /\ Len(runs') = Len(runs) /\ runs' # <<>>
           /\ Started' = Started /\ r \in Started' /\ Len(runs) \in Started
           /\ runs'[r] = x /\ \A q \in Started : q # r => runs'[q] = runs[q]
<1>1. runs \in Seq(RunRecord) /\ runs # <<>> /\ r \in DOMAIN runs
  BY DEF Shape, Started
<1>2. /\ runs' \in Seq(RunRecord) /\ Len(runs') = Len(runs) /\ DOMAIN runs' = DOMAIN runs
      /\ runs'[r] = x /\ \A q \in DOMAIN runs : q # r => runs'[q] = runs[q]
  BY <1>1, RunSet
<1>3. Len(runs) \in DOMAIN runs /\ Len(runs) # 0
  BY <1>1
<1> QED
  BY <1>1, <1>2, <1>3 DEF Started

\* While the last run is alone, no other run moves.
LEMMA OnlyTheLastMoves ==
    ASSUME SoloInv, NEW r \in Started, Live(r), runs[Len(runs)].alone
    PROVE  r = Len(runs)
BY DEF SoloInv

\* The harvest of a run is in.
LEMMA ScrapeStep ==
    ASSUME CatalogInv, NEW r \in Started, NEW h \in Harvests, Scrape(r, h)
    PROVE  CatalogInv'
<1> DEFINE got    == {p \in h[1] : SourceOf[p] \in SrcSet(r)}
           trusts == h[2] \cap SrcSet(r)
<1>1. PICK to \in {"upsert", "failed"} :
         runs' = [runs EXCEPT ![r].pc = to, ![r].seen = got, ![r].ok = trusts, ![r].till = today]
  BY DEF Scrape
<1> DEFINE x == [runs[r] EXCEPT !.pc = to, !.seen = got, !.ok = trusts, !.till = today]
<1>0. /\ Shape /\ PlaceInv /\ StampInv /\ KnownInv /\ NoStrayDate /\ SoloInv
      /\ runs[r] \in RunRecord /\ runs[r].pc = "scrape" /\ today \in Nat \ {0}
      /\ UNCHANGED <<active, latest, log, health, storedCount, today, crashes>>
  <2>1. Shape /\ PlaceInv /\ StampInv /\ KnownInv /\ NoStrayDate /\ SoloInv
    BY DEF CatalogInv
  <2>2. runs[r].pc = "scrape" /\ UNCHANGED <<db, today, crashes>>
    BY DEF Scrape
  <2> QED
    BY <2>1, <2>2 DEF Shape, Started, db
<1>2. got \subseteq Parts /\ trusts \subseteq Sources
  BY CatalogAssumption
<1>3. /\ x \in RunRecord
      /\ x.pc = to /\ x.seen = got /\ x.ok = trusts /\ x.till = today
      /\ x.srcs = runs[r].srcs /\ x.i = runs[r].i /\ x.asOf = runs[r].asOf
      /\ x.weekly = runs[r].weekly /\ x.onEmpty = runs[r].onEmpty /\ x.from = runs[r].from
      /\ x.stored = runs[r].stored /\ x.alone = runs[r].alone
  <2> HIDE DEF got, trusts
  <2> QED
    BY <1>0, <1>2 DEF RunRecord
<1>4. runs' = [runs EXCEPT ![r] = x]
  BY <1>1
<1> HIDE DEF x
<1>5. /\ runs' \in Seq(RunRecord) /\ Len(runs') = Len(runs) /\ runs' # <<>>
      /\ Started' = Started /\ Len(runs) \in Started
      /\ runs'[r] = x /\ \A q \in Started : q # r => runs'[q] = runs[q]
  BY <1>0, <1>3, <1>4, RunStep
<1>6. Live(r) /\ ~runs[r].stored
  BY <1>0 DEF Live, PlaceInv
<1>7. /\ \A q \in Started : SrcSet(q)' = SrcSet(q) /\ Live(q)' = Live(q)
      /\ Dates' = Dates
  BY <1>0, <1>3, <1>5, <1>6 DEF SrcSet, Live, Dates
<1>11. Shape'
  BY <1>0, <1>3, <1>5 DEF Shape
<1>12. PlaceInv'
  BY <1>0, <1>3, <1>5, <1>6, <1>7 DEF PlaceInv
<1>13. StampInv'
  <2>1. runs[r].from \in Nat /\ 0 < runs[r].from /\ runs[r].from <= runs[r].till
        /\ runs[r].till <= today /\ runs[r].till \in Nat
    BY <1>0 DEF StampInv, RunRecord
  <2>2. x.from <= x.till /\ x.till <= today
    BY <1>0, <1>3, <2>1
  <2> QED
    BY <1>0, <1>3, <1>5, <1>7, <2>1, <2>2 DEF StampInv
<1>14. KnownInv'
  BY <1>0, <1>3, <1>5, <1>6 DEF KnownInv
<1>15. NoStrayDate'
  BY <1>0, <1>5, <1>6 DEF NoStrayDate
<1>16. SoloInv'
  BY <1>0, <1>3, <1>5, <1>6, <1>7, OnlyTheLastMoves DEF SoloInv
<1> QED
  BY <1>11, <1>12, <1>13, <1>14, <1>15, <1>16 DEF CatalogInv

\* The upsert: every part seen is listed, priced and stamped by this run.
LEMMA UpsertStep ==
    ASSUME CatalogInv, NEW r \in Started, Upsert(r)
    PROVE  CatalogInv'
<1> DEFINE x    == [runs[r] EXCEPT !.pc = "sweep", !.stored = TRUE]
           seen == runs[r].seen
<1>0. /\ Shape /\ PlaceInv /\ StampInv /\ KnownInv /\ NoStrayDate /\ SoloInv
      /\ runs[r] \in RunRecord /\ runs[r].pc = "upsert" /\ today \in Nat \ {0}
      /\ active' = active \cup seen
      /\ latest' = [p \in Parts |-> IF p \in seen THEN r ELSE latest[p]]
      /\ UNCHANGED <<health, storedCount, today, crashes>>
  <2>1. Shape /\ PlaceInv /\ StampInv /\ KnownInv /\ NoStrayDate /\ SoloInv
    BY DEF CatalogInv
  <2>2. /\ runs[r].pc = "upsert"
        /\ active' = active \cup seen
        /\ latest' = [p \in Parts |-> IF p \in seen THEN r ELSE latest[p]]
        /\ UNCHANGED <<health, storedCount, today, crashes>>
    BY DEF Upsert, Relisted
  <2> QED
    BY <2>1, <2>2 DEF Shape, Started
<1>1. PICK stamp \in [SrcSet(r) -> Stamps(r)] :
         log' = log \cup {<<p, stamp[SourceOf[p]], r>> : p \in seen}
  BY DEF Upsert
<1>2. /\ x \in RunRecord
      /\ x.pc = "sweep" /\ x.stored = TRUE
      /\ x.srcs = runs[r].srcs /\ x.i = runs[r].i /\ x.asOf = runs[r].asOf
      /\ x.weekly = runs[r].weekly /\ x.onEmpty = runs[r].onEmpty /\ x.from = runs[r].from
      /\ x.till = runs[r].till /\ x.seen = seen /\ x.ok = runs[r].ok /\ x.alone = runs[r].alone
  BY <1>0 DEF RunRecord
<1>3. runs' = [runs EXCEPT ![r] = x]
  BY DEF Upsert
<1> HIDE DEF x
<1>4. /\ runs' \in Seq(RunRecord) /\ Len(runs') = Len(runs) /\ runs' # <<>>
      /\ Started' = Started /\ Len(runs) \in Started
      /\ runs'[r] = x /\ \A q \in Started : q # r => runs'[q] = runs[q]
  BY <1>0, <1>2, <1>3, RunStep
<1>5. Live(r) /\ ~runs[r].stored /\ runs[r].i = 1
  BY <1>0 DEF Live, PlaceInv
<1>6. \A q \in Started : SrcSet(q)' = SrcSet(q) /\ Live(q)' = Live(q)
  BY <1>0, <1>2, <1>4, <1>5 DEF SrcSet, Live
<1>7. /\ seen \subseteq Parts /\ r \in Nat \ {0}
      /\ \A p \in seen : SourceOf[p] \in SrcSet(r)
  BY <1>0, <1>5 DEF PlaceInv, RunRecord, Shape, Started
<1>8. Stamps(r) \subseteq 1 .. today
  <2>1. /\ runs[r].from \in Nat /\ runs[r].till \in Nat
        /\ 0 < runs[r].from /\ runs[r].till <= today
        /\ runs[r].asOf # NoDate => runs[r].asOf \in Dates
    BY <1>0 DEF StampInv, RunRecord
  <2>2. Dates \subseteq 1 .. today
    BY <1>0 DEF Shape, Dates
  <2>3. runs[r].from .. runs[r].till \subseteq 1 .. today
    BY <1>0, <2>1
  <2> QED
    BY <2>1, <2>2, <2>3 DEF Stamps
<1>9. /\ log \subseteq log'
      /\ \A row \in log' \ log : /\ row \in Parts \X Nat \X Nat
                                 /\ row[2] \in Stamps(r) /\ row[3] = r
  <2>1. \A p \in seen : stamp[SourceOf[p]] \in Stamps(r)
    BY <1>7
  <2> QED
    BY <1>0, <1>1, <1>7, <1>8, <2>1
<1>10. Dates \subseteq Dates'
  BY <1>9 DEF Dates
<1>11. Shape'
  <2>1. active' \subseteq Parts /\ latest' \in [Parts -> {0} \cup Started']
    BY <1>0, <1>4, <1>7 DEF Shape
  <2>2. log' \in SUBSET (Parts \X Nat \X Nat)
    BY <1>0, <1>9 DEF Shape
  <2>3. \A row \in log' : row[2] \in 1 .. today' /\ row[3] \in Started' /\ runs'[row[3]].stored
    BY <1>0, <1>2, <1>4, <1>8, <1>9 DEF Shape
  <2> QED
    BY <1>0, <1>4, <2>1, <2>2, <2>3 DEF Shape
<1>12. PlaceInv'
  BY <1>0, <1>2, <1>4, <1>5, <1>6 DEF PlaceInv
<1>13. StampInv'
  BY <1>0, <1>2, <1>4, <1>6, <1>10 DEF StampInv
<1>14. KnownInv'
  <2>1. \A p \in Parts : latest'[p] # 0 <=> latest[p] # 0 \/ p \in seen
    BY <1>0, <1>7
  <2>2. active \subseteq Parts /\ \A q \in Started : runs[q].seen \subseteq Parts
    <3>1. \A q \in Started : runs[q] \in RunRecord
      BY <1>0 DEF Shape, Started
    <3> QED
      BY <1>0, <3>1 DEF Shape, RunRecord
  <2>3. \A p \in active' : latest'[p] # 0
    BY <1>0, <1>7, <2>1, <2>2 DEF KnownInv
  <2>4. ASSUME NEW q \in Started, runs'[q].stored, NEW p \in runs'[q].seen
        PROVE  latest'[p] # 0
    BY <1>0, <1>2, <1>4, <1>7, <2>1, <2>2, <2>4 DEF KnownInv
  <2> QED
    BY <1>4, <2>3, <2>4 DEF KnownInv
<1>15. NoStrayDate'
  <2> SUFFICES ASSUME NEW row \in log'
               PROVE  \E q \in Started : /\ runs'[q].weekly \/ runs'[q].onEmpty
                                         /\ runs'[q].stored
                                         /\ row[2] \in runs'[q].from .. runs'[q].till
    BY <1>4 DEF NoStrayDate
  <2>1. \A d \in Dates : \E q \in Started : /\ runs'[q].weekly \/ runs'[q].onEmpty
                                            /\ runs'[q].stored
                                            /\ d \in runs'[q].from .. runs'[q].till
    BY <1>0, <1>4, <1>5 DEF NoStrayDate, Dates
  <2>2. CASE row \in log
    BY <2>1, <2>2 DEF Dates
  <2>3. CASE row \notin log /\ runs[r].asOf # NoDate
    BY <1>0, <1>9, <2>1, <2>3 DEF Stamps, StampInv
  <2>4. CASE row \notin log /\ runs[r].asOf = NoDate
    BY <1>0, <1>2, <1>4, <1>9, <2>4 DEF Stamps, StampInv
  <2> QED
    BY <2>2, <2>3, <2>4
<1>16. SoloInv'
  <2> SUFFICES ASSUME runs'[Len(runs)].alone PROVE SoloInv'
    BY <1>4 DEF SoloInv
  <2>1. r = Len(runs) /\ \A q \in Started : q # r => ~Live(q)
    BY <1>0, <1>2, <1>4, <1>5, OnlyTheLastMoves DEF SoloInv
  <2>2. \A p \in seen : p \in active' /\ latest'[p] = r
    BY <1>0, <1>7
  <2>3. \A k \in DOMAIN x.srcs : ~(k < x.i)
    BY <1>0, <1>2, <1>5 DEF RunRecord
  <2>4. x.ok \subseteq SrcSet(r)'
    BY <1>0, <1>2, <1>5, <1>6 DEF PlaceInv
  <2> QED
    BY <1>2, <1>4, <1>6, <2>1, <2>2, <2>3, <2>4 DEF SoloInv
<1> QED
  BY <1>11, <1>12, <1>13, <1>14, <1>15, <1>16 DEF CatalogInv

\* What Advance does to the record of the run.
LEMMA Advanced ==
    ASSUME Shape, PlaceInv, NEW r \in Started, NEW then \in {"record", "done", "count"},
           Live(r), Advance(r, then), runs[r].pc \in {"sweep", "record", "failed"}
    PROVE  \E x \in RunRecord :
             /\ runs' = [runs EXCEPT ![r] = x]
             /\ x.pc = IF LastSource(r) THEN then ELSE runs[r].pc
             /\ x.i = IF LastSource(r) THEN 1 ELSE runs[r].i + 1
             /\ x.i \in DOMAIN x.srcs
             /\ x.srcs = runs[r].srcs /\ x.asOf = runs[r].asOf
             /\ x.weekly = runs[r].weekly /\ x.onEmpty = runs[r].onEmpty
             /\ x.from = runs[r].from /\ x.till = runs[r].till
             /\ x.seen = runs[r].seen /\ x.ok = runs[r].ok
             /\ x.stored = runs[r].stored /\ x.count = runs[r].count
             /\ x.alone = runs[r].alone
<1> DEFINE to == IF LastSource(r) THEN then ELSE runs[r].pc
           j  == IF LastSource(r) THEN 1 ELSE runs[r].i + 1
           x  == [runs[r] EXCEPT !.pc = to, !.i = j]
<1>0. /\ runs[r] \in RunRecord /\ runs[r].i \in DOMAIN runs[r].srcs
      /\ runs[r].srcs \in Seq(Sources)
  <2>1. runs[r] \in RunRecord
    BY DEF Shape, Started
  <2> QED
    BY <2>1 DEF PlaceInv, RunRecord
<1>1. runs' = [runs EXCEPT ![r] = x]
  BY DEF Advance
<1>2. j \in Nat /\ j \in DOMAIN runs[r].srcs
  BY <1>0 DEF LastSource
<1>3. to \in {"record", "done", "count", "sweep", "failed"}
  OBVIOUS
<1> HIDE DEF j, to
<1>4. x \in RunRecord /\ x.pc = to /\ x.i = j /\ x.alone = runs[r].alone
  BY <1>0, <1>2, <1>3 DEF RunRecord, Same
<1>5. /\ x.srcs = runs[r].srcs /\ x.asOf = runs[r].asOf
      /\ x.weekly = runs[r].weekly /\ x.onEmpty = runs[r].onEmpty
      /\ x.from = runs[r].from /\ x.till = runs[r].till
      /\ x.seen = runs[r].seen /\ x.ok = runs[r].ok
      /\ x.stored = runs[r].stored /\ x.count = runs[r].count
  BY <1>0 DEF RunRecord
<1> HIDE DEF x
<1> QED
  BY <1>1, <1>2, <1>4, <1>5 DEF j, to

\* What a run has found and what it stamps are settled once it was stored.
Settled(x, y) ==
    /\ x.srcs = y.srcs /\ x.asOf = y.asOf /\ x.weekly = y.weekly /\ x.onEmpty = y.onEmpty
    /\ x.from = y.from /\ x.till = y.till /\ x.seen = y.seen /\ x.ok = y.ok
    /\ x.stored = y.stored /\ x.alone = y.alone

\* A step that only moves a run on, and at most takes parts off the list.
LEMMA MoveOn ==
    ASSUME CatalogInv, NEW r \in Started, NEW x \in RunRecord, runs' = [runs EXCEPT ![r] = x],
           Live(r), Settled(x, runs[r]),
           x.pc \notin {"done", "crashed"} => x.i \in DOMAIN x.srcs,
           x.pc \in {"sweep", "record", "count", "store"} => x.stored,
           x.pc = "failed" => ~x.stored, x.pc \notin {"scrape", "upsert"},
           active' \subseteq active,
           health' \in [Sources -> [run : {0} \cup Started, ok : BOOLEAN]],
           UNCHANGED <<latest, log, today>>
    PROVE  /\ Shape' /\ PlaceInv' /\ StampInv' /\ KnownInv' /\ NoStrayDate'
           /\ Len(runs') = Len(runs) /\ Started' = Started /\ Len(runs) \in Started
           /\ runs'[r] = x /\ \A q \in Started : q # r => runs'[q] = runs[q]
           /\ SoloInv
           /\ \A q \in Started : SrcSet(q)' = SrcSet(q)
           /\ \A q \in Started : Live(q)' => Live(q)
<1>0. Shape /\ PlaceInv /\ StampInv /\ KnownInv /\ NoStrayDate /\ SoloInv
  BY DEF CatalogInv
<1>1. /\ runs' \in Seq(RunRecord) /\ Len(runs') = Len(runs) /\ runs' # <<>>
      /\ Started' = Started /\ Len(runs) \in Started
      /\ runs'[r] = x /\ \A q \in Started : q # r => runs'[q] = runs[q]
  BY <1>0, RunStep
<1>2. \A q \in Started : Settled(runs'[q], runs[q])
  BY <1>1 DEF Settled
<1>3. \A q \in Started : SrcSet(q)' = SrcSet(q) /\ (Live(q)' => Live(q))
  BY <1>1, <1>2 DEF SrcSet, Live, Settled
<1>4. Dates' = Dates
  BY DEF Dates
<1>5. Shape'
  BY <1>0, <1>1, <1>2 DEF Shape, Settled
<1>6. PlaceInv'
  <2> SUFFICES ASSUME NEW q \in Started
               PROVE  /\ Live(q)' => runs'[q].i \in DOMAIN runs'[q].srcs
                      /\ runs'[q].pc \in {"sweep", "record", "count", "store"}
                            => runs'[q].stored
                      /\ runs'[q].pc \in {"scrape", "upsert", "failed"} => ~runs'[q].stored
                      /\ runs'[q].pc \in {"scrape", "upsert"} => runs'[q].i = 1
                      /\ Live(q)' => /\ runs'[q].ok \subseteq SrcSet(q)'
                                     /\ \A p \in runs'[q].seen : SourceOf[p] \in SrcSet(q)'
    BY <1>1 DEF PlaceInv
  <2>1. CASE q = r
    BY <1>0, <1>1, <1>2, <1>3, <2>1 DEF PlaceInv, Live, Settled
  <2>2. CASE q # r
    BY <1>0, <1>1, <1>3, <2>2 DEF PlaceInv
  <2> QED
    BY <2>1, <2>2
<1>7. StampInv'
  BY <1>0, <1>1, <1>2, <1>4 DEF StampInv, Settled
<1>8. KnownInv'
  BY <1>0, <1>1, <1>2 DEF KnownInv, Settled
<1>9. NoStrayDate'
  BY <1>0, <1>1, <1>2 DEF NoStrayDate, Settled
<1> QED
  BY <1>0, <1>1, <1>3, <1>5, <1>6, <1>7, <1>8, <1>9

\* The sweep of one source delists what this run missed of it.
LEMMA SweepStep ==
    ASSUME CatalogInv, NEW r \in Started, Sweep(r)
    PROVE  CatalogInv'
<1>0. /\ Shape /\ PlaceInv /\ SoloInv /\ Live(r) /\ runs[r].pc = "sweep" /\ runs[r].stored
      /\ runs[r] \in RunRecord /\ Advance(r, "record")
      /\ active' = active \ SweptBy(r, runs[r].srcs[runs[r].i])
      /\ UNCHANGED <<latest, log, health, storedCount, today, crashes>>
  BY DEF CatalogInv, Sweep, Live, PlaceInv, Shape, Started
<1>1. PICK x \in RunRecord :
             /\ runs' = [runs EXCEPT ![r] = x]
             /\ x.pc = IF LastSource(r) THEN "record" ELSE runs[r].pc
             /\ x.i = IF LastSource(r) THEN 1 ELSE runs[r].i + 1
             /\ x.i \in DOMAIN x.srcs
             /\ Settled(x, runs[r]) /\ x.count = runs[r].count
  BY <1>0, Advanced DEF Settled
<1>2. /\ Shape' /\ PlaceInv' /\ StampInv' /\ KnownInv' /\ NoStrayDate'
      /\ Len(runs') = Len(runs) /\ Started' = Started /\ Len(runs) \in Started
      /\ runs'[r] = x /\ \A q \in Started : q # r => runs'[q] = runs[q]
      /\ \A q \in Started : SrcSet(q)' = SrcSet(q)
      /\ \A q \in Started : Live(q)' => Live(q)
  <2>1. active' \subseteq active /\ health' \in [Sources -> [run : {0} \cup Started, ok : BOOLEAN]]
    BY <1>0 DEF Shape
  <2>2. x.stored
    BY <1>0, <1>1 DEF Settled
  <2> QED
    BY <1>0, <1>1, <2>1, <2>2, MoveOn
<1>3. SoloInv'
  <2> SUFFICES ASSUME x.alone, r = Len(runs) PROVE SoloInv'
    <3>1. runs'[Len(runs)].alone => r = Len(runs)
      BY <1>0, <1>1, <1>2, OnlyTheLastMoves DEF Settled
    <3> QED
      BY <1>2, <3>1 DEF SoloInv
  <2>1. runs[r].alone /\ \A q \in Started : q # r => ~Live(q)'
    BY <1>0, <1>1, <1>2 DEF SoloInv, Settled
  <2>2. /\ runs[r].ok \subseteq SrcSet(r)
        /\ \A p \in runs[r].seen : p \in active /\ latest[p] = r
        /\ \A k \in DOMAIN runs[r].srcs : k < runs[r].i => SweptTo(r, k)
    BY <1>0, <2>1 DEF SoloInv
  <2>3. \A p \in runs[r].seen : p \in active' /\ latest'[p] = r
    BY <1>0, <2>2 DEF SweptBy
  <2>4. \A k \in DOMAIN runs[r].srcs : SweptTo(r, k) => SweptTo(r, k)'
    BY <1>0, <1>1, <1>2 DEF SweptTo, Settled, PartsOf
  <2>8. PICK j \in DOMAIN runs[r].srcs : j = runs[r].i
    BY <1>0 DEF PlaceInv
  <2>5. SweptTo(r, j)'
    BY <1>0, <1>1, <1>2, <2>8 DEF SweptTo, Settled, SweptBy, Sweeps, PartsOf
  <2>6. \A k \in DOMAIN x.srcs : (x.pc = "sweep" => k < x.i) => SweptTo(r, k)'
    <3> SUFFICES ASSUME NEW k \in DOMAIN x.srcs, x.pc = "sweep" => k < x.i
                 PROVE  SweptTo(r, k)'
      OBVIOUS
    <3>1. k < runs[r].i \/ k = j
      BY <1>0, <1>1, <2>8 DEF LastSource, RunRecord, Settled
    <3> QED
      BY <1>1, <2>2, <2>4, <2>5, <3>1 DEF Settled
  <2>7. \A k \in DOMAIN x.srcs : ~(x.pc = "record" /\ k < x.i)
    BY <1>0, <1>1 DEF LastSource, RunRecord, Settled
  <2> QED
    BY <1>0, <1>1, <1>2, <2>1, <2>2, <2>3, <2>6, <2>7 DEF SoloInv, Settled
<1> QED
  BY <1>2, <1>3 DEF CatalogInv

\* The run is recorded for one source.
LEMMA RecordStep ==
    ASSUME CatalogInv, NEW r \in Started, Record(r)
    PROVE  CatalogInv'
<1> DEFINE then == IF runs[r].pc = "failed" THEN "done" ELSE "count"
<1>0. /\ Shape /\ PlaceInv /\ SoloInv /\ Live(r) /\ runs[r].pc \in {"record", "failed"}
      /\ runs[r].stored <=> runs[r].pc = "record"
      /\ runs[r] \in RunRecord /\ Advance(r, then) /\ then \in {"done", "count"}
      /\ UNCHANGED <<active, latest, log, storedCount, today, crashes>>
  BY DEF CatalogInv, Record, Live, PlaceInv, Shape, Started
<1>1. PICK j \in DOMAIN runs[r].srcs : j = runs[r].i
  BY <1>0 DEF PlaceInv
<1>2. /\ runs[r].srcs[j] \in Sources
      /\ health' = [health EXCEPT ![runs[r].srcs[j]] =
                       [run |-> r, ok |-> runs[r].srcs[j] \in runs[r].ok]]
  BY <1>0, <1>1 DEF Record, RunRecord
<1>3. PICK x \in RunRecord :
             /\ runs' = [runs EXCEPT ![r] = x]
             /\ x.pc = IF LastSource(r) THEN then ELSE runs[r].pc
             /\ x.i = IF LastSource(r) THEN 1 ELSE runs[r].i + 1
             /\ x.i \in DOMAIN x.srcs
             /\ Settled(x, runs[r]) /\ x.count = runs[r].count
  BY <1>0, Advanced DEF Settled
<1>4. /\ Shape' /\ PlaceInv' /\ StampInv' /\ KnownInv' /\ NoStrayDate'
      /\ Len(runs') = Len(runs) /\ Started' = Started /\ Len(runs) \in Started
      /\ runs'[r] = x /\ \A q \in Started : q # r => runs'[q] = runs[q]
      /\ \A q \in Started : SrcSet(q)' = SrcSet(q)
      /\ \A q \in Started : Live(q)' => Live(q)
  <2>1. health' \in [Sources -> [run : {0} \cup Started, ok : BOOLEAN]]
    BY <1>0, <1>2 DEF Shape
  <2>2. x.stored <=> runs[r].pc = "record"
    BY <1>0, <1>3 DEF Settled
  <2>3. /\ x.pc \in {"record", "failed", "done", "count"}
        /\ x.pc \in {"record", "count"} => runs[r].pc = "record"
        /\ x.pc = "failed" => runs[r].pc = "failed"
    BY <1>0, <1>3
  <2> QED
    BY <1>0, <1>3, <2>1, <2>2, <2>3, MoveOn
<1>5. SoloInv'
  <2> SUFFICES ASSUME x.alone, r = Len(runs) PROVE SoloInv'
    <3>1. runs'[Len(runs)].alone => r = Len(runs)
      BY <1>0, <1>3, <1>4, OnlyTheLastMoves DEF Settled
    <3> QED
      BY <1>4, <3>1 DEF SoloInv
  <2>1. runs[r].alone /\ \A q \in Started : q # r => ~Live(q)'
    BY <1>0, <1>3, <1>4 DEF SoloInv, Settled
  <2> SUFFICES ASSUME runs[r].pc = "record" PROVE SoloInv'
    BY <1>0, <1>3, <1>4, <2>1 DEF SoloInv, Settled
  <2>2. /\ runs[r].ok \subseteq SrcSet(r)
        /\ \A p \in runs[r].seen : p \in active /\ latest[p] = r
        /\ \A k \in DOMAIN runs[r].srcs : SweptTo(r, k)
        /\ \A k \in DOMAIN runs[r].srcs : k < runs[r].i => RecordedTo(r, k)
    BY <1>0, <2>1 DEF SoloInv
  <2>3. \A k \in DOMAIN runs[r].srcs : SweptTo(r, k)'
    BY <1>0, <1>3, <1>4, <2>2 DEF SweptTo, Settled, PartsOf
  <2>4. \A k \in DOMAIN runs[r].srcs : RecordedTo(r, k) => RecordedTo(r, k)'
    BY <1>0, <1>2, <1>3, <1>4 DEF RecordedTo, Settled, Shape
  <2>5. RecordedTo(r, j)'
    BY <1>0, <1>2, <1>3, <1>4 DEF RecordedTo, Settled, Shape
  <2>6. \A k \in DOMAIN x.srcs : (x.pc = "record" => k < x.i) => RecordedTo(r, k)'
    <3> SUFFICES ASSUME NEW k \in DOMAIN x.srcs, x.pc = "record" => k < x.i
                 PROVE  RecordedTo(r, k)'
      OBVIOUS
    <3>1. k < runs[r].i \/ k = j
      BY <1>0, <1>1, <1>3 DEF LastSource, RunRecord, Settled
    <3> QED
      BY <1>3, <2>2, <2>4, <2>5, <3>1 DEF Settled
  <2>7. x.pc \in {"record", "count"}
    BY <1>3
  <2> QED
    BY <1>0, <1>3, <1>4, <2>1, <2>2, <2>3, <2>6, <2>7 DEF SoloInv, Settled
<1> QED
  BY <1>4, <1>5 DEF CatalogInv

\* The rows of price_log are counted.
LEMMA CountStep ==
    ASSUME CatalogInv, NEW r \in Started, CountRows(r)
    PROVE  CatalogInv'
<1> DEFINE x == [runs[r] EXCEPT !.pc = "store", !.count = Cardinality(log)]
<1>0. /\ Shape /\ PlaceInv /\ SoloInv /\ Live(r) /\ runs[r].pc = "count" /\ runs[r].stored
      /\ runs[r] \in RunRecord /\ runs' = [runs EXCEPT ![r] = x]
      /\ UNCHANGED <<active, latest, log, health, storedCount, today, crashes>>
  <2>1. Shape /\ PlaceInv /\ SoloInv
    BY DEF CatalogInv
  <2>2. runs' = [runs EXCEPT ![r] = x]
    BY DEF CountRows
  <2>3. runs[r].pc = "count"
    BY DEF CountRows
  <2>4. Live(r) /\ runs[r].stored /\ runs[r] \in RunRecord
    BY <2>1, <2>3 DEF Live, PlaceInv, Shape, Started
  <2> QED
    BY <2>1, <2>2, <2>3, <2>4 DEF CountRows, db
<1>1. Cardinality(log) \in Counts
  BY <1>0 DEF Counts, Shape
<1>2. /\ x \in RunRecord /\ x.pc = "store" /\ x.count = Cardinality(log)
      /\ x.i = runs[r].i /\ Settled(x, runs[r])
  BY <1>0, <1>1 DEF RunRecord, Settled
<1> HIDE DEF x
<1>3. /\ Shape' /\ PlaceInv' /\ StampInv' /\ KnownInv' /\ NoStrayDate'
      /\ Len(runs') = Len(runs) /\ Started' = Started /\ Len(runs) \in Started
      /\ runs'[r] = x /\ \A q \in Started : q # r => runs'[q] = runs[q]
      /\ \A q \in Started : SrcSet(q)' = SrcSet(q)
      /\ \A q \in Started : Live(q)' => Live(q)
  <2>1. /\ x.i \in DOMAIN x.srcs /\ x.stored
        /\ health' \in [Sources -> [run : {0} \cup Started, ok : BOOLEAN]]
    BY <1>0, <1>2 DEF PlaceInv, Settled, Shape
  <2> QED
    BY <1>0, <1>2, <2>1, MoveOn
<1>4. SoloInv'
  <2> SUFFICES ASSUME x.alone, r = Len(runs) PROVE SoloInv'
    <3>1. runs'[Len(runs)].alone => r = Len(runs)
      BY <1>0, <1>2, <1>3, OnlyTheLastMoves DEF Settled
    <3> QED
      BY <1>3, <3>1 DEF SoloInv
  <2>1. runs[r].alone /\ \A q \in Started : q # r => ~Live(q)'
    BY <1>0, <1>2, <1>3 DEF SoloInv, Settled
  <2>2. /\ runs[r].ok \subseteq SrcSet(r)
        /\ \A p \in runs[r].seen : p \in active /\ latest[p] = r
        /\ \A k \in DOMAIN runs[r].srcs : SweptTo(r, k) /\ RecordedTo(r, k)
    BY <1>0, <2>1 DEF SoloInv
  <2>3. \A k \in DOMAIN runs[r].srcs : SweptTo(r, k)' /\ RecordedTo(r, k)'
    BY <1>0, <1>2, <1>3, <2>2 DEF SweptTo, RecordedTo, Settled, PartsOf
  <2> QED
    BY <1>0, <1>2, <1>3, <2>1, <2>2, <2>3 DEF SoloInv, Settled
<1> QED
  BY <1>3, <1>4 DEF CatalogInv

\* The count is stored.
LEMMA StoreStep ==
    ASSUME CatalogInv, NEW r \in Started, StoreCount(r)
    PROVE  CatalogInv'
<1> DEFINE x == [runs[r] EXCEPT !.pc = "done", !.count = 0]
<1>0. /\ Shape /\ PlaceInv /\ SoloInv /\ Live(r) /\ runs[r].pc = "store" /\ runs[r].stored
      /\ runs[r] \in RunRecord /\ runs' = [runs EXCEPT ![r] = x]
      /\ storedCount' = runs[r].count
      /\ UNCHANGED <<active, latest, log, health, today, crashes>>
  <2>1. Shape /\ PlaceInv /\ SoloInv
    BY DEF CatalogInv
  <2>2. runs' = [runs EXCEPT ![r] = x]
    BY DEF StoreCount
  <2>3. runs[r].pc = "store"
    BY DEF StoreCount
  <2>4. Live(r) /\ runs[r].stored /\ runs[r] \in RunRecord
    BY <2>1, <2>3 DEF Live, PlaceInv, Shape, Started
  <2> QED
    BY <2>1, <2>2, <2>3, <2>4 DEF StoreCount
<1>1. /\ x \in RunRecord /\ x.pc = "done" /\ Settled(x, runs[r])
  BY <1>0 DEF RunRecord, Settled, Counts
<1> HIDE DEF x
<1>2. /\ Shape' /\ PlaceInv' /\ StampInv' /\ KnownInv' /\ NoStrayDate'
      /\ Len(runs') = Len(runs) /\ Started' = Started /\ Len(runs) \in Started
      /\ runs'[r] = x /\ \A q \in Started : q # r => runs'[q] = runs[q]
      /\ \A q \in Started : SrcSet(q)' = SrcSet(q)
      /\ \A q \in Started : Live(q)' => Live(q)
  <2>1. health' \in [Sources -> [run : {0} \cup Started, ok : BOOLEAN]]
    BY <1>0 DEF Shape
  <2> QED
    BY <1>0, <1>1, <2>1, MoveOn
<1>3. SoloInv'
  <2> SUFFICES ASSUME x.alone, r = Len(runs) PROVE SoloInv'
    <3>1. runs'[Len(runs)].alone => r = Len(runs)
      BY <1>0, <1>1, <1>2, OnlyTheLastMoves DEF Settled
    <3> QED
      BY <1>2, <3>1 DEF SoloInv
  <2>1. runs[r].alone /\ \A q \in Started : q # r => ~Live(q)'
    BY <1>0, <1>1, <1>2 DEF SoloInv, Settled
  <2>2. /\ runs[r].ok \subseteq SrcSet(r)
        /\ \A p \in runs[r].seen : p \in active /\ latest[p] = r
        /\ \A k \in DOMAIN runs[r].srcs : SweptTo(r, k) /\ RecordedTo(r, k)
        /\ runs[r].count = Cardinality(log)
    BY <1>0, <2>1 DEF SoloInv
  <2>3. \A k \in DOMAIN runs[r].srcs : SweptTo(r, k)' /\ RecordedTo(r, k)'
    BY <1>0, <1>1, <1>2, <2>2 DEF SweptTo, RecordedTo, Settled, PartsOf
  <2> QED
    BY <1>0, <1>1, <1>2, <2>1, <2>2, <2>3 DEF SoloInv, Settled
<1> QED
  BY <1>2, <1>3 DEF CatalogInv

\* A kill leaves the database as it is.
LEMMA CrashStep ==
    ASSUME CatalogInv, NEW r \in Started, Crash(r)
    PROVE  CatalogInv'
<1> DEFINE x == [runs[r] EXCEPT !.pc = "crashed"]
<1>0. /\ Shape /\ PlaceInv /\ SoloInv /\ Live(r)
      /\ runs[r] \in RunRecord /\ runs' = [runs EXCEPT ![r] = x]
      /\ UNCHANGED <<active, latest, log, health, storedCount, today>>
  BY DEF CatalogInv, Crash, Shape, Started, db
<1>1. x \in RunRecord /\ x.pc = "crashed" /\ Settled(x, runs[r])
  BY <1>0 DEF RunRecord, Settled
<1> HIDE DEF x
<1>2. /\ Shape' /\ PlaceInv' /\ StampInv' /\ KnownInv' /\ NoStrayDate'
      /\ Len(runs') = Len(runs) /\ Started' = Started /\ Len(runs) \in Started
      /\ runs'[r] = x /\ \A q \in Started : q # r => runs'[q] = runs[q]
      /\ \A q \in Started : Live(q)' => Live(q)
  <2>1. health' \in [Sources -> [run : {0} \cup Started, ok : BOOLEAN]]
    BY <1>0 DEF Shape
  <2> QED
    BY <1>0, <1>1, <2>1, MoveOn
<1>3. SoloInv'
  <2>1. runs'[Len(runs)].alone => r = Len(runs)
    BY <1>0, <1>1, <1>2, OnlyTheLastMoves DEF Settled
  <2> QED
    BY <1>0, <1>1, <1>2, <2>1 DEF SoloInv, Settled
<1> QED
  BY <1>2, <1>3 DEF CatalogInv

\* A new day, and a step that does nothing.
LEMMA MidnightStep ==
    ASSUME CatalogInv, Midnight \/ UNCHANGED vars
    PROVE  CatalogInv'
<1>1. /\ UNCHANGED <<active, latest, log, health, storedCount, runs>>
      /\ today' \in Nat \ {0} /\ today <= today' /\ today \in Nat
  BY DEF CatalogInv, Shape, Midnight, vars, db
<1>2. \A r \in Started : runs[r] \in RunRecord
  BY DEF CatalogInv, Shape, Started
<1>3. Started' = Started /\ \A r \in Started : SrcSet(r)' = SrcSet(r) /\ Live(r)' = Live(r)
  BY <1>1 DEF Started, SrcSet, Live
<1>4. Shape'
  BY <1>1, <1>3 DEF CatalogInv, Shape
<1>5. PlaceInv' /\ KnownInv' /\ NoStrayDate'
  BY <1>1, <1>3 DEF CatalogInv, PlaceInv, KnownInv, NoStrayDate
<1>6. StampInv'
  <2>1. \A r \in Started : runs[r].till <= today => runs[r].till <= today'
    BY <1>1, <1>2 DEF RunRecord
  <2> QED
    BY <1>1, <1>3, <2>1 DEF CatalogInv, StampInv, Dates
<1>7. SoloInv'
  <2>1. \A r \in Started : \A k \in DOMAIN runs[r].srcs :
           (SweptTo(r, k) => SweptTo(r, k)') /\ (RecordedTo(r, k) => RecordedTo(r, k)')
    BY <1>1 DEF SweptTo, RecordedTo, PartsOf
  <2>2. Len(runs) \in Started /\ SoloInv
    BY DEF CatalogInv, Shape, Started
  <2> QED
    BY <1>1, <1>3, <2>1, <2>2 DEF SoloInv
<1> QED
  BY <1>4, <1>5, <1>6, <1>7 DEF CatalogInv

\* Every step keeps the invariant.
LEMMA CatalogStepInv == CatalogInv /\ [Next]_vars => CatalogInv'
<1> SUFFICES ASSUME CatalogInv, [Next]_vars PROVE CatalogInv'
  OBVIOUS
<1>1. CASE \E weekly \in BOOLEAN, srcs \in SourceSets : Start(weekly, srcs)
  BY <1>1, StartStep
<1>2. CASE \E r \in Started, h \in Harvests : Scrape(r, h)
  BY <1>2, ScrapeStep
<1>3. CASE \E r \in Started : \/ Upsert(r) \/ Sweep(r) \/ Record(r)
                              \/ CountRows(r) \/ StoreCount(r) \/ Crash(r)
  BY <1>3, UpsertStep, SweepStep, RecordStep, CountStep, StoreStep, CrashStep
<1>4. CASE Midnight \/ Finished \/ UNCHANGED vars
  BY <1>4, MidnightStep DEF Finished
<1> QED
  BY <1>1, <1>2, <1>3, <1>4 DEF Next

-----------------------------------------------------------------------------

\* The invariant holds of every behaviour: whatever overlaps or dies, runs stand
\* where their sources say, stamps come from the log or from a weekly run, and
\* a run that nobody overlaps keeps what it has done.
THEOREM CatalogInvariant == Spec => []CatalogInv
  BY CatalogInitInv, CatalogStepInv, PTL DEF Spec

\* Listed parts exist, log rows are those of runs that stored them, and a run's
\* place is one of its own sources.
THEOREM CatalogTypes == Spec => []TypeOK
<1>1. CatalogInv => TypeOK
  BY DEF CatalogInv, Shape, PlaceInv, KnownInv, TypeOK
<1> QED
  BY <1>1, CatalogInvariant, PTL

\* A midweek run adds no point to the trends: every date in the log was opened
\* by a weekly run, or by one that found no prices.
THEOREM NoStrayDates == Spec => []NoStrayDate
<1>1. CatalogInv => NoStrayDate
  BY DEF CatalogInv
<1> QED
  BY <1>1, CatalogInvariant, PTL

\* A run that nobody overlapped leaves each source it was trusted for listing
\* just what it saw, at its own prices, and the stored row count true.
THEOREM SoloRunsSettle == Spec => []SoloRunSettles
<1>1. CatalogInv => SoloRunSettles
  <2> SUFFICES ASSUME CatalogInv, NEW r \in Started, r = Len(runs), runs[r].alone,
                      runs[r].pc = "done", runs[r].stored
               PROVE  /\ storedCount = Cardinality(log)
                      /\ \A s \in SrcSet(r) : health[s] = [run |-> r, ok |-> s \in runs[r].ok]
                      /\ \A s \in runs[r].ok :
                            LET mine == runs[r].seen \cap PartsOf(s)
                            IN mine # {} => /\ active \cap PartsOf(s) = mine
                                            /\ \A p \in mine : latest[p] = r
    BY DEF SoloRunSettles
  <2>1. /\ storedCount = Cardinality(log)
        /\ runs[r].ok \subseteq SrcSet(r)
        /\ \A p \in runs[r].seen : p \in active /\ latest[p] = r
        /\ \A k \in DOMAIN runs[r].srcs : SweptTo(r, k) /\ RecordedTo(r, k)
    BY DEF CatalogInv, SoloInv
  <2>2. \A s \in SrcSet(r) : health[s] = [run |-> r, ok |-> s \in runs[r].ok]
    BY <2>1 DEF SrcSet, RecordedTo
  <2>3. ASSUME NEW s \in runs[r].ok, runs[r].seen \cap PartsOf(s) # {}
        PROVE  active \cap PartsOf(s) = runs[r].seen \cap PartsOf(s)
    <3>1. PICK k \in DOMAIN runs[r].srcs : runs[r].srcs[k] = s
      BY <2>1 DEF SrcSet
    <3> QED
      BY <2>1, <2>3, <3>1 DEF SweptTo
  <2> QED
    BY <2>1, <2>2, <2>3
<1> QED
  BY <1>1, CatalogInvariant, PTL

\* A part leaves the site only because a trusted harvest of its source, one that
\* did see other parts of it and has stored them, did not see this one.
THEOREM DelistedOnlyWhenMissed == Spec => DelistedWasMissed
<1> DEFINE Missed == \A p \in active \ active' : \E r \in Started :
                        /\ runs[r].stored /\ SourceOf[p] \in runs[r].ok
                        /\ p \notin runs[r].seen
                        /\ \E q \in runs[r].seen : SourceOf[q] = SourceOf[p]
<1>1. CatalogInv /\ [Next]_vars => [Missed]_vars
  <2> SUFFICES ASSUME CatalogInv, Next, NEW p \in active \ active'
               PROVE  \E r \in Started :
                        /\ runs[r].stored /\ SourceOf[p] \in runs[r].ok
                        /\ p \notin runs[r].seen
                        /\ \E q \in runs[r].seen : SourceOf[q] = SourceOf[p]
    OBVIOUS
  <2>1. PICK r \in Started : Sweep(r)
    BY DEF Next, Start, Scrape, Upsert, Relisted, Record, CountRows, StoreCount, Crash,
           Midnight, Finished, vars, db
  <2>2. p \in SweptBy(r, runs[r].srcs[runs[r].i]) /\ runs[r].stored
    BY <2>1 DEF Sweep, CatalogInv, PlaceInv
  <2> QED
    BY <2>2 DEF SweptBy, Sweeps, PartsOf
<1> QED
  BY <1>1, CatalogInvariant, PTL DEF Spec, DelistedWasMissed

=============================================================================
