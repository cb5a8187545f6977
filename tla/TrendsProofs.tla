------------------------------ MODULE TrendsProofs ------------------------------
(***************************************************************************)
(* Theorems about Trends, for any catalogue, basket size, days and runs.   *)
(***************************************************************************)
EXTENDS Trends, Counting, TLAPS

-----------------------------------------------------------------------------
(* Days and times of day.                                                  *)

\* Quotient and remainder.
LEMMA Division ==
    ASSUME NEW T \in Nat \ {0}, NEW x \in Nat
    PROVE  /\ x \div T \in Nat /\ x % T \in 0 .. T - 1
           /\ x % T = x - T * (x \div T)
<1>1. x \div T \in Nat
  OBVIOUS
<1>2. x % T \in 0 .. T - 1
  OBVIOUS
<1>3. x % T = x - T * (x \div T)
  BY Z3
<1> QED
  BY <1>1, <1>2, <1>3

\* A larger number has no smaller quotient.
LEMMA DivisionGrows ==
    ASSUME NEW T \in Nat \ {0}, NEW x \in Nat, NEW y \in Nat, x <= y
    PROVE  x \div T <= y \div T
<1> DEFINE a == x \div T
           b == y \div T
<1>1. a \in Nat /\ b \in Nat /\ a * T <= x /\ y < (b + 1) * T
  OBVIOUS
<1> HIDE DEF a, b
<1>2. SUFFICES ASSUME b < a PROVE FALSE
  BY <1>1 DEF a, b
<1>3. PICK k \in Nat : a = b + 1 + k
  BY <1>1, <1>2
<1>4. a * T = (b + 1) * T + k * T /\ k * T \in Nat /\ a * T \in Nat /\ (b + 1) * T \in Nat
  BY <1>1, <1>3
<1> QED
  BY <1>1, <1>4

\* Moments lie on days; a later moment is not on an earlier day; and on one day the
\* time of day orders them.
LEMMA Days ==
    ASSUME NEW t \in Nat \ {0}
    PROVE  /\ DayOf(t) \in Nat \ {0} /\ TimeOf(t) \in 0 .. TimesOfDay - 1
           /\ t = TimesOfDay * (DayOf(t) - 1) + TimeOf(t) + 1
<1>1. TimesOfDay \in Nat \ {0} /\ t - 1 \in Nat
  BY TrendsAssumption
<1>2. /\ (t - 1) \div TimesOfDay \in Nat /\ (t - 1) % TimesOfDay \in 0 .. TimesOfDay - 1
      /\ (t - 1) % TimesOfDay = (t - 1) - TimesOfDay * ((t - 1) \div TimesOfDay)
  BY <1>1, Division
<1> DEFINE d == (t - 1) \div TimesOfDay
           m == (t - 1) % TimesOfDay
<1>3. DayOf(t) = d + 1 /\ TimeOf(t) = m
  BY DEF DayOf, TimeOf
<1> HIDE DEF d, m
<1>4. d \in Nat /\ m \in 0 .. TimesOfDay - 1 /\ m = (t - 1) - TimesOfDay * d
  BY <1>2 DEF d, m
<1>5. TimesOfDay * d \in Nat /\ d + 1 - 1 = d
  BY <1>1, <1>4
<1> QED
  BY <1>1, <1>3, <1>4, <1>5

\* A later stamp is of no earlier day.
LEMMA DaysGrow ==
    ASSUME NEW t \in Nat \ {0}, NEW u \in Nat \ {0}, t <= u
    PROVE  DayOf(t) <= DayOf(u)
<1>1. TimesOfDay \in Nat \ {0} /\ t - 1 \in Nat /\ u - 1 \in Nat /\ t - 1 <= u - 1
  BY TrendsAssumption
<1>2. /\ (t - 1) \div TimesOfDay <= (u - 1) \div TimesOfDay
      /\ (t - 1) \div TimesOfDay \in Nat /\ (u - 1) \div TimesOfDay \in Nat
  BY <1>1, DivisionGrows, Division
<1> QED
  BY <1>2 DEF DayOf

\* The last stamp of a day is of that day.
LEMMA EndOfDay ==
    ASSUME NEW d \in Nat \ {0}
    PROVE  d * TimesOfDay \in Nat \ {0} /\ DayOf(d * TimesOfDay) = d
<1>1. TimesOfDay \in Nat \ {0}
  BY TrendsAssumption
<1>2. (d * TimesOfDay - 1) \div TimesOfDay = d - 1
  BY <1>1
<1>3. d * TimesOfDay \in Nat \ {0}
  BY <1>1
<1> QED
  BY <1>2, <1>3 DEF DayOf

\* Of two moments on one day, or on a later one, the later time is the later moment.
LEMMA LaterTime ==
    ASSUME NEW t \in Nat \ {0}, NEW u \in Nat \ {0}, DayOf(t) <= DayOf(u), TimeOf(t) <= TimeOf(u)
    PROVE  t <= u
<1>1. TimesOfDay \in Nat \ {0}
  BY TrendsAssumption
<1> DEFINE a == DayOf(t) - 1
           b == DayOf(u) - 1
<1>2. /\ a \in Nat /\ b \in Nat /\ a <= b
      /\ t = TimesOfDay * a + TimeOf(t) + 1 /\ u = TimesOfDay * b + TimeOf(u) + 1
      /\ TimeOf(t) \in Nat /\ TimeOf(u) \in Nat
  BY Days
<1> HIDE DEF a, b
<1>3. PICK k \in Nat : b = a + k
  BY <1>2
<1>4. /\ TimesOfDay * b = TimesOfDay * a + TimesOfDay * k
      /\ TimesOfDay * k \in Nat /\ TimesOfDay * a \in Nat /\ TimesOfDay * b \in Nat
  BY <1>1, <1>2, <1>3
<1> QED
  BY <1>2, <1>4

-----------------------------------------------------------------------------
(* Maxima.                                                                 *)

\* What Max chooses.
LEMMA MaxIsOne ==
    ASSUME NEW D, NEW n \in Nat, D \subseteq 0 .. n, D # {}
    PROVE  Max(D) \in D /\ \A e \in D : e <= Max(D)
<1>1. PICK d \in D : \A e \in D : e <= d
  BY HasLargest
<1>2. \A e \in D : d >= e
  BY <1>1
<1>3. Max(D) \in D /\ \A e \in D : Max(D) >= e
  BY <1>2 DEF Max
<1> QED
  BY <1>3

-----------------------------------------------------------------------------
(* The rows.                                                               *)

\* A row was scraped by now, and its date is that day or an earlier one.
IsRow(r) ==
    /\ r.part \in Group /\ r.date \in Nat \ {0}
    /\ r.made \in 1 .. moment /\ r.time = TimeOf(r.made)
    /\ r.date <= DayOf(r.made)

\* Every part with rows has a latest one.
LEMMA LatestExists ==
    ASSUME NEW R, NEW n \in Nat, NEW m \in Nat,
           \A r \in R : r.time \in 0 .. m /\ r.made \in 0 .. n, NEW r \in R
    PROVE  \E q \in LatestPerPart(R) : q.part = r.part
<1> DEFINE own   == {q \in R : q.part = r.part}
           times == {q.time : q \in own}
<1>1. times \subseteq 0 .. m /\ times # {}
  OBVIOUS
<1>2. PICK t \in times : \A u \in times : u <= t
  BY <1>1, HasLargest
<1> DEFINE last  == {q \in own : q.time = t}
           mades == {q.made : q \in last}
<1>3. mades \subseteq 0 .. n /\ mades # {}
  BY <1>2
<1>4. PICK x \in mades : \A y \in mades : y <= x
  BY <1>3, HasLargest
<1>5. PICK q \in last : q.made = x
  BY <1>4
<1>6. q \in R /\ q.part = r.part /\ q.time = t
  BY <1>5
<1>7. ASSUME NEW p \in R, p.part = q.part,
             \/ p.time > q.time
             \/ p.time = q.time /\ p.made > q.made
      PROVE  FALSE
  <2>1. p \in own /\ p.time <= t /\ p.time \in Nat /\ t \in Nat
    BY <1>1, <1>2, <1>6, <1>7
  <2>2. p.time = t /\ p.made > x
    BY <1>5, <1>6, <1>7, <2>1
  <2>3. p.made <= x /\ p.made \in Nat /\ x \in Nat
    BY <1>3, <1>4, <2>1, <2>2
  <2> QED
    BY <2>2, <2>3
<1>8. ~\E p \in R : /\ p.part = q.part
                     /\ \/ p.time > q.time
                        \/ p.time = q.time /\ p.made > q.made
  BY <1>7, Zenon
<1>9. q \in LatestPerPart(R)
  BY <1>6, <1>8, Zenon DEF LatestPerPart
<1> QED
  BY <1>6, <1>9

-----------------------------------------------------------------------------
(* The invariant of the rebuild.                                           *)

Runs ==
    /\ moment \in Nat \ {0} /\ moment <= MaxNow /\ jobMade \in 1 .. moment
    /\ job \in {"idle", "scraped", "dates", "page", "count", "write"}
    /\ midweek = [step |-> midweek.step, made |-> midweek.made, pin |-> midweek.pin,
                  runs |-> midweek.runs]
    /\ midweek.made \in 1 .. moment
    /\ midweek.pin \in Nat /\ (midweek.pin # NoPin => midweek.pin <= DayOf(midweek.made))

RowsInv ==
    /\ \A r \in priceLog : IsRow(r)
    /\ page \subseteq priceLog /\ rows \subseteq priceLog /\ present \subseteq priceLog
    /\ basis \subseteq priceLog

In(r, R) == \E q \in R : q.part = r.part /\ q.date = r.date

\* What was there when the rebuild began is read, or on a date still to be read.
CoverInv ==
    /\ job = "write" => toRead = {}
    /\ \A r \in present : r.date \in toRead \/ In(r, rows)
    /\ job = "count" => page = {} \/ \A r \in present : r.date = Min(toRead) => In(r, page)

\* What is read of a part on a date is no older than what was there.
LatestInv ==
    \A r \in present, q \in rows \cup page :
        r.part = q.part /\ r.date = q.date /\ DayOf(r.made) = r.date => q.made >= r.made

RebuildInv == Runs /\ RowsInv /\ CoverInv /\ LatestInv

\* Nothing is read at the start.
LEMMA RebuildInitInv == TrendsInit => RebuildInv
<1> SUFFICES ASSUME TrendsInit PROVE RebuildInv
  OBVIOUS
<1>1. PICK past \in Pasts :
        /\ moment = PastDays * TimesOfDay + 1
        /\ priceLog = {Row(pd[1], pd[2], pd[2] * TimesOfDay) :
                          pd \in {x \in Group \X (1 .. PastDays) : x[1] \in past[x[2]]}}
        /\ trends = {} /\ basis = {}
        /\ job = "idle" /\ jobMade = 1 /\ weekRuns = 0
        /\ toRead = {} /\ page = {} /\ rows = {} /\ present = {}
        /\ midweek = [step |-> "idle", made |-> 1, pin |-> NoPin, runs |-> 0]
  BY DEF TrendsInit
<1>2. PastDays \in Nat /\ TimesOfDay \in Nat \ {0} /\ MaxNow \in Nat
      /\ MaxNow > PastDays * TimesOfDay
  BY TrendsAssumption
<1>3. PastDays * TimesOfDay \in Nat
  BY <1>2
<1>4. Runs
  BY <1>1, <1>2, <1>3 DEF Runs, NoPin
<1>5. ASSUME NEW p \in Group, NEW d \in 1 .. PastDays
      PROVE  IsRow(Row(p, d, d * TimesOfDay))
  <2>1. d \in Nat \ {0} /\ d <= PastDays
    BY <1>2
  <2>2. d * TimesOfDay \in Nat \ {0} /\ DayOf(d * TimesOfDay) = d
    BY <2>1, EndOfDay
  <2>3. d * TimesOfDay <= PastDays * TimesOfDay
    BY <1>2, <2>1
  <2> QED
    BY <1>1, <1>3, <2>1, <2>2, <2>3 DEF IsRow, Row
<1>6. RowsInv
  BY <1>1, <1>5 DEF RowsInv
<1> QED
  BY <1>1, <1>4, <1>6 DEF RebuildInv, CoverInv, LatestInv

\* A row stays one as time goes on, and so does a log as rows are added.
LEMMA RowsStay ==
    ASSUME RowsInv, Runs, moment' \in Nat, moment <= moment'
    PROVE  \A r \in priceLog : IsRow(r)'
<1> SUFFICES ASSUME NEW r \in priceLog, IsRow(r) PROVE IsRow(r)'
  BY DEF RowsInv
<1> QED
  BY DEF IsRow, Runs

\* The rows that a run stamps.
LEMMA StampedRows ==
    ASSUME Runs, NEW seen \in Harvests, NEW made \in 1 .. moment, NEW pin \in Nat,
           pin # NoPin => pin <= DayOf(made)
    PROVE  \A r \in Stamped(seen, pin, made) : IsRow(r)
<1>1. seen \subseteq Group /\ made \in Nat \ {0} /\ DayOf(made) \in Nat \ {0}
  BY TrendsAssumption, Days DEF Runs
<1>2. ASSUME NEW p \in seen
      PROVE  IsRow(Row(p, IF pin = NoPin THEN DayOf(made) ELSE pin, made))
  BY <1>1 DEF IsRow, Row, NoPin
<1> QED
  BY <1>2 DEF Stamped

\* Time passes, a run starts, or the job is given up.
LEMMA QuietStep ==
    ASSUME RebuildInv,
           Tick \/ MidweekStart \/ WeeklyStart \/ JobDies \/ TrendsDone \/ UNCHANGED trendsVars
    PROVE  RebuildInv'
<1>0. Runs /\ RowsInv /\ CoverInv /\ LatestInv
  BY DEF RebuildInv
<1>1. CASE Tick
  <2>1. /\ moment' = moment + 1 /\ moment' <= MaxNow
        /\ UNCHANGED <<priceLog, job, jobMade, toRead, page, rows, present, basis, midweek>>
    BY <1>0, <1>1, TrendsAssumption DEF Tick, reading, Runs
  <2>2. Runs'
    BY <1>0, <2>1 DEF Runs
  <2>3. RowsInv'
    BY <1>0, <2>1, RowsStay DEF RowsInv, Runs
  <2>4. CoverInv' /\ LatestInv'
    BY <1>0, <2>1 DEF CoverInv, LatestInv, In
  <2> QED
    BY <2>2, <2>3, <2>4 DEF RebuildInv
<1>2. CASE MidweekStart
  <2>1. /\ midweek' = [step |-> "scraped", made |-> moment, runs |-> midweek.runs + 1,
                       pin |-> IF priceLog = {} THEN NoPin ELSE Max(DatesOf(priceLog))]
        /\ UNCHANGED <<moment, priceLog, job, jobMade, toRead, page, rows, present, basis>>
    BY <1>2 DEF MidweekStart, reading
  <2>2. moment \in Nat \ {0} /\ DayOf(moment) \in Nat \ {0}
    BY <1>0, Days DEF Runs
  <2>3. ASSUME NEW r \in priceLog PROVE r.date \in 0 .. DayOf(moment)
    <3>1. /\ r.date \in Nat /\ r.made \in Nat \ {0} /\ r.made <= moment
          /\ r.date <= DayOf(r.made) /\ DayOf(r.made) \in Nat
      BY <1>0, <2>2, Days DEF RowsInv, IsRow
    <3> QED
      BY <2>2, <3>1, DaysGrow
  <2>4. priceLog # {} => Max(DatesOf(priceLog)) \in 0 .. DayOf(moment)
    <3>1. DatesOf(priceLog) \subseteq 0 .. DayOf(moment)
      BY <2>3 DEF DatesOf
    <3>2. priceLog # {} => DatesOf(priceLog) # {}
      BY DEF DatesOf
    <3> QED
      BY <2>2, <3>1, <3>2, MaxIsOne
  <2>5. midweek'.pin \in Nat /\ (midweek'.pin # NoPin => midweek'.pin <= DayOf(moment))
    BY <2>1, <2>2, <2>4 DEF NoPin
  <2>6. Runs'
    BY <1>0, <2>1, <2>2, <2>5 DEF Runs, DayOf
  <2>7. RowsInv' /\ CoverInv' /\ LatestInv'
    BY <1>0, <2>1 DEF RowsInv, CoverInv, LatestInv, IsRow, In
  <2> QED
    BY <2>6, <2>7 DEF RebuildInv
<1>3. CASE WeeklyStart
  <2>1. /\ job = "idle" /\ job' = "scraped" /\ jobMade' = moment
        /\ UNCHANGED <<moment, priceLog, toRead, page, rows, present, basis, midweek>>
    BY <1>3 DEF WeeklyStart, reading
  <2> QED
    BY <1>0, <2>1 DEF RebuildInv, Runs, RowsInv, CoverInv, LatestInv, IsRow, In
<1>4. CASE JobDies
  <2>1. /\ job' = "idle" /\ jobMade' = 1 /\ toRead' = {} /\ page' = {} /\ rows' = {}
        /\ present' = {}
        /\ UNCHANGED <<moment, priceLog, basis, midweek>>
    BY <1>4 DEF JobDies, Over
  <2> QED
    BY <1>0, <2>1 DEF RebuildInv, Runs, RowsInv, CoverInv, LatestInv, IsRow
<1>5. CASE TrendsDone \/ UNCHANGED trendsVars
  <2>1. UNCHANGED <<moment, priceLog, job, jobMade, toRead, page, rows, present, basis, midweek>>
    BY <1>5 DEF TrendsDone, trendsVars
  <2> QED
    BY <1>0, <2>1 DEF RebuildInv, Runs, RowsInv, CoverInv, LatestInv, IsRow, In
<1> QED
  BY <1>1, <1>2, <1>3, <1>4, <1>5

\* A run logs prices beside the rebuild: rows are added, never taken.
LEMMA UpsertStep ==
    ASSUME RebuildInv, NEW seen \in Harvests, MidweekUpsert(seen) \/ WeeklyUpsert(seen)
    PROVE  RebuildInv'
<1>0. Runs /\ RowsInv /\ CoverInv /\ LatestInv
  BY DEF RebuildInv
<1>1. UNCHANGED <<moment, toRead, page, rows, present, basis>>
  BY DEF MidweekUpsert, WeeklyUpsert, reading
<1>2. /\ job' = job \/ (job = "scraped" /\ job' = "dates")
      /\ Runs'
  <2>1. CASE MidweekUpsert(seen)
    <3>1. /\ midweek' = [midweek EXCEPT !.step = "idle", !.made = 1, !.pin = NoPin]
          /\ UNCHANGED <<moment, job, jobMade>>
      BY <2>1 DEF MidweekUpsert
    <3>2. midweek' = [step |-> "idle", made |-> 1, pin |-> NoPin, runs |-> midweek.runs]
      BY <1>0, <3>1 DEF Runs
    <3>3. /\ midweek' = [step |-> midweek'.step, made |-> midweek'.made,
                          pin |-> midweek'.pin, runs |-> midweek'.runs]
          /\ midweek'.made = 1 /\ midweek'.pin = NoPin
      BY <3>2
    <3> QED
      BY <1>0, <1>1, <3>1, <3>3 DEF Runs, NoPin
  <2>2. CASE WeeklyUpsert(seen)
    BY <1>0, <2>2 DEF WeeklyUpsert, Runs
  <2> QED
    BY <2>1, <2>2
<1>3. PICK new : priceLog' = priceLog \cup new /\ \A r \in new : IsRow(r)
  <2>1. CASE MidweekUpsert(seen)
    BY <1>0, <2>1, StampedRows DEF MidweekUpsert, Runs
  <2>2. CASE WeeklyUpsert(seen)
    BY <1>0, <2>2, StampedRows DEF WeeklyUpsert, Runs, NoPin
  <2> QED
    BY <2>1, <2>2
<1>4. RowsInv'
  BY <1>0, <1>1, <1>3 DEF RowsInv, IsRow
<1>5. CoverInv' /\ LatestInv'
  BY <1>0, <1>1, <1>2 DEF CoverInv, LatestInv, In
<1> QED
  BY <1>2, <1>4, <1>5 DEF RebuildInv

\* The rebuild reads the dates.
LEMMA ReadDatesStep ==
    ASSUME RebuildInv, ReadDates
    PROVE  RebuildInv'
<1>1. /\ toRead' = DatesOf(priceLog) /\ rows' = {} /\ page' = {} /\ present' = priceLog
      /\ job' = IF priceLog = {} THEN "write" ELSE "page"
      /\ UNCHANGED <<moment, priceLog, jobMade, basis, midweek>>
  BY DEF ReadDates
<1>2. Runs' /\ RowsInv' /\ LatestInv'
  BY <1>1 DEF RebuildInv, Runs, RowsInv, LatestInv, IsRow
<1>3. CoverInv'
  BY <1>1 DEF CoverInv, DatesOf
<1> QED
  BY <1>2, <1>3 DEF RebuildInv

\* The rebuild reads the rows of one date.
LEMMA ReadPageStep ==
    ASSUME RebuildInv, ReadPage
    PROVE  RebuildInv'
<1> DEFINE D == On(priceLog, Min(toRead))
<1>0. Runs /\ RowsInv /\ CoverInv /\ LatestInv
  BY DEF RebuildInv
<1>1. /\ job = "page" /\ job' = "count"
      /\ page' \in {LatestPerPart(D), {}}
      /\ UNCHANGED <<moment, priceLog, jobMade, toRead, rows, present, basis, midweek>>
  BY DEF ReadPage
<1>2. LatestPerPart(D) \subseteq D /\ D \subseteq priceLog
  BY DEF LatestPerPart, On
<1>3. Runs' /\ RowsInv'
  BY <1>0, <1>1, <1>2 DEF Runs, RowsInv, IsRow
<1>4. moment \in Nat /\ TimesOfDay \in Nat \ {0}
  BY <1>0, TrendsAssumption DEF Runs
<1>5. \A q \in D : q.time \in 0 .. TimesOfDay - 1 /\ q.made \in 0 .. moment
  BY <1>0, <1>2, <1>4, Days DEF RowsInv, IsRow
<1>6. CoverInv'
  <2>1. ASSUME NEW r \in present, r.date = Min(toRead), page' # {}
        PROVE  In(r, page')
    <3>1. r \in D
      BY <1>0, <2>1 DEF On, RowsInv
    <3>2. TimesOfDay - 1 \in Nat
      BY <1>4
    <3>3. PICK q \in LatestPerPart(D) : q.part = r.part
      BY <1>4, <1>5, <3>1, <3>2, LatestExists
    <3>4. q.date = r.date
      BY <1>2, <2>1, <3>3 DEF On
    <3> QED
      BY <1>1, <2>1, <3>3, <3>4 DEF In
  <2> QED
    BY <1>0, <1>1, <2>1 DEF CoverInv, In
<1>7. LatestInv'
  <2> SUFFICES ASSUME NEW r \in present, NEW q \in LatestPerPart(D),
                      r.part = q.part, r.date = q.date, DayOf(r.made) = r.date
               PROVE  q.made >= r.made
    BY <1>0, <1>1 DEF LatestInv
  <2>1. r \in D /\ q \in D /\ r \in priceLog /\ q \in priceLog
    BY <1>0, <1>2 DEF On, RowsInv
  <2>2. ~(r.time > q.time)
    BY <2>1 DEF LatestPerPart
  <2>3. /\ r.made \in Nat \ {0} /\ q.made \in Nat \ {0}
        /\ r.time = TimeOf(r.made) /\ q.time = TimeOf(q.made) /\ q.date <= DayOf(q.made)
    BY <1>0, <1>4, <2>1 DEF RowsInv, IsRow
  <2>4. TimeOf(r.made) <= TimeOf(q.made) /\ DayOf(r.made) <= DayOf(q.made)
    BY <1>4, <1>5, <2>1, <2>2, <2>3
  <2>5. r.made <= q.made
    BY <2>3, <2>4, LaterTime
  <2> QED
    BY <2>3, <2>5
<1> QED
  BY <1>3, <1>6, <1>7 DEF RebuildInv

\* An empty page passes the count only where there is nothing on that date.
LEMMA EmptyPage ==
    ASSUME RowsInv, NEW d, page = {}, ~ShortRead(d), NEW r \in priceLog
    PROVE  r.date # d
<1> SUFFICES ASSUME r.date = d PROVE FALSE
  OBVIOUS
<1>1. r.part \in Basket(priceLog, d)
  BY DEF Basket, On
<1>2. Basket(priceLog, d) \subseteq Group
  BY DEF Basket, On, RowsInv, IsRow
<1>3. IsFiniteSet(Basket(priceLog, d))
  BY <1>2, FS_Subset, TrendsAssumption
<1>4. Cardinality(Basket(priceLog, d)) = 0
  BY FS_EmptySet DEF ShortRead
<1> QED
  BY <1>1, <1>3, <1>4, FS_EmptySet

\* The rows read are compared with the count before and after.
LEMMA CheckCountStep ==
    ASSUME RebuildInv, CheckCount
    PROVE  RebuildInv'
<1>0. Runs /\ RowsInv /\ CoverInv /\ LatestInv /\ job = "count"
      /\ UNCHANGED <<moment, priceLog, basis, midweek>>
  BY DEF RebuildInv, CheckCount
<1>1. PICK d : d = Min(toRead)
  OBVIOUS
<1>2. CASE ShortRead(d)
  <2>1. job' = "idle" /\ jobMade' = 1 /\ page' = {} /\ rows' = {} /\ present' = {}
    BY <1>1, <1>2 DEF CheckCount, Over
  <2> QED
    BY <1>0, <2>1 DEF RebuildInv, Runs, RowsInv, CoverInv, LatestInv, IsRow
<1>3. CASE ~ShortRead(d)
  <2>1. /\ page' = {} /\ rows' = rows \cup page /\ toRead' = toRead \ {d}
        /\ job' = IF toRead = {d} THEN "write" ELSE "page"
        /\ UNCHANGED <<jobMade, present>>
    BY <1>1, <1>3 DEF CheckCount
  <2>2. Runs' /\ RowsInv'
    BY <1>0, <2>1 DEF Runs, RowsInv, IsRow
  <2>3. LatestInv'
    BY <1>0, <2>1 DEF LatestInv
  <2>4. CoverInv'
    <3>1. ASSUME NEW r \in present PROVE r.date \in toRead' \/ In(r, rows')
      <4>1. CASE r.date = d /\ page = {}
        BY <1>0, <1>3, <4>1, EmptyPage DEF RowsInv
      <4>2. CASE r.date = d /\ page # {}
        BY <1>0, <1>1, <2>1, <4>2 DEF CoverInv, In
      <4>3. CASE r.date # d
        BY <1>0, <2>1, <4>3 DEF CoverInv, In
      <4> QED
        BY <4>1, <4>2, <4>3
    <3> QED
      BY <2>1, <3>1 DEF CoverInv
  <2> QED
    BY <2>2, <2>3, <2>4 DEF RebuildInv
<1> QED
  BY <1>2, <1>3

\* price_trends is rewritten.
LEMMA WriteStep ==
    ASSUME RebuildInv, WriteTrends
    PROVE  RebuildInv'
<1>1. /\ job' = "idle" /\ jobMade' = 1 /\ page' = {} /\ rows' = {} /\ present' = {}
      /\ basis' = rows
      /\ UNCHANGED <<moment, priceLog, midweek>>
  BY DEF WriteTrends, Over
<1> QED
  BY <1>1 DEF RebuildInv, Runs, RowsInv, CoverInv, LatestInv, IsRow

\* Every step keeps the invariant.
LEMMA RebuildStepInv == RebuildInv /\ [TrendsNext]_trendsVars => RebuildInv'
  BY QuietStep, UpsertStep, ReadDatesStep, ReadPageStep, CheckCountStep, WriteStep
     DEF TrendsNext

\* The invariant holds of every behaviour: a rebuild in progress has read, of what
\* was there when it began, all but the dates still to come.
THEOREM RebuildInvariant == TrendsSpec => []RebuildInv
  BY RebuildInitInv, RebuildStepInv, PTL DEF TrendsSpec

\* The trends are rewritten only from a read that holds every part of every date
\* that price_log had when the rebuild began, whatever pages came back empty and
\* whatever other runs logged meanwhile.
THEOREM RebuildsLoseNothing == TrendsSpec => []RebuildLosesNothing
<1>1. RebuildInv => RebuildLosesNothing
  BY DEF RebuildInv, CoverInv, In, RebuildLosesNothing
<1> QED
  BY <1>1, RebuildInvariant, PTL

\* Of a part scraped again on the same day the trends never show a price older
\* than one that was really scraped on that date.
THEOREM RetryPricesCount == TrendsSpec => []RetryPriceCounts
<1>1. RebuildInv => RetryPriceCounts
  BY DEF RebuildInv, LatestInv, RetryPriceCounts
<1> QED
  BY <1>1, RebuildInvariant, PTL

-----------------------------------------------------------------------------
(* The loop over the dates of the series.                                  *)

\* One turn of the loop.
Turn(R, before, d) ==
    IF d \notin DatesOf(R) THEN before
    ELSE IF ~before.anchored
    THEN IF Big(Basket(R, d)) THEN [anchored |-> TRUE, level |-> {d}] ELSE before
    ELSE IF Big(Shared(R, d)) THEN [before EXCEPT !.level = @ \cup {d}]
    ELSE Gap(before)

IsWalk(R, f, n) ==
    f = [d \in 0 .. n |-> IF d = 0 THEN NotAnchored ELSE Turn(R, f[d - 1], d)]

\* The loop can be run to any date.
LEMMA WalksExist ==
    ASSUME NEW R, NEW n \in Nat
    PROVE  \E f : IsWalk(R, f, n)
<1> DEFINE T == {k \in Nat : ~\E f : IsWalk(R, f, k)}
<1> SUFFICES ASSUME T # {} PROVE FALSE
  OBVIOUS
<1>1. PICK m \in T : \A k \in T : ~(k < m)
  BY LeastOf
<1>2. m # 0
  <2>1. IsWalk(R, [d \in 0 .. 0 |-> NotAnchored], 0)
    BY DEF IsWalk
  <2> QED
    BY <2>1
<1>3. m \in Nat /\ m - 1 \in Nat /\ m - 1 < m
  BY <1>2
<1>4. m - 1 \notin T
  BY <1>1, <1>3
<1>5. PICK g : IsWalk(R, g, m - 1)
  BY <1>3, <1>4
<1> DEFINE h == [d \in 0 .. m |-> IF d = m THEN Turn(R, g[m - 1], m) ELSE g[d]]
<1>6. \A d \in 0 .. m - 1 : g[d] = IF d = 0 THEN NotAnchored ELSE Turn(R, g[d - 1], d)
  <2>1. g = [d \in 0 .. m - 1 |-> IF d = 0 THEN NotAnchored ELSE Turn(R, g[d - 1], d)]
    BY <1>5 DEF IsWalk
  <2> HIDE DEF h
  <2> QED
    BY <2>1, Zenon
<1>7. \A d \in 0 .. m : h[d] = IF d = 0 THEN NotAnchored ELSE Turn(R, h[d - 1], d)
  <2> SUFFICES ASSUME NEW d \in 0 .. m
               PROVE  h[d] = IF d = 0 THEN NotAnchored ELSE Turn(R, h[d - 1], d)
    OBVIOUS
  <2>1. CASE d = 0
    BY <1>2, <1>3, <1>6, <2>1
  <2>2. CASE d = m
    BY <1>2, <1>3, <2>2
  <2>3. CASE d # 0 /\ d # m
    <3>1. d \in 0 .. m - 1 /\ d - 1 \in 0 .. m /\ d - 1 # m
      BY <1>3, <2>3
    <3>2. h[d] = g[d] /\ h[d - 1] = g[d - 1]
      BY <2>3, <3>1
    <3> QED
      BY <1>6, <2>3, <3>1, <3>2
  <2> QED
    BY <2>1, <2>2, <2>3
<1>8. IsWalk(R, h, m)
  <2>1. h = [d \in 0 .. m |-> h[d]]
    OBVIOUS
  <2> HIDE DEF h
  <2> QED
    BY <1>7, <2>1, Zenon DEF IsWalk
<1> QED
  BY <1>8, <1>1

\* Walk is the loop run to the last day.
LEMMA WalkIsOne ==
    ASSUME NEW R, LastDay \in Nat
    PROVE  IsWalk(R, Walk(R), LastDay)
<1>1. PICK f : IsWalk(R, f, LastDay)
  BY WalksExist
<1>2. Walk(R) = CHOOSE g : IsWalk(R, g, LastDay)
  BY DEF Walk, IsWalk, Turn
<1> QED
  BY <1>1, <1>2

\* The unbroken run of due dates that ends at d.
DueRun(R, d) ==
    {e \in DatesOf(R) : e <= d /\ \A f \in DatesOf(R) : e <= f /\ f <= d => Due(R, f)}

\* Some date up to d had enough parts.
Begun(R, d) == \E e \in DatesOf(R) : e <= d /\ Big(Basket(R, e))

\* What the loop carries after date d.
Carries(R, v, d) ==
    /\ v = [anchored |-> v.anchored, level |-> DueRun(R, d)]
    /\ v.anchored \in BOOLEAN /\ (v.anchored <=> Begun(R, d))
    /\ ~Begun(R, d) => DueRun(R, d) = {}

\* What a state of the loop says of the series, put together.
LEMMA CarriesThis ==
    ASSUME NEW R, NEW d, NEW b \in BOOLEAN, b <=> Begun(R, d), NEW S, S = DueRun(R, d),
           ~Begun(R, d) => S = {}
    PROVE  Carries(R, [anchored |-> b, level |-> S], d)
<1> DEFINE v == [anchored |-> b, level |-> S]
<1>1. v.anchored = b /\ v = [anchored |-> b, level |-> S]
  OBVIOUS
<1> HIDE DEF v
<1>2. v = [anchored |-> v.anchored, level |-> DueRun(R, d)]
  BY <1>1
<1>3. v.anchored \in BOOLEAN /\ (v.anchored <=> Begun(R, d))
  BY <1>1, Zenon
<1>4. Carries(R, v, d)
  BY <1>2, <1>3 DEF Carries
<1> QED
  BY <1>1, <1>4

\* One turn keeps the level on the unbroken run of due dates.
LEMMA TurnCarries ==
    ASSUME NEW R, DatesOf(R) \subseteq Nat \ {0}, NEW d \in Nat \ {0}, NEW v,
           Carries(R, v, d - 1)
    PROVE  Carries(R, Turn(R, v, d), d)
<1>0. \A e \in DatesOf(R) : /\ e \in Nat \ {0} /\ (e <= d <=> e <= d - 1 \/ e = d)
                            /\ (e < d <=> e <= d - 1)
  OBVIOUS
<1>1. CASE d \notin DatesOf(R)
  <2>1. \A e \in DatesOf(R) : e <= d <=> e <= d - 1
    BY <1>0, <1>1
  <2>2. DueRun(R, d) = DueRun(R, d - 1) /\ (Begun(R, d) <=> Begun(R, d - 1))
    BY <2>1 DEF DueRun, Begun
  <2> QED
    BY <1>1, <2>2 DEF Carries, Turn
<1>2. CASE d \in DatesOf(R)
  <2>0. Due(R, d) <=> IF Begun(R, d - 1) THEN Big(Shared(R, d)) ELSE Big(Basket(R, d))
    BY <1>0, <1>2 DEF Due, Begun
  <2>1. DueRun(R, d) = IF Due(R, d) THEN DueRun(R, d - 1) \cup {d} ELSE {}
    <3>1. CASE Due(R, d)
      <4>1. d <= d /\ \A f \in DatesOf(R) : d <= f /\ f <= d => f = d
        BY <1>0
      <4>2. d \in DueRun(R, d)
        BY <1>2, <3>1, <4>1 DEF DueRun
      <4>3. ~(d <= d - 1)
        OBVIOUS
      <4> QED
        BY <1>0, <3>1, <4>2, <4>3 DEF DueRun
    <3>2. CASE ~Due(R, d)
      <4>1. d <= d
        OBVIOUS
      <4> QED
        BY <1>2, <3>2, <4>1 DEF DueRun
    <3> QED
      BY <3>1, <3>2
  <2>2. Begun(R, d) <=> Begun(R, d - 1) \/ Big(Basket(R, d))
    BY <1>0, <1>2 DEF Begun
  <2>3. CASE ~Begun(R, d - 1) /\ Big(Basket(R, d))
    <3>1. Turn(R, v, d) = [anchored |-> TRUE, level |-> {d}]
      BY <1>2, <2>3 DEF Turn, Carries
    <3>2. DueRun(R, d) = {d}
      BY <2>0, <2>1, <2>3 DEF Carries
    <3> QED
      BY <2>2, <2>3, <3>1, <3>2 DEF Carries
  <2>4. CASE ~Begun(R, d - 1) /\ ~Big(Basket(R, d))
    <3>1. Turn(R, v, d) = v
      BY <1>2, <2>4 DEF Turn, Carries
    <3>2. DueRun(R, d) = {} /\ DueRun(R, d - 1) = {}
      BY <2>0, <2>1, <2>4 DEF Carries
    <3> QED
      BY <2>2, <2>4, <3>1, <3>2 DEF Carries
  <2>5. CASE Begun(R, d - 1) /\ Big(Shared(R, d))
    <3>1. v = [anchored |-> TRUE, level |-> DueRun(R, d - 1)]
      BY <2>5 DEF Carries
    <3>2. Turn(R, v, d) = [v EXCEPT !.level = @ \cup {d}]
      BY <1>2, <2>5, <3>1 DEF Turn
    <3>3. Turn(R, v, d) = [anchored |-> TRUE, level |-> DueRun(R, d - 1) \cup {d}]
      BY <3>1, <3>2
    <3>4. DueRun(R, d) = DueRun(R, d - 1) \cup {d} /\ Begun(R, d)
      BY <2>0, <2>1, <2>2, <2>5
    <3> QED
      BY <3>3, <3>4, CarriesThis
  <2>6. CASE Begun(R, d - 1) /\ ~Big(Shared(R, d))
    <3>1. Turn(R, v, d) = [anchored |-> TRUE, level |-> {}]
      BY <1>2, <2>6 DEF Turn, Carries, Gap
    <3>2. DueRun(R, d) = {} /\ Begun(R, d)
      BY <2>0, <2>1, <2>2, <2>6
    <3> QED
      BY <3>1, <3>2, CarriesThis
  <2> QED
    BY <2>3, <2>4, <2>5, <2>6
<1> QED
  BY <1>1, <1>2

\* At every date the loop carries what is due there.
LEMMA WalkCarries ==
    ASSUME NEW R, DatesOf(R) \subseteq 1 .. LastDay, LastDay \in Nat, NEW n \in 0 .. LastDay
    PROVE  Carries(R, Walk(R)[n], n)
<1> DEFINE T == {k \in 0 .. LastDay : ~Carries(R, Walk(R)[k], k)}
<1> SUFFICES ASSUME T # {} PROVE FALSE
  OBVIOUS
<1>1. T \subseteq Nat /\ DatesOf(R) \subseteq Nat \ {0}
  OBVIOUS
<1>2. PICK m \in T : \A k \in T : ~(k < m)
  BY <1>1, LeastOf
<1>3. \A d \in 0 .. LastDay :
         Walk(R)[d] = IF d = 0 THEN NotAnchored ELSE Turn(R, Walk(R)[d - 1], d)
  <2>1. Walk(R) = [d \in 0 .. LastDay |->
                     IF d = 0 THEN NotAnchored ELSE Turn(R, Walk(R)[d - 1], d)]
    BY WalkIsOne DEF IsWalk
  <2> QED
    BY <2>1, Zenon
<1>4. CASE m = 0
  <2>1. ~Begun(R, 0) /\ DueRun(R, 0) = {}
    BY <1>1 DEF Begun, DueRun
  <2>2. Walk(R)[0] = [anchored |-> FALSE, level |-> {}]
    BY <1>3, <1>4 DEF NotAnchored
  <2>3. Carries(R, Walk(R)[0], 0)
    BY <2>1, <2>2, CarriesThis
  <2> QED
    BY <1>2, <1>4, <2>3
<1>5. CASE m # 0
  <2>1. m \in Nat \ {0} /\ m - 1 \in 0 .. LastDay /\ m - 1 < m /\ m \in 0 .. LastDay
    BY <1>2, <1>5
  <2>2. Carries(R, Walk(R)[m - 1], m - 1)
    BY <1>2, <2>1
  <2>3. Carries(R, Walk(R)[m], m)
    BY <1>1, <1>3, <1>5, <2>1, <2>2, TurnCarries
  <2> QED
    BY <1>2, <2>3
<1> QED
  BY <1>4, <1>5

Measured(R) ==
    {Point(R, d, DueRun(R, d)) : d \in {e \in DatesOf(R) : Due(R, e)}}

\* The loop publishes a point where one is due, at the level of its run.
LEMMA RecordsAreMeasured ==
    ASSUME NEW R, DatesOf(R) \subseteq 1 .. LastDay, LastDay \in Nat
    PROVE  Records(R) = Measured(R)
<1>1. \A d \in DatesOf(R) : Walk(R)[d].level = DueRun(R, d)
  <2> SUFFICES ASSUME NEW d \in DatesOf(R) PROVE Walk(R)[d].level = DueRun(R, d)
    OBVIOUS
  <2>1. Carries(R, Walk(R)[d], d)
    BY WalkCarries
  <2> QED
    BY <2>1 DEF Carries
<1>2. \A d \in DatesOf(R) : d \in DueRun(R, d) <=> Due(R, d)
  <2>1. \A d, f \in DatesOf(R) : d <= d /\ (d <= f /\ f <= d => f = d)
    OBVIOUS
  <2> QED
    BY <2>1 DEF DueRun
<1>3. Records(R) = {Point(R, d, Walk(R)[d].level) : d \in {e \in DatesOf(R) : e \in Walk(R)[e].level}}
  BY DEF Records
<1>4. {e \in DatesOf(R) : e \in Walk(R)[e].level} = {e \in DatesOf(R) : Due(R, e)}
  BY <1>1, <1>2
<1> QED
  BY <1>1, <1>3, <1>4 DEF Measured

LevelsInv == trends = Measured(basis)

\* The stored series has a point exactly where one is due, at a level that goes
\* back over the unbroken run of due dates before it, never across a gap.
THEOREM LevelsMeasured == TrendsSpec => []LevelsAreMeasured
<1>1. TrendsInit => LevelsInv
  BY DEF TrendsInit, LevelsInv, Measured, DatesOf
<1>2. RebuildInv /\ LevelsInv /\ [TrendsNext]_trendsVars => LevelsInv'
  <2> SUFFICES ASSUME RebuildInv, LevelsInv, [TrendsNext]_trendsVars PROVE LevelsInv'
    OBVIOUS
  <2>1. CASE WriteTrends
    <3>1. trends' = Records(rows) /\ basis' = rows
      BY <2>1 DEF WriteTrends
    <3>2. LastDay \in Nat /\ DatesOf(rows) \subseteq 1 .. LastDay
      <4>1. /\ moment \in Nat \ {0} /\ moment <= MaxNow /\ MaxNow \in Nat \ {0}
            /\ \A r \in rows : IsRow(r)
        BY TrendsAssumption DEF RebuildInv, Runs, RowsInv
      <4>2. LastDay \in Nat
        BY <4>1, Days DEF LastDay
      <4>3. ASSUME NEW r \in rows PROVE r.date \in 1 .. LastDay
        <5>1. /\ r.date \in Nat \ {0} /\ r.made \in Nat \ {0} /\ r.made <= MaxNow
              /\ r.date <= DayOf(r.made)
          BY <4>1 DEF IsRow
        <5>2. DayOf(r.made) <= LastDay /\ DayOf(r.made) \in Nat
          BY <4>1, <5>1, DaysGrow, Days DEF LastDay
        <5> QED
          BY <4>2, <5>1, <5>2
      <4> QED
        BY <4>2, <4>3 DEF DatesOf
    <3>3. Records(rows) = Measured(rows)
      BY <3>2, RecordsAreMeasured
    <3> QED
      BY <3>1, <3>3 DEF LevelsInv
  <2>2. CASE UNCHANGED <<trends, basis>>
    BY <2>2 DEF LevelsInv
  <2> QED
    BY <2>1, <2>2
       DEF TrendsNext, Tick, MidweekStart, WeeklyStart, MidweekUpsert, WeeklyUpsert,
           ReadDates, ReadPage, CheckCount, JobDies, TrendsDone, trendsVars
<1>3. LevelsInv => LevelsAreMeasured
  BY DEF LevelsInv, LevelsAreMeasured, Measured, DueRun
<1> QED
  BY <1>1, <1>2, <1>3, RebuildInvariant, PTL DEF TrendsSpec

=============================================================================
