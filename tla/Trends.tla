-------------------------------- MODULE Trends --------------------------------
(***************************************************************************)
(* The weekly rebuild of price_trends (db/database.py) against the other   *)
(* scrape runs that write price_log meanwhile.                             *)
(*                                                                         *)
(* One trend group stands for all of them: each series is computed from    *)
(* its own parts only.  A row is one price of one part: the date and the   *)
(* time of day it is stamped with, and the moment it was really scraped.   *)
(* A pinned run (pin_trend_bucket, scraped_at_now) stamps the pinned date  *)
(* with its own time of day.  An index level is abstracted to the dates    *)
(* whose price movements it carries; figures derived from a basket (band,  *)
(* headline prices) are left out.  Weekly runs follow one another (one CI  *)
(* concurrency group); a midweek run may overlap anything.                 *)
(***************************************************************************)
EXTENDS Naturals, FiniteSets, FiniteSetsExt

CONSTANTS Group,        \* parts of the trend group
          MinBasket,    \* _TREND_MIN_BASKET
          TimesOfDay,   \* length of a day
          PastDays,     \* days before the runs modelled
          Pasts,        \* what weekly runs logged on them: [1..PastDays -> SUBSET Group]
          Harvests,     \* what a run may find on sale: sets of parts
          MaxNow, MaxRuns   \* bounds: the last moment; runs of each kind

ASSUME TrendsAssumption ==
    /\ {MinBasket, TimesOfDay} \subseteq Nat \ {0}
    /\ {PastDays, MaxNow, MaxRuns} \subseteq Nat
    /\ Harvests \subseteq SUBSET Group \ {{}}
    /\ Pasts \subseteq [1 .. PastDays -> SUBSET Group]
    /\ MaxNow > PastDays * TimesOfDay
    /\ IsFiniteSet(Group)

VARIABLES
    moment,    \* the present moment
    priceLog,  \* price_log: set of rows
    trends,    \* price_trends: set of points
    job,       \* the weekly run: idle | scraped | dates | page | count | write
    jobMade,   \* the moment it scraped
    toRead,    \* dates still to be paged
    page,      \* the page just read
    rows,      \* rows read so far
    present,   \* history: price_log when the rebuild began
    basis,     \* history: the rows the stored trends were computed from
    weekRuns,  \* weekly runs so far
    midweek    \* the midweek run: its step, moment and pinned date; runs so far

trendsVars == <<moment, priceLog, trends, job, jobMade, toRead, page, rows, present,
                basis, weekRuns, midweek>>
reading    == <<toRead, page, rows, present>>

DayOf(t)  == (t - 1) \div TimesOfDay + 1
TimeOf(t) == (t - 1) % TimesOfDay
LastDay   == DayOf(MaxNow)
NoPin     == 0

Row(p, date, made) ==
    [part |-> p, date |-> date, time |-> TimeOf(made), made |-> made]

On(R, d)      == {r \in R : r.date = d}
Basket(R, d)  == {r.part : r \in On(R, d)}
DatesOf(R)    == {r.date : r \in R}

TrendsInit ==
    \E past \in Pasts :
        LET log == {Row(pd[1], pd[2], pd[2] * TimesOfDay) :
                       pd \in {x \in Group \X (1 .. PastDays) : x[1] \in past[x[2]]}}
        IN /\ moment = PastDays * TimesOfDay + 1
           /\ priceLog = log
           /\ trends = {} /\ basis = {}
           /\ job = "idle" /\ jobMade = 1 /\ weekRuns = 0
           /\ toRead = {} /\ page = {} /\ rows = {} /\ present = {}
           /\ midweek = [step |-> "idle", made |-> 1, pin |-> NoPin, runs |-> 0]

Tick ==
    /\ moment < MaxNow
    /\ moment' = moment + 1
    /\ UNCHANGED <<priceLog, trends, job, jobMade, reading, basis, midweek, weekRuns>>

-----------------------------------------------------------------------------
(* The runs that log prices.                                               *)

\* scraped_at_now(): the pin replaces the date, not the time of day.
Stamped(seen, pin, made) ==
    {Row(p, IF pin = NoPin THEN DayOf(made) ELSE pin, made) : p \in seen}

MidweekStart ==
    /\ midweek.step = "idle" /\ midweek.runs < MaxRuns
    /\ midweek' = [step |-> "scraped", made |-> moment, runs |-> midweek.runs + 1,
                   pin |-> IF priceLog = {} THEN NoPin ELSE Max(DatesOf(priceLog))]
    /\ UNCHANGED <<moment, priceLog, trends, job, jobMade, reading, basis, weekRuns>>

MidweekUpsert(seen) ==
    /\ midweek.step = "scraped"
    /\ priceLog' = priceLog \cup Stamped(seen, midweek.pin, midweek.made)
    /\ midweek' = [midweek EXCEPT !.step = "idle", !.made = 1, !.pin = NoPin]
    /\ UNCHANGED <<moment, trends, job, jobMade, reading, basis, weekRuns>>

WeeklyStart ==
    /\ job = "idle" /\ weekRuns < MaxRuns
    /\ job' = "scraped" /\ jobMade' = moment /\ weekRuns' = weekRuns + 1
    /\ UNCHANGED <<moment, priceLog, trends, reading, basis, midweek>>

WeeklyUpsert(seen) ==
    /\ job = "scraped"
    /\ priceLog' = priceLog \cup Stamped(seen, NoPin, jobMade)
    /\ job' = "dates"
    /\ UNCHANGED <<moment, trends, jobMade, reading, basis, midweek, weekRuns>>

-----------------------------------------------------------------------------
(* _read_trend_source_rows(): one query for the dates, then two per date.  *)

\* The first query of the rebuild; with no date there is nothing to page.
ReadDates ==
    /\ job = "dates"
    /\ toRead' = DatesOf(priceLog)
    /\ rows' = {} /\ page' = {}
    /\ present' = priceLog
    /\ job' = IF priceLog = {} THEN "write" ELSE "page"
    /\ UNCHANGED <<moment, priceLog, trends, jobMade, basis, midweek, weekRuns>>

\* Mutant: the window orders the rows of a part the other way round.
EarliestPerPart(R) == {r \in R : ~\E q \in R : q.part = r.part /\ q.time < r.time}

\* ROW_NUMBER() OVER (PARTITION BY part_id ORDER BY scraped_at DESC) = 1.  Rows
\* of one part with the same stamp do not occur: the stamps have milliseconds.
LatestPerPart(R) ==
    {r \in R : ~\E q \in R : /\ q.part = r.part
                             /\ \/ q.time > r.time
                                \/ q.time = r.time /\ q.made > r.made}

\* The remote database may answer a large read with no rows and no error.
ReadPage ==
    /\ job = "page"
    /\ page' \in {LatestPerPart(On(priceLog, Min(toRead))), {}}
    /\ job' = "count"
    /\ UNCHANGED <<moment, priceLog, trends, jobMade, toRead, rows, present, basis, midweek, weekRuns>>

\* Mutant: the page is taken as it comes.
ShortReadAllowed(d) == FALSE

\* `len(page) != expected`, against the table as it is by then.
ShortRead(d) == Cardinality(page) # Cardinality(Basket(priceLog, d))

\* The rebuild returned, or raised: its rows are gone.
Over ==
    /\ job' = "idle" /\ jobMade' = 1
    /\ toRead' = {} /\ page' = {} /\ rows' = {} /\ present' = {}

\* The count query: a mismatch raises before anything is deleted.
CheckCount ==
    /\ job = "count"
    /\ LET d == Min(toRead)
       IN IF ShortRead(d)
          THEN Over
          ELSE /\ page' = {}
               /\ UNCHANGED <<jobMade, present>>
               /\ rows' = rows \cup page
               /\ toRead' = toRead \ {d}
               /\ job' = IF toRead = {d} THEN "write" ELSE "page"
    /\ UNCHANGED <<moment, priceLog, trends, basis, midweek, weekRuns>>

-----------------------------------------------------------------------------
(* rebuild_price_trends().                                                 *)

Big(S) == Cardinality(S) >= MinBasket

\* by_date[dates[i - 1]]: the series' own previous date.
Previous(R, d)  == Max({e \in DatesOf(R) : e < d})
Shared(R, d)    == Basket(R, Previous(R, d)) \cap Basket(R, d)

NotAnchored == [anchored |-> FALSE, level |-> {}]

\* Mutant: a date that cannot be measured leaves the level as it was.
GapKeepsLevel(before) == before

\* level = None
Gap(before) == [before EXCEPT !.level = {}]

\* The loop over the dates of the series: what it carries after each date.
Walk(R) ==
    LET after[d \in 0 .. LastDay] ==
        IF d = 0 THEN NotAnchored
        ELSE LET before == after[d - 1] IN
             IF d \notin DatesOf(R) THEN before
             ELSE IF ~before.anchored
             THEN IF Big(Basket(R, d)) THEN [anchored |-> TRUE, level |-> {d}]
                                       ELSE before
             ELSE IF Big(Shared(R, d))
             THEN [before EXCEPT !.level = @ \cup {d}]
             ELSE Gap(before)
    IN after

\* The point of date d: the parts on sale, the parts its level was measured on,
\* and the dates whose movements the level carries.
Point(R, d, level) ==
    [date |-> d, sample |-> Basket(R, d), level |-> level,
     used |-> IF \A e \in DatesOf(R) : e < d => ~Big(Basket(R, e))
              THEN Basket(R, d) ELSE Shared(R, d)]

Records(R) == LET after == Walk(R) IN
    {Point(R, d, after[d].level) : d \in {e \in DatesOf(R) : e \in after[e].level}}

\* DELETE and INSERT are one transaction, redone whole when it is lost.
WriteTrends ==
    /\ job = "write"
    /\ trends' = Records(rows)
    /\ basis' = rows
    /\ Over
    /\ UNCHANGED <<moment, priceLog, midweek, weekRuns>>

\* The job is killed, or a query raises.
JobDies ==
    /\ job # "idle"
    /\ Over
    /\ UNCHANGED <<moment, priceLog, trends, basis, midweek, weekRuns>>

\* No run is left to start.
TrendsDone ==
    /\ moment = MaxNow /\ weekRuns = MaxRuns /\ midweek.runs = MaxRuns
    /\ job = "idle" /\ midweek.step = "idle"
    /\ UNCHANGED trendsVars

TrendsNext ==
    \/ Tick
    \/ MidweekStart \/ WeeklyStart
    \/ \E seen \in Harvests : MidweekUpsert(seen) \/ WeeklyUpsert(seen)
    \/ ReadDates \/ ReadPage \/ CheckCount \/ WriteTrends \/ JobDies
    \/ TrendsDone

TrendsSpec == TrendsInit /\ [][TrendsNext]_trendsVars

-----------------------------------------------------------------------------
(* Properties.                                                             *)

\* The table is about to be deleted and rewritten only from a read that holds
\* every part of every date that price_log had when the rebuild began, however
\* many of its pages came back empty and whatever other runs logged meanwhile.
RebuildLosesNothing ==
    job = "write" =>
        \A r \in present : \E q \in rows : q.part = r.part /\ q.date = r.date

\* "Keep only its latest row": of a part scraped again on the same day (a retry
\* after a partial run) the trends never show a price scraped earlier than one
\* that was really scraped on that date.
RetryPriceCounts ==
    job = "write" =>
        \A r \in present, q \in rows :
            r.part = q.part /\ r.date = q.date /\ DayOf(r.made) = r.date
                => q.made >= r.made

\* Where a point is due, said without the loop: at the first date with enough
\* parts, and after it at every date that shares enough parts with the date of
\* the series before it.
Due(R, d) ==
    /\ d \in DatesOf(R)
    /\ IF \A e \in DatesOf(R) : e < d => ~Big(Basket(R, e))
       THEN Big(Basket(R, d)) ELSE Big(Shared(R, d))

\* No published index carries a movement that was not measured: the stored
\* series has a point exactly where one is due, and its level goes back over
\* the unbroken run of due dates before it, never across a gap.
LevelsAreMeasured ==
    trends = {Point(basis, d, {e \in DatesOf(basis) : e <= d /\
                                  \A f \in DatesOf(basis) : e <= f /\ f <= d
                                                               => Due(basis, f)}) :
                 d \in {e \in DatesOf(basis) : Due(basis, e)}}

\* "Pinned, its prices still go live at once and fold into the current weekly
\* point": the price a trend is computed from is the last one scraped for that
\* date.  (Violated: README.)
PinnedPricesFoldIn ==
    job = "write" =>
        \A r \in present, q \in rows :
            r.part = q.part /\ r.date = q.date => q.made >= r.made

=============================================================================
