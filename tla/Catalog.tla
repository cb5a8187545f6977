------------------------------- MODULE Catalog -------------------------------
(***************************************************************************)
(* The parts side of the catalogue: whole runs of run_all.main() against   *)
(* one database.  Each run pins its trend date, harvests its sources,      *)
(* upserts, sweeps and records source by source, and refreshes the stored  *)
(* row count.  Runs may overlap (the weekly job, a heal rerun and a local  *)
(* run are not kept apart) and may be killed between any two steps.        *)
(*                                                                         *)
(* upsert_products() and one source's sweep are one transaction each: see  *)
(* AtomicStore.  A part is what one product page becomes; a price is known *)
(* by the run that logged it.  What a source's harvest holds, and whether  *)
(* run_source() trusts it, is free here: see Harvest.                      *)
(***************************************************************************)
EXTENDS Naturals, Sequences, FiniteSets

CONSTANTS Parts, SourceOf,  \* SourceOf[p]: the part's source
          SourceSets,       \* what a run can be asked for, in SCRAPERS order
          Harvests,         \* <<parts seen, sources trusted>>: a run's outcome
          Pasts,            \* <<parts known, parts listed>>: what was there before
          MaxRuns, MaxDays, MaxCrashes   \* bounds

Sources == {SourceOf[p] : p \in Parts}
Runs    == 1 .. MaxRuns

ASSUME CatalogAssumption ==
    /\ {MaxRuns, MaxDays, MaxCrashes} \subseteq Nat
    /\ \A q \in SourceSets : q \in Seq(Sources) /\ q # <<>>
    /\ Harvests \subseteq (SUBSET Parts) \X (SUBSET Sources)
    /\ \A h \in Pasts : h[2] \subseteq h[1] /\ h[1] \subseteq Parts

NoDate == 0

VARIABLES
    active,      \* parts that are listed
    latest,      \* the run whose price a part shows; 0: there is no such part
    log,         \* price_log: <<part, date, run>>
    health,      \* the latest scrape_runs row of a source
    storedCount, \* app_meta: price_log_rows
    today,       \* the UTC date
    runs,        \* the runs, in the order they were started
    crashes

db   == <<active, latest, log, health, storedCount>>
vars == <<db, today, runs, crashes>>

PartsOf(s) == {p \in Parts : SourceOf[p] = s}
Started    == DOMAIN runs
Live(r)    == runs[r].pc \notin {"done", "crashed"}

NoRow == [run |-> 0, ok |-> FALSE]

\* All the runs before the ones modelled, as one: it left the parts it knew.
Earlier(known) ==
    [pc |-> "done", weekly |-> TRUE, srcs |-> <<>>, i |-> 1, asOf |-> NoDate,
     from |-> 1, till |-> 1, onEmpty |-> TRUE, seen |-> known, ok |-> {},
     stored |-> TRUE, count |-> 0, alone |-> FALSE]

Init ==
    \E past \in Pasts :
        /\ active = past[2]
        /\ latest = [p \in Parts |-> IF p \in past[1] THEN 1 ELSE 0]
        /\ log = {<<p, 1, 1>> : p \in past[1]}
        /\ storedCount = Cardinality(past[1])
        /\ health = [s \in Sources |-> IF past[1] \cap PartsOf(s) = {} THEN NoRow
                                       ELSE [run |-> 1, ok |-> TRUE]]
        /\ today = 1 /\ runs = <<Earlier(past[1])>> /\ crashes = 0

-----------------------------------------------------------------------------
(* run_all.main(), step by step.                                           *)

Dates == {row[2] : row \in log}

LatestDate == IF log = {} THEN NoDate
              ELSE CHOOSE d \in Dates : \A e \in Dates : e <= d

\* Mutant: a midweek run stamps its rows with its own date.
PinNothing(weekly) == NoDate

\* pin_trend_bucket(): the date every row of the run is stamped with, if any.
PinnedDate(weekly) == IF weekly THEN NoDate ELSE LatestDate

Start(weekly, srcs) ==
    /\ Len(runs) < MaxRuns
    /\ runs' = Append(
          [r \in Started |-> [runs[r] EXCEPT !.alone = @ /\ ~Live(r)]],
          [pc |-> "scrape", weekly |-> weekly, srcs |-> srcs, i |-> 1,
           asOf |-> PinnedDate(weekly), from |-> today, till |-> today, onEmpty |-> (log = {}),
           seen |-> {}, ok |-> {}, stored |-> FALSE, count |-> 0,
           alone |-> \A r \in Started : ~Live(r)])
    /\ UNCHANGED <<db, today, crashes>>

SrcSet(r) == {runs[r].srcs[k] : k \in DOMAIN runs[r].srcs}

\* run_sources(): what the harvests yielded, and which of them are trusted.
\* A run that saw and trusted nothing may have had no product at all; it then
\* has only failures to record.
Scrape(r, h) ==
    /\ runs[r].pc = "scrape"
    /\ LET seen == {p \in h[1] : SourceOf[p] \in SrcSet(r)}
           ok   == h[2] \cap SrcSet(r)
       IN \E pc \in {"upsert", "failed"} :
             /\ pc = "failed" => seen = {} /\ ok = {}
             /\ runs' = [runs EXCEPT ![r].pc = pc, ![r].seen = seen, ![r].ok = ok,
                                       ![r].till = today]
    /\ UNCHANGED <<db, today, crashes>>

\* Without a pin a row carries the date on which its page was read.
Stamps(r) == IF runs[r].asOf # NoDate THEN {runs[r].asOf}
             ELSE runs[r].from .. runs[r].till

\* Mutant: a part that comes back keeps its delisted mark.
RelistedNew(seen) == active \cup {p \in seen : latest[p] = 0}

Relisted(seen) == active \cup seen

\* upsert_products().
Upsert(r) ==
    /\ runs[r].pc = "upsert"
    /\ active' = Relisted(runs[r].seen)
    /\ latest' = [p \in Parts |-> IF p \in runs[r].seen THEN r ELSE latest[p]]
    /\ \E stamp \in [SrcSet(r) -> Stamps(r)] :
          log' = log \cup {<<p, stamp[SourceOf[p]], r>> : p \in runs[r].seen}
    /\ runs' = [runs EXCEPT ![r].pc = "sweep", ![r].stored = TRUE]
    /\ UNCHANGED <<health, storedCount, today, crashes>>

\* Mutant: one source too many.
LastSourceLate(r) == runs[r].i > Len(runs[r].srcs)

LastSource(r) == runs[r].i = Len(runs[r].srcs)

\* The loops over `runs` in main(): on to the next source, or to step `then`.
Advance(r, then) ==
    runs' = [runs EXCEPT
        ![r].pc = IF LastSource(r) THEN then ELSE @,
        ![r].i  = IF LastSource(r) THEN 1 ELSE @ + 1]

\* Mutant: the sweep does not wait for a trusted harvest.
SweepsAny(r, s) == TRUE

\* `if r["ok"]`; deactivate_unseen_parts() itself needs one part seen.
Sweeps(r, s) == s \in runs[r].ok

SweptBy(r, s) ==
    IF Sweeps(r, s) /\ runs[r].seen \cap PartsOf(s) # {}
    THEN PartsOf(s) \ runs[r].seen ELSE {}

Sweep(r) ==
    /\ runs[r].pc = "sweep"
    /\ active' = active \ SweptBy(r, runs[r].srcs[runs[r].i])
    /\ Advance(r, "record")
    /\ UNCHANGED <<latest, log, health, storedCount, today, crashes>>

\* record_scrape_run(), also for the runs that brought nothing.
Record(r) ==
    /\ runs[r].pc \in {"record", "failed"}
    /\ LET s == runs[r].srcs[runs[r].i]
       IN health' = [health EXCEPT ![s] = [run |-> r, ok |-> s \in runs[r].ok]]
    /\ Advance(r, IF runs[r].pc = "failed" THEN "done" ELSE "count")
    /\ UNCHANGED <<active, latest, log, storedCount, today, crashes>>

\* refresh_price_log_count() counts first and stores the number after.
CountRows(r) ==
    /\ runs[r].pc = "count"
    /\ runs' = [runs EXCEPT ![r].pc = "store", ![r].count = Cardinality(log)]
    /\ UNCHANGED <<db, today, crashes>>

StoreCount(r) ==
    /\ runs[r].pc = "store"
    /\ storedCount' = runs[r].count
    /\ runs' = [runs EXCEPT ![r].pc = "done", ![r].count = 0]
    /\ UNCHANGED <<active, latest, log, health, today, crashes>>

\* The job is cancelled or times out, or a database call raises.
Crash(r) ==
    /\ Live(r) /\ crashes < MaxCrashes
    /\ crashes' = crashes + 1
    /\ runs' = [runs EXCEPT ![r].pc = "crashed"]
    /\ UNCHANGED <<db, today>>

Midnight ==
    /\ today < MaxDays
    /\ today' = today + 1
    /\ UNCHANGED <<db, runs, crashes>>

Quiet == Len(runs) = MaxRuns /\ \A r \in Started : ~Live(r)

Finished == Quiet /\ UNCHANGED vars

Next ==
    \/ \E weekly \in BOOLEAN, srcs \in SourceSets : Start(weekly, srcs)
    \/ \E r \in Started :
          \/ \E h \in Harvests : Scrape(r, h)
          \/ Upsert(r) \/ Sweep(r) \/ Record(r)
          \/ CountRows(r) \/ StoreCount(r) \/ Crash(r)
    \/ Midnight \/ Finished

Spec == Init /\ [][Next]_vars

-----------------------------------------------------------------------------
(* Properties.                                                             *)

\* Every variable stays in its type: listed parts exist, log rows are those of
\* runs that stored them, and a run's place is one of its own sources.
TypeOK ==
    /\ active \subseteq {p \in Parts : latest[p] # 0}
    /\ latest \in [Parts -> {0} \cup Started]
    /\ \A row \in log : runs[row[3]].stored /\ row[2] <= today
    /\ health \in [Sources -> [run : {0} \cup Started, ok : BOOLEAN]]
    /\ \A r \in Started : Live(r) => runs[r].i \in DOMAIN runs[r].srcs

\* However runs overlap and wherever they die, a part leaves the site only
\* because a trusted harvest of its source, one that did see other parts of it
\* and has stored them, did not see this one: never because a scrape failed,
\* was partial or yielded nothing.
DelistedWasMissed ==
    [][\A p \in active \ active' : \E r \in Started :
          /\ runs[r].stored /\ SourceOf[p] \in runs[r].ok
          /\ p \notin runs[r].seen
          /\ \E q \in runs[r].seen : SourceOf[q] = SourceOf[p]]_vars

\* "A retailer's listing should be entirely from one run": a run that nobody
\* overlapped leaves each source it was trusted for listing just what it saw,
\* at its own prices, its outcomes as the latest ones, and the stored row
\* count true, whatever killed or untrusted runs left behind before it.
SoloRunSettles ==
    \A r \in Started :
        r = Len(runs) /\ runs[r].alone /\ runs[r].pc = "done" /\ runs[r].stored =>
            /\ storedCount = Cardinality(log)
            /\ \A s \in SrcSet(r) : health[s] = [run |-> r, ok |-> s \in runs[r].ok]
            /\ \A s \in runs[r].ok :
                  LET mine == runs[r].seen \cap PartsOf(s)
                  IN mine # {} => /\ active \cap PartsOf(s) = mine
                                  /\ \A p \in mine : latest[p] = r

\* "A midweek run can't add a stray point": every date in the log was opened
\* by a weekly run while it was running, or by a run that found no prices.
NoStrayDate ==
    \A row \in log : \E r \in Started :
        /\ runs[r].weekly \/ runs[r].onEmpty
        /\ runs[r].stored /\ row[2] \in runs[r].from .. runs[r].till

\* "0 = not seen in last successful scrape of its source": when all runs are
\* over, a part that the last trusted run of its source saw is listed.
LastScrapeDecides ==
    Quiet => \A p \in Parts, r \in Started :
        /\ runs[r].pc = "done" /\ SourceOf[p] \in runs[r].ok /\ p \in runs[r].seen
        /\ \A q \in Started : q > r => SourceOf[p] \notin runs[q].ok
        => p \in active

=============================================================================
