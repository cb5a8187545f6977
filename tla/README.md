# rigpk-backend: TLA+ models, model checking and proofs

rigpk-backend scrapes PC-part shops into one SQL database (SQLite locally, a
remote libSQL database in production), and serves it over a small HTTP API. The
specifications here are translated from that code. They cover the places where
threads, retries, lost connections, partial failures and overlapping jobs meet
the data, and leave HTML, text classification and formatting alone.

Contents: [parts of the system](#the-system-and-its-parts) ·
[modules](#modules) · [runs](#runs) · [fairness](#fairness) ·
[proofs](#proofs) · [divergences](#where-code-and-documentation-disagree) ·
[what is left out](#what-is-not-modelled) · [plan](#plan)

## The system and its parts

```
 shops --HTTP--> walks --> run_source --ok?--> run_all.main --+
            (breaker, lock)  one thread/source   upsert, sweep |
                                                 record, trends v
                                                 libSQL adapter --> database
 browser --HTTP--> routers --> ThreadSafeDatabase ----^
                            (one owner thread)
```

| Part | State | Operations | How it meets the others | What is hard | What makes it correct |
|---|---|---|---|---|---|
| **Request-path owner** `backend/deps.py` | current executor, its queue, per-thread connection, abandoned owners | `_run`, the bounded task, `_replace_owner`, `close` | routers call it from worker threads; its one thread owns the connection | deadlines against late answers, a swap under other callers, retry of a write | `_run` commits a write at most once; an answer is true of the call's own tasks; the serving owner stays open and connected; wedged calls do not wedge the API |
| **libSQL adapter** `db/libsql_adapter.py`, `Database._transact` | connection and its server-side stream, `_in_transaction`, consumed rows | execute, fetch, commit, rollback, `with` block, reconnect | every `Database` method goes through it | a stream lost in a transaction, an acknowledgement lost, nested retry loops | units of work are atomic, are not doubled, end |
| **Catalogue writes** `db/database.py` | `parts`, `price_log`, `scrape_runs`, `app_meta`, ids seen by the last upsert | `upsert_products`, `deactivate_unseen_parts`, `record_scrape_run`, `refresh_price_log_count` | called by `run_all.main` only, but by several jobs at once | kills between the steps, two jobs overlapping, partial harvests | nothing is delisted without a trusted scrape that missed it |
| **Scraper runtime** `scrapers/base_scraper.py` | per host: 403 and 429 counts, blocked, lock, last request | `fetch`, `host_blocked` | every walk fetches through it | retry tiers, a host that starts refusing while threads queue for it | one request at a time; a blocked host is reported and no longer asked; every fetch returns |
| **Harvest** walks of `listing_scraper.py`, `woo/base.py`, `pakbyte`, `junaidtech`; wrappers and `run_source` of `run_all.py` | page, failures in a row, skipped flag, products, incomplete categories | the walk of a category, the loop over categories, the verdict `ok` | `ok` decides about the sweep | telling "the shop has less" from "we saw less" | `ok` means seen completely |
| **Orchestration** `run_all.main`, `health.py` | runs, trend date, before/after counts | pin, pool, write phase, verdict | starts the walks, then writes | order of steps, kills, losses a wrapper swallows | a run alone settles the listing; an emptied category turns `--strict` red |
| **Price trends** | `price_trends` | `rebuild_price_trends` | reads what the upserts of all runs wrote | reads split by date, silent short reads, gaps in a series | never rebuilt from a short read; no movement is carried over a gap |
| **Shared builds, share rate** `backend/routers/builds.py` | `shared_builds`, in-memory hits | create, resolve, limit | through the owner | concurrent requests on a plain dict, scrapes between two calls | nobody is refused for others; a code brings back what was shared |
| **Read API** `parts.py`, `prebuilts.py`, `trends.py` | one-hour stats snapshot | queries | through the owner | a snapshot whose queries overlap a scrape | no answer is older than the cache may be |
| **Schema and migrations** | columns, applied-once set | `_apply_schema`, `_migrate`, guard | every opener | two openers at once, cut off anywhere | its owner finds the schema migrated; of racing openers one wins |
| **Prebuilt PCs** `run_prebuilts.py`, `zestro`, `redtech`, `techmatched` | `prebuilts`; links, products, failures in a row | scrape, upsert, sweep, record per source | same adapter, same `fetch` | page failures and blocks in three different walks | only a product that is gone is delisted |
| **Heal loop** `.github/workflows` | jobs, branches | heal, rerun | a rerun is one more scrape run | overlap with the weekly job | one heal at a time |
| Spec extraction, page parsers, operator scripts | none | pure functions | | | text |

`PROJECT.json` lists the same parts with their status, and under `hazards` every
place where this code can go wrong in a way a test would hardly reach, with the
property that watches it or the reason none does yet.

## Modules

| Module | Models | Correspondence |
|---|---|---|
| `DbOwner` | `ThreadSafeDatabase` | One action per step between two points where another thread can run: reading the executor under the lock, `submit`, each way `future.result()` can end, the swap under the lock, the shutdown after it, the join, the retry; the owner thread's start, connect, the write, its commit, the `finally`, the resolution of the future, the thread's end; `close()`. What a connection has written and not committed is `pending`: a body that fails leaves it there, and the next commit on that connection stores it. An executor is named by the call that created it, since `_run` swaps at most once per call. |
| `AtomicStore` | what callers of the write methods rely on | Abstract specification: a unit is applied whole or not, at most once unless written to be redone, and is stored when its call returns normally. |
| `LibsqlConn` | `_Cursor._run`, `commit`, `rollback`, `__enter__/__exit__`, `_transact` | A unit of work is a sequence of reads, writes and swallowed writes with its way of delimiting a transaction. One action per outcome of one request (answered, never reached the server, ambiguous, stream lost, SQL error), the server's forgetting of a stream, and the process's death. |
| `LibsqlFetch` | `_Cursor._fetch` | Rows are pulled one fetch at a time; streams are numbered, and the raw cursor a fetch has captured is kept apart from the wrapper's current one. |
| `Harvest` | `fetch()` as a walk meets it, the four walks, `run_czone`/`run_catalog`/`run_junaid`, `run_source` | One action per page outcome. The shop is a sequence of pages of cards, some sold out. A fetch stands for its retry loop: body, 404, 403, exhausted 429, exhausted other failure. |
| `Catalog` | `run_all.main` and the catalogue writes, for several runs | One action per step that reads or writes the database: pin and start, harvest, upsert, one sweep per source, one record per source, count, store the count; a kill anywhere; midnight. |
| `HostGate` | `fetch()` from the inside, for several threads of one host | One action per step between which another thread can run: the look at `blocked`, the lock, the second look, the request, each answer. `Harvest` and `Prebuilts` take a whole fetch for one step. |
| `Prebuilts` | `run_prebuilts.main`, the three `scrape_all()` | One action per page outcome, then write, sweep and record. A shop is a list of categories, each a sequence of pages of links, and what it answers past the last one (nothing, that page again, a 404). |
| `Trends` | `_read_trend_source_rows`, `rebuild_price_trends`, the stamps and the pin, against runs that log prices | One action per query: the dates, each page, each count, then the write. The walk over the dates of a series is a recursive function of the rows read. |
| `SchemaMigrate` | `_remote_migration_mode`, `_apply_schema`, `_migrate`, `_migrate_quarantine_dedup`, for several processes | One action per `PRAGMA`, per `ALTER`, for the backfill (which opens the transaction), each of the dedup's two `SELECT`s, its `UPDATE` with the `DELETE`, the index, the commit; cut off or killed anywhere. |
| `ShareRate` | `_check_rate` in worker threads | One action per step between which another thread can run: the clock, each key of the sweep's scan, each deletion, reading the hits, storing them. |
| `ShareBuild` | `share_build`, `resolve_part_status`, `create_shared_build`, `resolve_shared_build` | One action per marshaled call; a scrape may reprice or delist a part between two of them. |
| `Stats` | `get_stats`, `Database.stats`, `price_log_count`, `source_health`, the count a scrape stores | One action per query, since a scrape may write between two; one request at a time has the owner thread. |
| `DbOwnerProofs`, `LibsqlProofs` (`LibsqlConn`, `LibsqlFetch`), `HarvestProofs` (`Harvest`, `Prebuilts`, `HostGate`), `CatalogProofs`, `TrendsProofs`, `SchemaProofs`, `ApiProofs` (`Stats`, `ShareBuild`, `ShareRate`) | | Theorems, see [proofs](#proofs). |
| `Counting` | | Lemmas about numbers, counts and sums that several of these need. |
| `MCLibsqlConn`, `MCHarvest`, `MCCatalog`, `MCService` | | Constants for TLC, and the sums below. |

How they fit: `LibsqlConn` is shown to implement `AtomicStore`, and that is what
lets `Catalog` take an upsert or a sweep as one step. It does not let `DbOwner` take
a task as one commit: `AtomicStore` allows that a unit which failed is stored later,
by the commit of another one, and knows nothing of `_run`'s second submission. So
`DbOwner` has the write, the commit and what is pending between them itself.
`Harvest` says which outcomes of a source are trusted; `Catalog`
takes any outcome and says what trust is then worth. `HostGate` is what lets the
walks of `Harvest` and `Prebuilts` take a fetch as one step, `DbOwner` what lets
`Stats` and `ShareBuild` take a call as a sequence no other call enters.

Modules that share no variable are checked in one run where that costs less than
two: the MC module's `part` says which of them runs, and the others stay where
they began. The next-state relation is the disjunction of theirs, no variable of
one is read by another, and so no interleaving is lost: what holds in the sum
holds in each part. So it is with `Harvest`, `Prebuilts` and `HostGate`
(`MCHarvest`), `ShareRate`, `ShareBuild`, `Stats`, `Trends` and `SchemaMigrate`
(`MCService`), and `LibsqlConn` and `LibsqlFetch` (`MCLibsqlConn`).

Assumptions made in translation, each where it matters:

- `DbOwner`: a call is one write, then its commit, and a body that fails rolls
  nothing back, which is how `create_shared_build` is written. The next statement
  on a connection may find that the server has dropped its stream, and what was
  pending with it. A statement may never be answered. The deadline is the caller's choice to stop waiting at any moment.
- `LibsqlConn`: the statement-level retry tiers are taken from the marker lists,
  as what each marker says of the server, not from strings. Implicit units do
  not read after they write (`ImplicitUnitsReadFirst`), a unit whose failure the
  process survives holds one write (`SurvivedUnitsWriteOnce`: those of the API),
  and the swallowed quarantine write comes after all else of its unit
  (`NotesComeLast`): it is how the methods of `Database` are written. Without
  any of the three `NoTornUnit` is false, as TLC shows.
- `Harvest`: a shop's stock is fixed while it is walked. A 404 past page 1 means
  there is no such page. No listing without a total has as many sold-out pages
  in a row as `MAX_SKIPPED_PAGES`, at which the code gives up on purpose, not even
  where its last page is shown again until the page cap. Four `ASSUME`s over
  `Shelves` say what a shelf is: pages that end before the cap
  (`PagesAssumption`), filled one after the other (`FullPagesAssumption`), and
  the two about sold-out pages (`SoldOutRunsAssumption`,
  `SoldOutEndsAssumption`). A 200
  that is no page of the shop is possible (`ListingChallenge`,
  `JunaidEmptyAnswer`, and the non-list bodies that the JSON walks refuse).
- `Harvest`, verdict: the shop holds what it held at the last run, so that every
  drop is the walk's doing. The strict verdict is judged for one source.
- `HostGate`: `urlopen` answers or fails in bounded time, as its timeouts and the
  read deadline see to. Pauses are left out: a thread that sleeps takes no step.
- `Prebuilts`: a shop does not change during its walk; only techmatched has
  several categories; `redtech` reads on wherever its page has the word "next",
  which the last page may have too. A walk stops at a page without a new
  link, whatever comes after it; the history variable `overlooked` keeps that, as it
  keeps a failed page.
- `Trends`: one group of parts; stamps of one part differ (they have
  fractions of a second); weekly runs are one concurrency group and do not overlap.
- `SchemaMigrate`: a statement outside a transaction commits by itself; DDL does
  not open a transaction and the first `UPDATE` does, which holds the database's
  one write lock until the commit. A wait for it that is too long is a failure.
  One (source, url) may have duplicates; the dedup's `SELECT`s take no lock, so that
  only the backfill's transaction keeps others out between them and the `UPDATE`.
  There are tables after the backfill, the quarantine last, and none of their
  columns is one of a table before it (`SchemaAssumption`).
- `ShareRate`: each operation on the dict is atomic (the interpreter's lock), and
  a thread can be switched between any two. The sweep's list comprehension is
  one step per key.
- `ShareBuild`: slots are well formed and the rate limit was passed.
- `Stats`: an upsert with its run records is one step and one row; the database
  may refuse the API's write of the count.
- `Catalog`: `Pasts` gives what earlier runs left, as one finished run; a
  transaction is atomic (`AtomicStore`), rejected and duplicate products are
  simply not seen, prices are known by the run that logged them,
  and the weekly rebuild of the trends between recording and counting changes
  none of the state modelled. An exception out of a database call ends the
  process and is a kill.

## Runs

| Run | Question | Result and bounds |
|---|---|---|
| `dbowner_calls` | Can interleaved calls, deadlines, swaps, hanging bodies, failed commits and `close()` make `_run` double a write, lie to a handler about the call's own tasks, leave a closed owner current, or close the serving connection? Does a wedged call stop blocking, do calls return, are abandoned connections closed? | Holds, with the fairness below. Two calls: every pair of a timeout or rebuild with another caller needs two, a write left pending needs another call to commit it, and an executor exists per call. The proofs cover any number. |
| `dbowner_double` | Is a call's write stored at most once, whoever commits it? | Violated, see below. The constants of `dbowner_calls`. |
| `dbowner_hang` | "Bounded": does every call return though the network hangs? | Violated, see below. |
| `libsql_units` | Are units atomic, undoubled, and finished, whatever the transport does? Refinement of `AtomicStore`. Are rows repeated or skipped, a write run again, a block continued elsewhere? | Holds. The scraper's three units or the API's three, real `_MAX_ATTEMPTS` (4) and `_transact` attempts (3), any number of lost streams. Two writes per unit are enough to tear one. For the fetch: two rows, the real attempt bound, three lost streams. |
| `libsql_lost_upsert` | Is a unit reported done stored, when a swallowed write lost the stream? | Violated, see below. |
| `fetch_loss` | Is one lost stream survived by a SELECT, as documented? | Violated, see below. |
| `harvest_run` | What can `ok` hide? | Holds outside the listed swallowed losses. Two categories (one can be lost while the other makes the source non-empty), up to three pages of two cards, real limits of failures in a row (3), 403s (3) and 429s (2); page cap 4 for 200 and sold-out pages 3 for 10, which keeps both reachable or just out of reach as assumed above; the verdict's floors are 1 and 3 products, so that small categories are judged. Prebuilts: redtech alone, and techmatched then zestro, so that a source follows another; up to four pages and two overlapping categories, one pair with a page that only repeats what was seen, nothing or a half-stale listing before, all three ways to end a listing; real three failures in a row, page cap 3 for 50 and 10, so that one shop does not fit it. Fetch: three threads (one holds the lock, two queue when the breaker trips), two fetches each, two attempts for 4, real limits of 3 and 2. |
| `prebuilts_seen` | Does a prebuilt source that is swept list all that its shop offers? | Violated, see below. |
| `harvest_junaid` | Does `ok` mean the source was seen completely? | Violated, see below. |
| `catalog_runs` | What do overlapping and killed runs leave behind? | Holds. Two runs (a third, `Earlier`, stands for everything before them: a new database, or one in which a part was delisted, so that relisting happens) over a source of two parts and one of one, one kill, one midnight, a choice of harvests with each combination of trusted, cut short, rejected and failed. Two runs are the least that overlap; a run after a killed one is the recovery. |
| `catalog_overlap` | Does the last successful scrape decide what is listed? | Violated, see below. |
| `service` | Does the share limit refuse the wrong client or forget one? Does a code bring back its build? How old can the stats be? Can trends be rebuilt from less than the log, or carry a movement nobody measured? Can openers of the database lose the schema, each other or a rejection? | Holds, for the schema and the rejections but for a stream lost at the dedup's `SELECT`s. Two workers, two clients (symmetric), limit 2 per 2 ticks, a sweep every 3, four checks in six ticks: the window slides, keys go stale and two sweeps meet. Two requests, two codes, two draws, four shapes of a build and two scrapes: codes collide and run out. Two visitors, cache of two ticks, one new state of the tables: the second visitor overlaps the first one's queries and finds the cache in every age. Three parts with baskets of two, three past dates with full, thin and disjoint baskets, two weekly and two midweek runs until the end of the fourth day, with two times a day: a gap, a re-anchor and a page read while a run logs all occur. Two processes, one opening up to twice in every mode; three tables before and after the backfill with every subset of their columns missing; one fault. Two openers are the least that race; the fault is what one of them resumes from. |

Every passing property has a mutant: a change of one definition that a
plausible bug in that code would be, named in `PROJECT.json`, under which TLC
finds the property violated. The mutant operators stand next to the definitions
they replace.

`CHECK_DEADLOCK FALSE` is set for the libSQL modules: a process that has ended, or
a fetch that has raised or handed out its last row, has nothing left to do. The
other modules end in an explicit stuttering action or go on for ever.

## Fairness

- `DbOwner!Scheduling`: weak fairness of each owner thread, of the resolution of
  futures, and of each caller. Operating system threads are scheduled, and a
  deadline passes. The body of a task has none: a request can hang for ever,
  which is why the class exists. `ReadExecutor` and `Close` have none either:
  nobody must call the API, or end it.
- `DbOwner!NetworkAnswers` is a premise of `AnsweredCallsReturn` and of
  `AbandonedConnectionIsReleased`, not an assumption of the specification: if
  every statement is answered, then calls return and the connections of replaced
  owners are released.
- `HostGate!GateFairness`: weak fairness of each thread that is inside `fetch()`;
  none for beginning one. Weak fairness of taking the lock is enough, because
  the threads that could overtake make a bounded number of fetches.
- `LibsqlConn!LiveSpec`: a running process goes on with its unit, and each
  request has one of the outcomes modelled. Lost streams are not limited by
  fairness, only by the retry counts of the code.

## Proofs

Every invariant and every action property that a run checks is also a theorem,
for every value of the constants that satisfies the modules' `ASSUME`s: any
number of calls, threads, processes, runs, sources, parts, pages, rows and units,
any limit, any depth of the bounds. The bounds of the models (`MaxRuns`,
`MaxFetches`, `MaxFaults` ...) are constants like the others, so that the theorems
hold for all of them, that is for behaviours of any length.

| Module | Theorem | Property |
|---|---|---|
| `DbOwnerProofs` | `TypeCorrect`, `DoubledByAnotherCommit`, `AnswersBindTheirTasks`, `CurrentOwnerIsOpen`, `ServingOwnerKeepsItsConnection` | `TypeOK`, `DoubledOnlyByOthers`, `AnswerBindsOwnTasks`, `CurrentOwnerAccepts`, `LiveOwnerKeepsItsConnection` |
| `LibsqlProofs` | `ConnTypes`, `UnitsAreWhole`, `UnitsAreStoredOnce`, `FlagIsCleared` | `TypeOK`, `NoTornUnit`, `AppendOnce`, `FlagOnlyInsideBlock` |
| | `AdapterImplementsStore`, `OkIsStored` | `ImplementsAtomicStore` (the refinement of `AtomicStore`), `OkMeansStored`, both where `NothingSwallowed` |
| | `RowsComeInOrder`, `WritesAreNotRepeated`, `BlocksKeepTheirStream` | `RowsAreAPrefix`, `WriteRunsOnce`, `BlockStaysOnItsStream` |
| `HarvestProofs` | `HarvestTyped`, `SweepGateHolds`, `BlocksAreReported`, `TrueAnswersGiveTheShop`, `LostCategoryIsRed` | `TypeOK`, `OkHasNoOtherHole`, `BlockedIsNotOk`, `HealthyShopIsOk`, `EmptiedCategoryIsRed` |
| | `TruthfulShopsSettle`, `OnlyTheGoneAreSwept` | `TruthfulShopSettles`, `SweepTakesOnlyTheGone` |
| | `BlockedHostStaysAlone` | `BlockedHostIsLeftAlone` |
| `CatalogProofs` | `CatalogTypes`, `NoStrayDates`, `SoloRunsSettle`, `DelistedOnlyWhenMissed` | `TypeOK`, `NoStrayDate`, `SoloRunSettles`, `DelistedWasMissed` |
| `TrendsProofs` | `RebuildsLoseNothing`, `RetryPricesCount`, `LevelsMeasured` | `RebuildLosesNothing`, `RetryPriceCounts`, `LevelsAreMeasured` |
| `SchemaProofs` | `OwnersFindTheSchema`, `RejectionsCount`, `RacesHaveAWinner` | `OwnerFindsSchema`, `RejectionsAreKept`, `RaceHasAWinner` |
| `ApiProofs` | `StatsAreFresh`, `CodesBringBuildsBack`, `RefusalsAreEarned`, `CapHoldsAlone` | `ServedIsFresh`, `SharedBuildComesBack`, `RefusedHadTheirShare`, `CapHoldsInOrder` |

None of these properties is inductive. Each proof module states an inductive
invariant as a conjunction of named parts, shows it initial, shows action by
action that it is preserved (lemmas `...Step`), and draws the properties from it.
What the parts are for:

- `DbOwnerProofs`. `QueueInv`: what waits in a queue is queued there, once;
  without it `Start` could run a task twice. `CallerInv`: where a caller stands
  bounds what its tasks can do, and the retry exists only after the first
  attempt ended `transient`. `CommitInv`: what is pending or stored was executed,
  and a verdict that says "not stored" is false only where another task's commit
  stored the write (`carried`). With `CallerInv` this gives `DoubledOnlyByOthers`
  and `AnswerBindsOwnTasks`. That a write is stored at most once is no theorem:
  it is false (`dbowner_double`).
  `OwnerInv`: a call that has not swapped
  has created no executor, so that a swap installs one nobody has shut down.
- `LibsqlProofs`. A commit of one unit commits whatever else the open transaction
  holds. So the invariant speaks of the transaction as well as of the database:
  what it holds of a unit that is over is all of it or nothing (`WholeInv`), of
  the unit under way the writes passed so far or nothing (`BodyInv`), and
  what has not been executed has left no trace (`UntouchedInv`). For the fetch:
  where the cursor stands behind the rows handed out (`CursorInv`).
- The refinement maps the stored content of a unit to the abstract store. Its
  steps are the commits; everything else stutters. `NothingSwallowed` says that
  no unit swallows the failure of a write: with the quarantine write it is false,
  which is the finding of `libsql_lost_upsert`, and the proof shows that it is
  the only way to it.
- `HarvestProofs`. `WalkInv`: a walk without a skipped page has found all there is
  on the pages before this one, and its two counters are those pages' counts,
  from which `CountedOut` concludes that the total of page 1 ends a walk only
  when everything was seen. `KeptInv`: what is behind the wrapper was seen,
  reported, or lost in one of the swallowed ways. For prebuilts, `LinkInv` and
  `ResultInv` say the same of links and products, and `CutInv` that a walk cut
  off has an error to show for it; neither takes anything for granted of the shops. For `HostGate`, mutual exclusion by the
  lock, and that whoever passed the second look knows the host is not blocked.
- `CatalogProofs`. `SoloInv` follows the last run as long as nobody overlapped it:
  how far its sweeps and records have come, and that every other run is over.
- `TrendsProofs`. `CoverInv`: what was present when the rebuild began is read, or
  on a date still to be read; a page that came with the same count before and
  after has all of it. `WalkIsOne` and `WalkCarries` show what the loop over the
  dates computes.
- `SchemaProofs`. `LockInv`: a transaction builds on the database, which nobody else
  changes meanwhile. `ProgressInv`: what an opener has done is in what it sees.
  For the race: an opener is `Behind` when a column was added since it
  listed them, and is refused its next `ALTER` (`RefusalInv`); whoever is not
  behind is never refused (`LeaderIsNotRefused`); and a process is behind only
  where another leads, or has migrated the database (`LeaderInv`). For the
  rejections, `SumInv`: as long as no dedup has read outside a transaction, whoever
  is to collapse rows holds the lock it read them under, so that they are the
  rows there are.
- `ApiProofs`. Each figure of an answer was still true at the moment the request
  began (`VisitOK`), and what the cache holds at the moment it names. For
  the rate limit, hits are compared as lists that embed into each other
  (`Into`), and counts follow; as long as no checks overlapped, every hit that
  still counts is in the client's list (`KeptInv`).

The inductive invariants were checked by TLC, on the instances of the runs, before
they were proved. Where a recursive function is involved (`Sum`, `SumTo`, the walk
over the dates, the list comprehension of the rate limit), induction is by the
least counterexample (`LeastOf` in `Counting`), since the library's induction
theorems take an operator as a parameter and cannot be instantiated; for the
same reason the existence of such a function is a lemma of its own (`SumsExist`,
`WalksExist`).

Only model-checked: the liveness properties `WedgeIsSidestepped`,
`AnsweredCallsReturn`, `AbandonedConnectionIsReleased`, `EveryUnitEnds` and
`EveryFetchReturns` (fairness and `ENABLED` are out of the prover's reach), and the
findings, which are counterexamples.

## Where code and documentation disagree

What the runs show; `PROJECT.json` quotes the lines.

- A commit that fails transiently leaves its write in the open transaction of the
  owner's connection, which nobody rolls back. A call queued on that owner commits
  it, before the swap or while the caller waits in `shutdown(wait=True)`; then the
  same closure is run again, and the write is stored twice (`dbowner_double`).
- A transient error makes the caller join the old owner with `shutdown(wait=True)`
  and no deadline (`dbowner_hang`).
- A stream lost in the swallowed quarantine write takes the part and price rows
  with it; the commit then succeeds on the new connection (`libsql_lost_upsert`).
- After a reconnect `_fetch` still calls the method bound to the dead cursor
  (`fetch_loss`).
- A category that raises a plain exception, and junaid's error after its first
  page, leave the source `ok`, and the sweep delists what was not seen
  (`harvest_junaid`).
- A failed page of a prebuilt source is skipped, and the short list that
  `scrape_all()` returns is swept (`prebuilts_seen`).
- Overlapping runs of one source sweep each other's parts (`catalog_overlap`).

Stated in the modules and violated by the code, each in a run of a few minutes or
less when it is added to the cfg as an `INVARIANT`; they have no run of their own:

- `Prebuilts!SeenBeforeIsTheEnd`: techmatched stops a category at a page "whose links
  were all already seen", which its comment (`techmatched/scraper.py:99`) takes
  for the last page served again. But `seen_links` is shared by all categories
  (`:75`), so that a page whose products all appeared in an earlier category ends
  this one too, and the pages behind it are neither read nor reported; the
  sweep delists what is only there. TLC finds it in two seconds with the constants
  of `Prebuilts_seen.cfg`. It came up as a proof of `SweepTakesOnlyTheGone` that
  would not go through: `overlooked` did not yet tell of it.
- `DbOwner!DeadlineMissIs503`: a deadline missed on the retry escapes as a plain
  timeout (an HTTP 500), not as `DatabaseTimeoutError`.
- `SchemaMigrate!OpenMeansMigrated`: a stream lost at the `SELECT` of the dedup
  (`database.py:904`) is replayed on a new connection. No `with` block is open, so
  the adapter does not know that it was inside a transaction: the backfill and
  the columns added after it are gone, the commit succeeds, and the process
  takes the target for migrated. `OwnerFindsSchema` makes exactly this exception.
- `SchemaMigrate!EveryRejectionCounts`: after the same loss the dedup's second `SELECT`
  (`:908`) reads outside a transaction and only the `UPDATE` (`:916`) takes the lock.
  Another opener dedups and commits in between and a run counts one more rejection,
  which the `UPDATE` then overwrites with the total of before. `RejectionsAreKept`
  makes exactly this exception, by the history variable `outside`.
- `Trends!PinnedPricesFoldIn`: a row pinned to the trend date keeps its own time
  of day, so that a midweek run's price is shadowed by an older one of the
  pinned day that was scraped later in the day.
- `ShareBuild!NoSlotIsDropped`: of two slots that name one part one comes back.
- `ShareRate!CapHolds`: checks that overlap exceed the cap, which the comment above
  `_RATE` calls a speed bump; `CapHoldsInOrder` says when it holds.
- `Stats!StoredCountStands`: the API's first count can be stored over the newer
  one of a scrape; the next scrape repairs it.

Seen while reading and not given a run: zestro's walk takes the 404 past its last
page for a fault and reports itself incomplete (`TruthfulShopSettles` excepts it);
a replaced owner's late transient error
swaps out the healthy owner that replaced it; the count of abandoned owners
counts tasks, not owners; a submit between a swap and its shutdown lands on the
abandoned owner; `host_blocked(label)` looks up `junaidtech.pk` while the fetches
are counted under `www.junaidtech.pk` and the API's host; the "consecutive" 403
and 429 counts are cleared by a 2xx only, not by a 404 or a 5xx between them; a listing page
without cards ends the walk even where page 1 announced more products; an
overlapping run can leave the stored row count behind by its rows.

## What is not modelled

Regular expressions over product names, HTML selectors, response formatting,
search ranking and filters: pure functions over data that no property here tells
apart. Of the trends, the arithmetic of medians, bands and ratios: the level is
modelled by what it may carry. Warnings of the health verdict, which are only
printed, and the prebuilt verdict, which is the source verdict with another
floor. Pauses between requests. `latest_price` is in `Catalog` as the run it came
from, without a property over stamps. The one-off scripts in `scripts/migrations`
and their confirmation of a production target: they run by hand, one at a time.
The heal loop: jobs of the hosting service, which reach the program as one more
scrape run. Backups, logging and notifications.

## Plan

Order of work: the owner and the adapter first, since every other guarantee
rests on them; then what decides about delisting; then the rest by weight of
their hazards.

1. `DbOwner`, `LibsqlConn` with `AtomicStore`, `LibsqlFetch`, `Harvest`, `Catalog`
   and the proofs about `DbOwner`: done.
2. `Trends`, `SchemaMigrate`, `ShareRate`, `ShareBuild`, `Stats`, `HostGate`,
   `Prebuilts` and the health verdict of `Harvest`: done.
3. Proofs of every invariant and action property of the passing runs, and of the
   refinement of `AtomicStore`: done, together with the lemmas they share.
4. Left: a quarantine write that is not swallowed, as a variant of `LibsqlConn`
   for which `NothingSwallowed` holds of the scraper's units too; the order of the stamps of `latest_price` in `Catalog`; the partly modelled
   read API.
