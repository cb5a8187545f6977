-------------------------------- MODULE Stats --------------------------------
(***************************************************************************)
(* GET /api/stats: the snapshot that routers/parts.py caches for an hour,  *)
(* and the price_log count that db/database.py remembers in app_meta,      *)
(* while a scrape writes.  Request threads run at the same time, but each  *)
(* Database.stats() has the owner thread to itself (see DbOwner); between  *)
(* two of its queries the scrape may write.  A scrape's upsert with its    *)
(* run record is one step and adds one row to price_log: the number of     *)
(* rows tells every state of the tables from the others.                   *)
(***************************************************************************)
EXTENDS Naturals, FiniteSets

CONSTANTS Visitors, Nil,
          TTL,               \* _STATS_TTL_SECONDS
          MaxTime, MaxRows   \* bounds: time, rows of price_log

ASSUME StatsAssumption ==
    /\ TTL \in Nat \ {0} /\ MaxTime \in Nat /\ MaxRows \in Nat
    /\ Nil \notin Nat \cup Visitors

VARIABLES
    time,      \* time.monotonic()
    logRows,   \* rows of price_log
    meta,      \* app_meta's price_log_rows; Nil: never written
    cache,     \* _stats_cache: [data, at], or Nil
    visit,     \* step of each request: idle | queued | parts | meta | count |
               \* keep | health | served
    asked,     \* when it looked at the cache
    data,      \* what it has read: [parts, rows, health], or what it answers
    ownerOf,   \* whose stats() the owner thread runs
    scrape,    \* step of the scrape, and the count it is about to store
    endedAt,   \* history: when each state of the tables was superseded
    stored,    \* history: what scrapes have stored, and when
    clobbered  \* history: the API stored a count over a newer one

statsVars == <<time, logRows, meta, cache, visit, asked, data, ownerOf, scrape,
               endedAt, stored, clobbered>>
statsHistory == <<endedAt, stored, clobbered>>

NoData == [parts |-> 0, rows |-> 0, health |-> 0]

StatsInit ==
    /\ time = TTL  \* so that a moment TTL ago exists
    /\ logRows = 1 /\ meta \in {1, Nil}
    /\ cache = Nil
    /\ visit = [v \in Visitors |-> "idle"]
    /\ asked = [v \in Visitors |-> 0]
    /\ data = [v \in Visitors |-> NoData]
    /\ ownerOf = Nil
    /\ scrape = [step |-> "idle", rows |-> 0]
    /\ endedAt = [n \in 1 .. MaxRows |-> Nil]
    /\ stored = {}
    /\ clobbered = FALSE

StatsTick ==
    /\ time < MaxTime
    /\ time' = time + 1
    /\ UNCHANGED <<logRows, meta, cache, visit, asked, data, ownerOf, scrape, statsHistory>>

-----------------------------------------------------------------------------
(* A scrape: upsert, then refresh_price_log_count().                       *)

ScrapeUpserts ==
    /\ scrape.step = "idle" /\ logRows < MaxRows
    /\ logRows' = logRows + 1
    /\ endedAt' = [endedAt EXCEPT ![logRows] = time]
    /\ scrape' = [scrape EXCEPT !.step = "count"]
    /\ UNCHANGED <<time, meta, cache, visit, asked, data, ownerOf, stored, clobbered>>

ScrapeCounts ==
    /\ scrape.step = "count"
    /\ scrape' = [step |-> "store", rows |-> logRows]
    /\ UNCHANGED <<time, logRows, meta, cache, visit, asked, data, ownerOf, statsHistory>>

ScrapeStores ==
    /\ scrape.step = "store"
    /\ meta' = scrape.rows
    /\ stored' = stored \cup {[rows |-> scrape.rows, at |-> time]}
    /\ scrape' = [step |-> "idle", rows |-> 0]
    /\ UNCHANGED <<time, logRows, cache, visit, asked, data, ownerOf, endedAt, clobbered>>

ScrapeDies ==
    /\ scrape.step # "idle"
    /\ scrape' = [step |-> "idle", rows |-> 0]
    /\ UNCHANGED <<time, logRows, meta, cache, visit, asked, data, ownerOf, statsHistory>>

-----------------------------------------------------------------------------
(* get_stats().                                                            *)

FreshEnough(at) == time - at < TTL

Visit(v) ==
    /\ visit[v] = "idle"
    /\ asked' = [asked EXCEPT ![v] = time]
    /\ IF cache # Nil /\ FreshEnough(cache.at)
       THEN /\ data' = [data EXCEPT ![v] = cache.data]
            /\ visit' = [visit EXCEPT ![v] = "served"]
       ELSE /\ visit' = [visit EXCEPT ![v] = "queued"]
            /\ UNCHANGED data
    /\ UNCHANGED <<time, logRows, meta, cache, ownerOf, scrape, statsHistory>>

OwnerTakes(v) ==
    /\ visit[v] = "queued" /\ ownerOf = Nil
    /\ ownerOf' = v
    /\ visit' = [visit EXCEPT ![v] = "parts"]
    /\ UNCHANGED <<time, logRows, meta, cache, asked, data, scrape, statsHistory>>

ReadParts(v) ==
    /\ visit[v] = "parts"
    /\ data' = [data EXCEPT ![v].parts = logRows]
    /\ visit' = [visit EXCEPT ![v] = "meta"]
    /\ UNCHANGED <<time, logRows, meta, cache, asked, ownerOf, scrape, statsHistory>>

\* price_log_count(): counted only where no count was ever stored.
ReadMeta(v) ==
    /\ visit[v] = "meta"
    /\ IF meta = Nil
       THEN visit' = [visit EXCEPT ![v] = "count"] /\ UNCHANGED data
       ELSE /\ visit' = [visit EXCEPT ![v] = "health"]
            /\ data' = [data EXCEPT ![v].rows = meta]
    /\ UNCHANGED <<time, logRows, meta, cache, asked, ownerOf, scrape, statsHistory>>

CountRows(v) ==
    /\ visit[v] = "count"
    /\ data' = [data EXCEPT ![v].rows = logRows]
    /\ visit' = [visit EXCEPT ![v] = "keep"]
    /\ UNCHANGED <<time, logRows, meta, cache, asked, ownerOf, scrape, statsHistory>>

\* _set_meta(): whatever is stored by now.  A database that cannot be written is
\* counted once more, and answers all the same.
KeepCount(v) ==
    /\ visit[v] = "keep"
    /\ visit' = [visit EXCEPT ![v] = "health"]
    /\ \/ /\ meta' = data[v].rows
          /\ clobbered' = (clobbered \/ (meta # Nil /\ meta > data[v].rows))
          /\ UNCHANGED data
       \/ /\ data' = [data EXCEPT ![v].rows = logRows]
          /\ UNCHANGED <<meta, clobbered>>
    /\ UNCHANGED <<time, logRows, cache, asked, ownerOf, scrape, endedAt, stored>>

ReadHealth(v) ==
    /\ visit[v] = "health"
    /\ data' = [data EXCEPT ![v].health = logRows]
    /\ ownerOf' = Nil
    /\ visit' = [visit EXCEPT ![v] = "fill"]
    /\ UNCHANGED <<time, logRows, meta, cache, asked, scrape, statsHistory>>

\* Mutant: the snapshot's age begins when it is stored.
FilledAt(v) == time

\* (data, now): now is the moment before the queries.
AsOf(v) == asked[v]

FillCache(v) ==
    /\ visit[v] = "fill"
    /\ cache' = [data |-> data[v], at |-> AsOf(v)]
    /\ visit' = [visit EXCEPT ![v] = "served"]
    /\ UNCHANGED <<time, logRows, meta, asked, data, ownerOf, scrape, statsHistory>>

\* A query raises: an error for the visitor, and nothing is cached.
StatsFail(v) ==
    /\ visit[v] \in {"parts", "meta", "count", "health"}
    /\ ownerOf' = Nil
    /\ visit' = [visit EXCEPT ![v] = "idle"]
    /\ asked' = [asked EXCEPT ![v] = 0] /\ data' = [data EXCEPT ![v] = NoData]
    /\ UNCHANGED <<time, logRows, meta, cache, scrape, statsHistory>>

Served(v) ==
    /\ visit[v] = "served"
    /\ visit' = [visit EXCEPT ![v] = "idle"]
    /\ asked' = [asked EXCEPT ![v] = 0] /\ data' = [data EXCEPT ![v] = NoData]
    /\ UNCHANGED <<time, logRows, meta, cache, ownerOf, scrape, statsHistory>>

StatsNext ==
    \/ StatsTick
    \/ ScrapeUpserts \/ ScrapeCounts \/ ScrapeStores \/ ScrapeDies
    \/ \E v \in Visitors :
          \/ Visit(v) \/ OwnerTakes(v) \/ ReadParts(v) \/ ReadMeta(v) \/ CountRows(v)
          \/ KeepCount(v) \/ ReadHealth(v) \/ FillCache(v) \/ StatsFail(v) \/ Served(v)

StatsSpec == StatsInit /\ [][StatsNext]_statsVars

-----------------------------------------------------------------------------
(* Properties.                                                             *)

\* State n of the tables was still there less than TTL before moment t.
Recent(n, t) == n = logRows \/ endedAt[n] > t - TTL

\* No answer is older than the cache may be: its figures were true less than
\* TTL before it was asked for, whichever request filled the cache, however
\* long its queries took and whatever was written between them; and its row
\* count is no older than the last count a scrape had stored by then, unless
\* the API's own first count was stored over it.
ServedIsFresh ==
    \A v \in Visitors : visit[v] = "served" =>
        /\ Recent(data[v].parts, asked[v]) /\ Recent(data[v].health, asked[v])
        /\ ~clobbered => \A c \in stored : c.at <= asked[v] - TTL => data[v].rows >= c.rows

\* "The only moment the number actually changes": without the exception.  (Violated: README.)
StoredCountStands == ~clobbered

=============================================================================
