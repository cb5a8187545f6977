------------------------------- MODULE ApiProofs -------------------------------
(***************************************************************************)
(* Theorems about Stats, ShareBuild and ShareRate, for any number of       *)
(* requests, clients, rows and builds.                                     *)
(***************************************************************************)
EXTENDS ShareRate, ShareBuild, Stats, Counting, SequenceTheorems, TLAPS

-----------------------------------------------------------------------------
(* Stats.                                                                  *)

StatsData == [parts : Nat, rows : Nat, health : Nat]

StatsShape ==
    /\ time \in Nat /\ logRows \in Nat \ {0} /\ (logRows # 1 => logRows <= MaxRows)
    /\ meta \in Nat \cup {Nil}
    /\ visit \in [Visitors -> {"idle", "queued", "parts", "meta", "count", "keep", "health",
                               "fill", "served"}]
    /\ asked \in [Visitors -> Nat] /\ data \in [Visitors -> StatsData]
    /\ cache # Nil => cache \in [data : StatsData, at : Nat] /\ cache.at <= time
    /\ scrape \in [step : {"idle", "count", "store"}, rows : Nat]
    /\ endedAt \in [1 .. MaxRows -> Nat \cup {Nil}]
    /\ clobbered \in BOOLEAN
    /\ \A v \in Visitors : asked[v] <= time

\* Every earlier state of the tables was superseded at some moment.
Superseded == \A n \in 1 .. logRows - 1 : endedAt[n] \in Nat /\ endedAt[n] <= time

\* What scrapes have stored; and what they leave in app_meta.
StoredInv ==
    /\ \A c \in stored : c.rows \in Nat /\ c.at \in Nat /\ c.rows <= logRows
    /\ scrape.step = "store" => /\ scrape.rows <= logRows
                                /\ \A c \in stored : c.rows <= scrape.rows
    /\ ~clobbered => \A c \in stored : meta # Nil /\ meta >= c.rows

\* State n was still there at moment t; r rows are no fewer than any count that
\* was stored before t.
StillThere(n, t) == n \in 1 .. logRows /\ (n = logRows \/ endedAt[n] >= t)
NoFewer(r, t)    == ~clobbered => \A c \in stored : c.at < t => r >= c.rows

CacheInv ==
    cache # Nil => /\ StillThere(cache.data.parts, cache.at)
                   /\ StillThere(cache.data.health, cache.at)
                   /\ NoFewer(cache.data.rows, cache.at)

VisitOK(v) ==
        /\ visit[v] \in {"meta", "count", "keep", "health", "fill"}
              => StillThere(data[v].parts, asked[v])
        /\ visit[v] \in {"keep", "health", "fill"} => NoFewer(data[v].rows, asked[v])
        /\ visit[v] = "fill" => StillThere(data[v].health, asked[v])
        /\ visit[v] = "served" =>
              /\ data[v].parts \in 1 .. logRows /\ Recent(data[v].parts, asked[v])
              /\ data[v].health \in 1 .. logRows /\ Recent(data[v].health, asked[v])
              /\ ~clobbered => \A c \in stored :
                                  c.at <= asked[v] - TTL => data[v].rows >= c.rows

VisitInv == \A v \in Visitors : VisitOK(v)

StatsInv == StatsShape /\ Superseded /\ StoredInv /\ CacheInv /\ VisitInv

\* Nothing has been read or stored at the start.
LEMMA StatsInitInv == StatsInit => StatsInv
<1> SUFFICES ASSUME StatsInit PROVE StatsInv
  OBVIOUS
<1>0. TTL \in Nat \ {0}
  BY StatsAssumption
<1>1. StatsShape
  <2>1. NoData \in StatsData
    BY DEF NoData, StatsData
  <2>2. visit \in [Visitors -> {"idle", "queued", "parts", "meta", "count", "keep", "health",
                                "fill", "served"}]
    BY DEF StatsInit
  <2>3. /\ asked \in [Visitors -> Nat] /\ data \in [Visitors -> StatsData]
        /\ \A v \in Visitors : asked[v] <= time
    BY <1>0, <2>1 DEF StatsInit
  <2>4. /\ time \in Nat /\ logRows \in Nat \ {0} /\ (logRows # 1 => logRows <= MaxRows)
        /\ meta \in Nat \cup {Nil} /\ ~(cache # Nil)
    BY <1>0 DEF StatsInit
  <2>5. /\ scrape \in [step : {"idle", "count", "store"}, rows : Nat]
        /\ endedAt \in [1 .. MaxRows -> Nat \cup {Nil}]
    BY DEF StatsInit
  <2>6. clobbered \in BOOLEAN
    BY Zenon DEF StatsInit
  <2> QED
    BY <2>2, <2>3, <2>4, <2>5, <2>6 DEF StatsShape
<1>2. Superseded /\ StoredInv
  BY DEF StatsInit, Superseded, StoredInv
<1>3. CacheInv /\ VisitInv
  BY DEF StatsInit, CacheInv, VisitInv, VisitOK
<1> QED
  BY <1>1, <1>2, <1>3 DEF StatsInv

\* A step of one visitor that stores nothing: the others see nothing of it.
LEMMA VisitorStep ==
    ASSUME StatsInv, NEW v \in Visitors, NEW step, NEW t, NEW d,
           visit' = [visit EXCEPT ![v] = step],
           step \in {"idle", "queued", "parts", "meta", "count", "keep", "health", "fill", "served"},
           asked' = [asked EXCEPT ![v] = t], t \in Nat, t <= time,
           data' = [data EXCEPT ![v] = d], d \in StatsData,
           UNCHANGED <<time, logRows, meta, cache, scrape, endedAt, stored, clobbered>>,
           VisitOK(v)'
    PROVE  StatsInv'
<1>0. StatsShape /\ Superseded /\ StoredInv /\ CacheInv /\ VisitInv
  BY DEF StatsInv
<1>1. StatsShape'
  BY <1>0 DEF StatsShape
<1>2. Superseded' /\ StoredInv' /\ CacheInv'
  BY <1>0 DEF Superseded, StoredInv, CacheInv, StillThere, NoFewer
<1>3. ASSUME NEW u \in Visitors, u # v PROVE VisitOK(u)'
  <2>1. visit'[u] = visit[u] /\ asked'[u] = asked[u] /\ data'[u] = data[u]
    BY <1>0, <1>3 DEF StatsShape
  <2> QED
    BY <1>0, <2>1 DEF VisitInv, VisitOK, StillThere, NoFewer, Recent
<1> QED
  BY <1>1, <1>2, <1>3 DEF StatsInv, VisitInv

\* What was there at one moment is fresh for all that is asked less than TTL later.
LEMMA StillThereIsRecent ==
    ASSUME StatsShape, Superseded, NEW n, NEW s \in Nat, NEW t \in Nat, t - s < TTL,
           StillThere(n, s)
    PROVE  n \in 1 .. logRows /\ Recent(n, t)
<1>1. TTL \in Nat /\ logRows \in Nat
  BY StatsAssumption DEF StatsShape
<1>2. n \in 1 .. logRows /\ (n # logRows => n \in 1 .. logRows - 1)
  BY <1>1 DEF StillThere
<1>3. n # logRows => endedAt[n] \in Nat
  BY <1>2 DEF Superseded
<1> QED
  BY <1>1, <1>2, <1>3 DEF StillThere, Recent

\* The steps of a visitor that store nothing.
LEMMA ReadersStep ==
    ASSUME StatsInv, NEW v \in Visitors,
           \/ Visit(v) \/ OwnerTakes(v) \/ ReadParts(v) \/ ReadMeta(v) \/ CountRows(v)
           \/ ReadHealth(v) \/ StatsFail(v) \/ Served(v)
    PROVE  StatsInv'
<1>0. StatsShape /\ Superseded /\ StoredInv /\ CacheInv /\ VisitInv /\ VisitOK(v)
  BY DEF StatsInv, VisitInv
<1>1. /\ visit \in [Visitors -> {"idle", "queued", "parts", "meta", "count", "keep", "health",
                                 "fill", "served"}]
      /\ asked \in [Visitors -> Nat] /\ data \in [Visitors -> StatsData]
      /\ time \in Nat /\ logRows \in Nat \ {0} /\ asked[v] \in Nat /\ asked[v] <= time
      /\ time <= time /\ 0 \in Nat /\ 0 <= time
      /\ data[v] \in StatsData /\ NoData \in StatsData /\ TTL \in Nat \ {0}
  BY <1>0, StatsAssumption DEF StatsShape, NoData, StatsData
<1>2. asked = [asked EXCEPT ![v] = asked[v]] /\ data = [data EXCEPT ![v] = data[v]]
  BY <1>1
<1>3. CASE Visit(v)
  <2>1. asked' = [asked EXCEPT ![v] = time]
        /\ UNCHANGED <<time, logRows, meta, cache, scrape, endedAt, stored, clobbered>>
    BY <1>3 DEF Visit, statsHistory
  <2>2. CASE cache # Nil /\ FreshEnough(cache.at)
    <3>1. visit' = [visit EXCEPT ![v] = "served"] /\ data' = [data EXCEPT ![v] = cache.data]
      BY <1>3, <2>2 DEF Visit
    <3>2. /\ cache.data \in StatsData /\ cache.at \in Nat /\ cache.at <= time
          /\ time - cache.at < TTL
      BY <1>0, <2>2 DEF StatsShape, FreshEnough
    <3>3. /\ StillThere(cache.data.parts, cache.at) /\ StillThere(cache.data.health, cache.at)
          /\ NoFewer(cache.data.rows, cache.at)
      BY <1>0, <2>2 DEF CacheInv
    <3>4. /\ cache.data.parts \in 1 .. logRows /\ Recent(cache.data.parts, time)
          /\ cache.data.health \in 1 .. logRows /\ Recent(cache.data.health, time)
      BY <1>0, <1>1, <3>2, <3>3, StillThereIsRecent
    <3>5. ~clobbered => \A c \in stored : c.at <= time - TTL => cache.data.rows >= c.rows
      <4>1. \A c \in stored : c.at \in Nat /\ (c.at <= time - TTL => c.at < cache.at)
        BY <1>0, <1>1, <3>2 DEF StoredInv
      <4> QED
        BY <3>3, <4>1 DEF NoFewer
    <3>6. visit'[v] = "served" /\ asked'[v] = time /\ data'[v] = cache.data
      BY <1>1, <2>1, <3>1
    <3>7. VisitOK(v)'
      BY <2>1, <3>4, <3>5, <3>6 DEF VisitOK, Recent
    <3> QED
      BY <1>1, <2>1, <3>1, <3>2, <3>7, VisitorStep
  <2>3. CASE ~(cache # Nil /\ FreshEnough(cache.at))
    <3>1. visit' = [visit EXCEPT ![v] = "queued"] /\ data' = [data EXCEPT ![v] = data[v]]
      BY <1>2, <1>3, <2>3 DEF Visit
    <3>2. VisitOK(v)'
      BY <1>1, <3>1 DEF VisitOK
    <3> QED
      BY <1>1, <2>1, <3>1, <3>2, VisitorStep
  <2> QED
    BY <2>2, <2>3
<1>4. CASE OwnerTakes(v)
  <2>1. /\ visit' = [visit EXCEPT ![v] = "parts"] /\ asked' = [asked EXCEPT ![v] = asked[v]]
        /\ data' = [data EXCEPT ![v] = data[v]]
        /\ UNCHANGED <<time, logRows, meta, cache, scrape, endedAt, stored, clobbered>>
    BY <1>2, <1>4 DEF OwnerTakes, statsHistory
  <2>2. VisitOK(v)'
    BY <1>1, <2>1 DEF VisitOK
  <2> QED
    BY <1>1, <2>1, <2>2, VisitorStep
<1>5. CASE ReadParts(v)
  <2> DEFINE d == [data[v] EXCEPT !.parts = logRows]
  <2>1. /\ visit' = [visit EXCEPT ![v] = "meta"] /\ asked' = [asked EXCEPT ![v] = asked[v]]
        /\ data' = [data EXCEPT ![v] = d]
        /\ UNCHANGED <<time, logRows, meta, cache, scrape, endedAt, stored, clobbered>>
    BY <1>2, <1>5 DEF ReadParts, statsHistory
  <2>2. d \in StatsData /\ d.parts = logRows
    BY <1>1 DEF StatsData
  <2>3. VisitOK(v)'
    BY <1>1, <2>1, <2>2 DEF VisitOK, StillThere
  <2> QED
    BY <1>1, <2>1, <2>2, <2>3, VisitorStep
<1>6. CASE ReadMeta(v)
  <2>0. visit[v] = "meta" /\ StillThere(data[v].parts, asked[v])
    BY <1>0, <1>6 DEF ReadMeta, VisitOK
  <2>1. CASE meta = Nil
    <3>1. /\ visit' = [visit EXCEPT ![v] = "count"] /\ asked' = [asked EXCEPT ![v] = asked[v]]
          /\ data' = [data EXCEPT ![v] = data[v]]
          /\ UNCHANGED <<time, logRows, meta, cache, scrape, endedAt, stored, clobbered>>
      BY <1>2, <1>6, <2>1 DEF ReadMeta, statsHistory
    <3>2. VisitOK(v)'
      BY <1>1, <2>0, <3>1 DEF VisitOK, StillThere
    <3> QED
      BY <1>1, <3>1, <3>2, VisitorStep
  <2>2. CASE meta # Nil
    <3> DEFINE d == [data[v] EXCEPT !.rows = meta]
    <3>1. /\ visit' = [visit EXCEPT ![v] = "health"] /\ asked' = [asked EXCEPT ![v] = asked[v]]
          /\ data' = [data EXCEPT ![v] = d]
          /\ UNCHANGED <<time, logRows, meta, cache, scrape, endedAt, stored, clobbered>>
      BY <1>2, <1>6, <2>2 DEF ReadMeta, statsHistory
    <3>2. meta \in Nat /\ d \in StatsData /\ d.rows = meta /\ d.parts = data[v].parts
      BY <1>0, <1>1, <2>2 DEF StatsData, StatsShape
    <3>3. VisitOK(v)'
      BY <1>0, <1>1, <2>0, <3>1, <3>2 DEF VisitOK, StillThere, NoFewer, StoredInv
    <3> QED
      BY <1>1, <3>1, <3>2, <3>3, VisitorStep
  <2> QED
    BY <2>1, <2>2
<1>7. CASE CountRows(v)
  <2> DEFINE d == [data[v] EXCEPT !.rows = logRows]
  <2>0. visit[v] = "count" /\ StillThere(data[v].parts, asked[v])
    BY <1>0, <1>7 DEF CountRows, VisitOK
  <2>1. /\ visit' = [visit EXCEPT ![v] = "keep"] /\ asked' = [asked EXCEPT ![v] = asked[v]]
        /\ data' = [data EXCEPT ![v] = d]
        /\ UNCHANGED <<time, logRows, meta, cache, scrape, endedAt, stored, clobbered>>
    BY <1>2, <1>7 DEF CountRows, statsHistory
  <2>2. d \in StatsData /\ d.rows = logRows /\ d.parts = data[v].parts
    BY <1>1 DEF StatsData
  <2>3. VisitOK(v)'
    <3>1. \A c \in stored : logRows >= c.rows
      BY <1>0, <1>1 DEF StoredInv
    <3> QED
      BY <1>1, <2>0, <2>1, <2>2, <3>1 DEF VisitOK, StillThere, NoFewer
  <2> QED
    BY <1>1, <2>1, <2>2, <2>3, VisitorStep
<1>8. CASE ReadHealth(v)
  <2> DEFINE d == [data[v] EXCEPT !.health = logRows]
  <2>0. /\ visit[v] = "health" /\ StillThere(data[v].parts, asked[v])
        /\ NoFewer(data[v].rows, asked[v])
    BY <1>0, <1>8 DEF ReadHealth, VisitOK
  <2>1. /\ visit' = [visit EXCEPT ![v] = "fill"] /\ asked' = [asked EXCEPT ![v] = asked[v]]
        /\ data' = [data EXCEPT ![v] = d]
        /\ UNCHANGED <<time, logRows, meta, cache, scrape, endedAt, stored, clobbered>>
    BY <1>2, <1>8 DEF ReadHealth, statsHistory
  <2>2. d \in StatsData /\ d.health = logRows /\ d.parts = data[v].parts /\ d.rows = data[v].rows
    BY <1>1 DEF StatsData
  <2>3. VisitOK(v)'
    BY <1>1, <2>0, <2>1, <2>2 DEF VisitOK, StillThere, NoFewer
  <2> QED
    BY <1>1, <2>1, <2>2, <2>3, VisitorStep
<1>9. CASE StatsFail(v) \/ Served(v)
  <2>1. /\ visit' = [visit EXCEPT ![v] = "idle"] /\ asked' = [asked EXCEPT ![v] = 0]
        /\ data' = [data EXCEPT ![v] = NoData]
        /\ UNCHANGED <<time, logRows, meta, cache, scrape, endedAt, stored, clobbered>>
    BY <1>9 DEF StatsFail, Served, statsHistory
  <2>2. VisitOK(v)'
    BY <1>1, <2>1 DEF VisitOK
  <2> QED
    BY <1>1, <2>1, <2>2, VisitorStep
<1> QED
  BY <1>3, <1>4, <1>5, <1>6, <1>7, <1>8, <1>9

\* The API stores its count of the rows, or counts again where it cannot.
LEMMA KeepCountStep ==
    ASSUME StatsInv, NEW v \in Visitors, KeepCount(v)
    PROVE  StatsInv'
<1>0. StatsShape /\ Superseded /\ StoredInv /\ CacheInv /\ VisitInv /\ VisitOK(v)
  BY DEF StatsInv, VisitInv
<1>1. /\ visit \in [Visitors -> {"idle", "queued", "parts", "meta", "count", "keep", "health",
                                 "fill", "served"}]
      /\ data \in [Visitors -> StatsData] /\ data[v] \in StatsData
      /\ logRows \in Nat \ {0} /\ data[v].rows \in Nat
      /\ visit[v] = "keep" /\ visit' = [visit EXCEPT ![v] = "health"]
      /\ UNCHANGED <<time, logRows, cache, asked, scrape, endedAt, stored>>
  BY <1>0 DEF StatsShape, StatsData, KeepCount
<1>2. /\ StillThere(data[v].parts, asked[v]) /\ NoFewer(data[v].rows, asked[v])
  BY <1>0, <1>1 DEF VisitOK
<1>3. CASE meta' = data[v].rows /\ UNCHANGED data
           /\ clobbered' = (clobbered \/ (meta # Nil /\ meta > data[v].rows))
  <2>1. clobbered' \in BOOLEAN
    BY <1>3, Zenon
  <2>2. ~clobbered' => ~clobbered /\ (meta # Nil => ~(meta > data[v].rows))
    BY <1>3, Zenon
  <2>3. StatsShape'
    BY <1>0, <1>1, <1>3, <2>1 DEF StatsShape
  <2>4. StoredInv'
    <3>1. ASSUME ~clobbered', NEW c \in stored PROVE meta' # Nil /\ meta' >= c.rows
      <4>1. meta # Nil /\ meta >= c.rows /\ ~(meta > data[v].rows) /\ c.rows \in Nat
        BY <1>0, <2>2, <3>1 DEF StoredInv
      <4>2. meta \in Nat
        BY <1>0, <4>1 DEF StatsShape
      <4> QED
        BY <1>1, <1>3, <4>1, <4>2, StatsAssumption
    <3> QED
      BY <1>0, <1>1, <3>1 DEF StoredInv
  <2>5. Superseded' /\ CacheInv'
    BY <1>0, <1>1, <2>2 DEF Superseded, CacheInv, StillThere, NoFewer
  <2>6. VisitInv'
    <3> SUFFICES ASSUME NEW u \in Visitors PROVE VisitOK(u)'
      BY DEF VisitInv
    <3>1. VisitOK(u)
      BY <1>0 DEF VisitInv
    <3>2. CASE u = v
      BY <1>1, <1>2, <1>3, <2>2, <3>2 DEF VisitOK, StillThere, NoFewer
    <3>3. CASE u # v
      BY <1>1, <1>3, <2>2, <3>1, <3>3 DEF VisitOK, StillThere, NoFewer, Recent
    <3> QED
      BY <3>2, <3>3
  <2> QED
    BY <2>3, <2>4, <2>5, <2>6 DEF StatsInv
<1>4. CASE data' = [data EXCEPT ![v].rows = logRows] /\ UNCHANGED <<meta, clobbered>>
  <2> DEFINE d == [data[v] EXCEPT !.rows = logRows]
  <2>1. /\ asked \in [Visitors -> Nat] /\ asked[v] \in Nat /\ asked[v] <= time
        /\ asked' = [asked EXCEPT ![v] = asked[v]] /\ data' = [data EXCEPT ![v] = d]
    BY <1>0, <1>1, <1>4 DEF StatsShape
  <2>2. d \in StatsData /\ d.rows = logRows /\ d.parts = data[v].parts
    BY <1>1 DEF StatsData
  <2>3. VisitOK(v)'
    <3>1. \A c \in stored : logRows >= c.rows
      BY <1>0, <1>1 DEF StoredInv
    <3> QED
      BY <1>1, <1>2, <1>4, <2>1, <2>2, <3>1 DEF VisitOK, StillThere, NoFewer
  <2> QED
    BY <1>1, <1>4, <2>1, <2>2, <2>3, VisitorStep
<1> QED
  BY <1>3, <1>4 DEF KeepCount

\* The snapshot goes into the cache with the time it was begun.
LEMMA FillCacheStep ==
    ASSUME StatsInv, NEW v \in Visitors, FillCache(v)
    PROVE  StatsInv'
<1>0. StatsShape /\ Superseded /\ StoredInv /\ CacheInv /\ VisitInv /\ VisitOK(v)
  BY DEF StatsInv, VisitInv
<1>1. /\ visit[v] = "fill" /\ visit' = [visit EXCEPT ![v] = "served"]
      /\ cache' = [data |-> data[v], at |-> asked[v]]
      /\ UNCHANGED <<time, logRows, meta, asked, data, scrape, endedAt, stored, clobbered>>
  BY DEF FillCache, AsOf, statsHistory
<1>2. /\ StillThere(data[v].parts, asked[v]) /\ StillThere(data[v].health, asked[v])
      /\ NoFewer(data[v].rows, asked[v])
  BY <1>0, <1>1 DEF VisitOK
<1>3. /\ data[v] \in StatsData /\ asked[v] \in Nat /\ asked[v] <= time /\ TTL \in Nat \ {0}
      /\ time \in Nat
  BY <1>0, StatsAssumption DEF StatsShape
<1>4. cache'.data = data[v] /\ cache'.at = asked[v] /\ cache' \in [data : StatsData, at : Nat]
  BY <1>1, <1>3
<1>5. StatsShape'
  BY <1>0, <1>1, <1>3, <1>4 DEF StatsShape
<1>6. Superseded' /\ StoredInv' /\ CacheInv'
  BY <1>0, <1>1, <1>2, <1>4 DEF Superseded, StoredInv, CacheInv, StillThere, NoFewer
<1>7. VisitInv'
  <2> SUFFICES ASSUME NEW u \in Visitors PROVE VisitOK(u)'
    BY DEF VisitInv
  <2>1. VisitOK(u)
    BY <1>0 DEF VisitInv
  <2>2. CASE u = v
    <3>1. asked[v] - asked[v] < TTL
      BY <1>3
    <3>2. /\ data[v].parts \in 1 .. logRows /\ Recent(data[v].parts, asked[v])
          /\ data[v].health \in 1 .. logRows /\ Recent(data[v].health, asked[v])
      BY <1>0, <1>2, <1>3, <3>1, StillThereIsRecent
    <3>3. ~clobbered => \A c \in stored : c.at <= asked[v] - TTL => data[v].rows >= c.rows
      <4>1. \A c \in stored : c.at \in Nat /\ (c.at <= asked[v] - TTL => c.at < asked[v])
        BY <1>0, <1>3 DEF StoredInv
      <4> QED
        BY <1>2, <4>1 DEF NoFewer
    <3>4. visit'[u] = "served"
      BY <1>0, <1>1, <2>2 DEF StatsShape
    <3> QED
      BY <1>1, <2>2, <3>2, <3>3, <3>4 DEF VisitOK, Recent
  <2>3. CASE u # v
    BY <1>0, <1>1, <2>1, <2>3 DEF VisitOK, StillThere, NoFewer, Recent, StatsShape
  <2> QED
    BY <2>2, <2>3
<1> QED
  BY <1>5, <1>6, <1>7 DEF StatsInv

\* A step of the clock or of the scrape that leaves the requests alone: what was
\* still there at a moment in the past was there at that moment ever after, and
\* what is stored now is not stored before any moment in the past.
LEMMA PastStays ==
    ASSUME StatsInv, StatsShape', StoredInv', Superseded',
           UNCHANGED <<cache, visit, asked, data, clobbered>>,
           \A n, t \in Nat : t <= time /\ StillThere(n, t) => StillThere(n, t)',
           \A n, t \in Nat : t <= time /\ n \in 1 .. logRows /\ Recent(n, t)
                             => n \in 1 .. logRows' /\ Recent(n, t)',
           \A c \in stored' : c \in stored \/ c.at = time
    PROVE  StatsInv'
<1>0. StatsShape /\ Superseded /\ StoredInv /\ CacheInv /\ VisitInv
  BY DEF StatsInv
<1>1. /\ asked \in [Visitors -> Nat] /\ data \in [Visitors -> StatsData]
      /\ time \in Nat /\ logRows \in Nat /\ \A v \in Visitors : asked[v] <= time
      /\ cache # Nil => cache \in [data : StatsData, at : Nat] /\ cache.at <= time
      /\ TTL \in Nat \ {0}
  BY <1>0, StatsAssumption DEF StatsShape
<1>2. ASSUME NEW r, NEW t \in Nat, t <= time, NoFewer(r, t) PROVE NoFewer(r, t)'
  BY <1>1, <1>2 DEF NoFewer
<1>3. CacheInv'
  <2> SUFFICES ASSUME cache # Nil
               PROVE  /\ StillThere(cache.data.parts, cache.at)'
                      /\ StillThere(cache.data.health, cache.at)'
                      /\ NoFewer(cache.data.rows, cache.at)'
    BY DEF CacheInv
  <2>1. /\ cache.at \in Nat /\ cache.at <= time /\ cache.data.parts \in Nat
        /\ cache.data.health \in Nat
    BY <1>1 DEF StatsData
  <2>2. /\ StillThere(cache.data.parts, cache.at) /\ StillThere(cache.data.health, cache.at)
        /\ NoFewer(cache.data.rows, cache.at)
    BY <1>0 DEF CacheInv
  <2> QED
    BY <1>2, <2>1, <2>2 DEF StillThere, NoFewer
<1>4. ASSUME NEW v \in Visitors PROVE VisitOK(v)'
  <2>0. VisitOK(v)
    BY <1>0 DEF VisitInv
  <2>1. /\ asked[v] \in Nat /\ asked[v] <= time /\ data[v].parts \in Nat
        /\ data[v].health \in Nat
    BY <1>1 DEF StatsData
  <2>2. /\ visit[v] \in {"meta", "count", "keep", "health", "fill"}
              => StillThere(data[v].parts, asked[v])'
        /\ visit[v] = "fill" => StillThere(data[v].health, asked[v])'
    BY <2>0, <2>1 DEF VisitOK, StillThere
  <2>3. visit[v] \in {"keep", "health", "fill"} => NoFewer(data[v].rows, asked[v])'
    BY <1>2, <2>0, <2>1 DEF VisitOK, NoFewer
  <2>4. visit[v] = "served" =>
            /\ data[v].parts \in 1 .. logRows' /\ Recent(data[v].parts, asked[v])'
            /\ data[v].health \in 1 .. logRows' /\ Recent(data[v].health, asked[v])'
    BY <2>0, <2>1 DEF VisitOK, Recent
  <2>5. visit[v] = "served" => (~clobbered => \A c \in stored' :
                                   c.at <= asked[v] - TTL => data[v].rows >= c.rows)
    <3>1. \A c \in stored' : c.at <= asked[v] - TTL => c \in stored
      BY <1>1, <2>1
    <3> QED
      BY <2>0, <3>1 DEF VisitOK
  <2> QED
    BY <2>2, <2>3, <2>4, <2>5 DEF VisitOK, StillThere, NoFewer, Recent
<1> QED
  BY <1>3, <1>4 DEF StatsInv, VisitInv

\* A scrape's steps, and the clock.
LEMMA ScrapeStep ==
    ASSUME StatsInv,
           \/ StatsTick \/ ScrapeUpserts \/ ScrapeCounts \/ ScrapeStores \/ ScrapeDies
           \/ UNCHANGED statsVars
    PROVE  StatsInv'
<1>0. StatsShape /\ Superseded /\ StoredInv
  BY DEF StatsInv
<1>1. /\ time \in Nat /\ logRows \in Nat \ {0} /\ TTL \in Nat \ {0} /\ MaxRows \in Nat
      /\ endedAt \in [1 .. MaxRows -> Nat \cup {Nil}]
      /\ scrape \in [step : {"idle", "count", "store"}, rows : Nat]
  BY <1>0, StatsAssumption DEF StatsShape
<1>2. CASE StatsTick
  <2>1. /\ time' = time + 1
        /\ UNCHANGED <<logRows, meta, cache, visit, asked, data, scrape, endedAt, stored, clobbered>>
    BY <1>2 DEF StatsTick, statsHistory
  <2>2. StatsShape'
    <3>1. /\ cache # Nil => cache.at <= time + 1
          /\ \A v \in Visitors : asked[v] <= time + 1
      BY <1>0, <1>1 DEF StatsShape
    <3> QED
      BY <1>0, <1>1, <2>1, <3>1 DEF StatsShape
  <2>3. Superseded'
    BY <1>0, <1>1, <2>1 DEF Superseded
  <2>4. StoredInv'
    BY <1>0, <2>1 DEF StoredInv
  <2> QED
    BY <2>1, <2>2, <2>3, <2>4, PastStays DEF StillThere, Recent
<1>3. CASE ScrapeUpserts
  <2>1. /\ logRows' = logRows + 1 /\ logRows < MaxRows
        /\ endedAt' = [endedAt EXCEPT ![logRows] = time]
        /\ scrape.step = "idle" /\ scrape' = [scrape EXCEPT !.step = "count"]
        /\ UNCHANGED <<time, meta, cache, visit, asked, data, stored, clobbered>>
    BY <1>3 DEF ScrapeUpserts
  <2>2. /\ logRows \in 1 .. MaxRows /\ logRows' \in Nat \ {0} /\ logRows' <= MaxRows
        /\ endedAt' \in [1 .. MaxRows -> Nat \cup {Nil}] /\ endedAt'[logRows] = time
        /\ \A n \in 1 .. logRows - 1 : endedAt'[n] = endedAt[n]
    BY <1>1, <2>1
  <2>3. scrape' \in [step : {"idle", "count", "store"}, rows : Nat] /\ scrape'.step = "count"
    BY <1>1, <2>1
  <2>4. StatsShape'
    BY <1>0, <2>1, <2>2, <2>3 DEF StatsShape
  <2>5. Superseded'
    BY <1>0, <1>1, <2>1, <2>2 DEF Superseded
  <2>6. StoredInv'
    <3>1. \A c \in stored : c.rows <= logRows + 1
      BY <1>0, <1>1 DEF StoredInv
    <3> QED
      BY <1>0, <2>1, <2>3, <3>1 DEF StoredInv
  <2>7. ASSUME NEW n \in Nat, NEW t \in Nat, t <= time, StillThere(n, t)
        PROVE  StillThere(n, t)'
    BY <1>1, <2>1, <2>2, <2>7 DEF StillThere
  <2>8. ASSUME NEW n \in Nat, NEW t \in Nat, t <= time, n \in 1 .. logRows, Recent(n, t)
        PROVE  n \in 1 .. logRows' /\ Recent(n, t)'
    <3>1. CASE n = logRows
      BY <1>1, <2>1, <2>2, <2>8, <3>1 DEF Recent
    <3>2. CASE n # logRows
      BY <1>1, <2>1, <2>2, <2>8, <3>2 DEF Recent
    <3> QED
      BY <3>1, <3>2
  <2> QED
    BY <2>1, <2>4, <2>5, <2>6, <2>7, <2>8, PastStays DEF StillThere, Recent
<1>4. CASE ScrapeCounts \/ ScrapeDies \/ UNCHANGED statsVars
  <2>1. UNCHANGED <<time, logRows, meta, cache, visit, asked, data, endedAt, stored, clobbered>>
    BY <1>4 DEF ScrapeCounts, ScrapeDies, statsVars, statsHistory
  <2>2. /\ scrape' \in [step : {"idle", "count", "store"}, rows : Nat]
        /\ scrape'.step = "store" => \/ scrape'.rows = logRows
                                     \/ scrape' = scrape
    BY <1>1, <1>4 DEF ScrapeCounts, ScrapeDies, statsVars
  <2>3. StatsShape'
    BY <1>0, <2>1, <2>2 DEF StatsShape
  <2>4. Superseded'
    BY <1>0, <2>1 DEF Superseded
  <2>5. StoredInv'
    BY <1>0, <1>1, <2>1, <2>2 DEF StoredInv
  <2> QED
    BY <2>1, <2>3, <2>4, <2>5, PastStays DEF StillThere, Recent
<1>5. CASE ScrapeStores
  <2>1. /\ scrape.step = "store" /\ meta' = scrape.rows
        /\ stored' = stored \cup {[rows |-> scrape.rows, at |-> time]}
        /\ scrape' = [step |-> "idle", rows |-> 0]
        /\ UNCHANGED <<time, logRows, cache, visit, asked, data, endedAt, clobbered>>
    BY <1>5 DEF ScrapeStores
  <2>2. StatsShape'
    BY <1>0, <1>1, <2>1 DEF StatsShape
  <2>3. Superseded'
    BY <1>0, <2>1 DEF Superseded
  <2>4. /\ scrape.rows \in Nat /\ scrape.rows <= logRows /\ scrape.rows # Nil
        /\ \A c \in stored : c.rows <= scrape.rows
    BY <1>0, <1>1, <2>1, StatsAssumption DEF StoredInv
  <2>5. \A c \in stored' : /\ c.rows \in Nat /\ c.at \in Nat /\ c.rows <= logRows
                           /\ c.rows <= scrape.rows
                           /\ c \in stored \/ c.at = time
    BY <1>0, <1>1, <2>1, <2>4 DEF StoredInv
  <2>6. StoredInv'
    BY <2>1, <2>4, <2>5 DEF StoredInv
  <2> QED
    BY <2>1, <2>2, <2>3, <2>5, <2>6, PastStays DEF StillThere, Recent
<1> QED
  BY <1>2, <1>3, <1>4, <1>5

\* The invariant of the stats: what each request and the cache hold was still
\* true at the moment they name, and no stored count is newer than the tables.
THEOREM StatsInvariant == StatsSpec => []StatsInv
<1>1. StatsInv /\ [StatsNext]_statsVars => StatsInv'
  BY ReadersStep, KeepCountStep, FillCacheStep, ScrapeStep DEF StatsNext
<1> QED
  BY StatsInitInv, <1>1, PTL DEF StatsSpec

\* get_stats(): nobody is answered with figures older than the cache may be, nor
\* with a row count older than one that was stored a cache's life before.
THEOREM StatsAreFresh == StatsSpec => []ServedIsFresh
<1>1. StatsInv => ServedIsFresh
  BY DEF StatsInv, VisitInv, VisitOK, ServedIsFresh
<1> QED
  BY StatsInvariant, <1>1, PTL

-----------------------------------------------------------------------------
(* Shared builds.                                                          *)

\* A build holds what was asked for, at prices the server itself has offered.
Answers(b, o, off) ==
    /\ DOMAIN b = DOMAIN o
    /\ \A s \in DOMAIN o : /\ b[s].id = o[s].id /\ b[s].qty = o[s].qty
                           /\ b[s].price_at_share \in off[o[s].id]

ShareShape ==
    /\ price \in [Parts -> Prices \cup {NoPrice}]
    /\ req \in [Requests -> {"new", "lookup", "draw", "done", "refused", "failed"}]
    /\ order \in [Requests -> Orders]
    /\ \E B : build \in [Requests -> B]
    /\ \E C : code \in [Requests -> C]
    /\ offered \in [Requests -> [Parts -> SUBSET (Prices \cup {NoPrice})]]

ShareOK(r) ==
    /\ req[r] = "lookup" => \A p \in Parts : price[p] \in offered[r][p]
    /\ req[r] = "draw"   => Answers(build[r], order[r], offered[r])
    /\ req[r] = "done"   => /\ code[r] \in DOMAIN shared
                            /\ Answers(shared[code[r]], order[r], offered[r])

ShareInv == ShareShape /\ \A r \in Requests : ShareOK(r)

\* No code is given out at the start.
LEMMA ShareInitInv == ShareInit => ShareInv
<1> SUFFICES ASSUME ShareInit PROVE ShareInv
  OBVIOUS
<1>1. build \in [Requests -> {Nothing}] /\ code \in [Requests -> {NoPrice}]
  BY DEF ShareInit
<1>2. offered \in [Requests -> [Parts -> SUBSET (Prices \cup {NoPrice})]]
  BY DEF ShareInit
<1>3. ShareShape
  BY <1>1, <1>2 DEF ShareInit, ShareShape
<1>4. \A r \in Requests : ShareOK(r)
  BY DEF ShareInit, ShareOK
<1> QED
  BY <1>3, <1>4 DEF ShareInv

\* A scrape's new price is offered to every request that has yet to look.
LEMMA RepriceStep ==
    ASSUME ShareInv, NEW p \in Parts, NEW new \in Prices \cup {NoPrice}, Reprice(p, new)
    PROVE  ShareInv'
<1>0. ShareShape
  BY DEF ShareInv
<1>1. /\ price' \in [Parts -> Prices \cup {NoPrice}]
      /\ \A q \in Parts \ {p} : price'[q] = price[q]
      /\ UNCHANGED <<shared, req, order, build, code>>
  BY <1>0 DEF ShareShape, Reprice
<1>2. offered' = [r \in Requests |-> IF req[r] = "lookup"
                                     THEN [offered[r] EXCEPT ![p] = @ \cup {price'[p]}]
                                     ELSE offered[r]]
  BY DEF Reprice
<1>3. /\ price'[p] \in Prices \cup {NoPrice}
      /\ \A r \in Requests : offered[r] \in [Parts -> SUBSET (Prices \cup {NoPrice})]
  BY <1>0, <1>1 DEF ShareShape
<1>4. \A r \in Requests : offered'[r] \in [Parts -> SUBSET (Prices \cup {NoPrice})]
  BY <1>2, <1>3
<1>5. offered' \in [Requests -> [Parts -> SUBSET (Prices \cup {NoPrice})]]
  BY <1>2, <1>4
<1>6. ShareShape'
  BY <1>0, <1>1, <1>5 DEF ShareShape
<1>7. ASSUME NEW r \in Requests PROVE ShareOK(r)'
  <2>0. ShareOK(r)
    BY DEF ShareInv
  <2>1. CASE req[r] = "lookup"
    <3>1. offered'[r] = [offered[r] EXCEPT ![p] = @ \cup {price'[p]}]
      BY <1>2, <2>1
    <3>2. \A q \in Parts : price'[q] \in offered'[r][q]
      BY <1>1, <1>3, <2>0, <2>1, <3>1 DEF ShareOK
    <3> QED
      BY <1>1, <2>1, <3>2 DEF ShareOK
  <2>2. CASE req[r] # "lookup"
    BY <1>1, <1>2, <2>0, <2>2 DEF ShareOK, Answers
  <2> QED
    BY <2>1, <2>2
<1> QED
  BY <1>6, <1>7 DEF ShareInv

\* A request for a share arrives: it may be told any price from now on.
LEMMA ArriveStep ==
    ASSUME ShareInv, NEW r \in Requests, Arrive(r)
    PROVE  ShareInv'
<1>0. ShareShape /\ price \in [Parts -> Prices \cup {NoPrice}]
  BY DEF ShareInv, ShareShape
<1>1. /\ req' = [req EXCEPT ![r] = "lookup"]
      /\ offered' = [offered EXCEPT ![r] = [p \in Parts |-> {price[p]}]]
      /\ UNCHANGED <<price, shared, order, build, code>>
  BY DEF Arrive
<1>2. [p \in Parts |-> {price[p]}] \in [Parts -> SUBSET (Prices \cup {NoPrice})]
  BY <1>0
<1>3. ShareShape'
  BY <1>0, <1>1, <1>2 DEF ShareShape
<1>4. ASSUME NEW q \in Requests PROVE ShareOK(q)'
  <2>0. ShareOK(q)
    BY DEF ShareInv
  <2>1. CASE q = r
    BY <1>0, <1>1, <2>1 DEF ShareOK, ShareShape
  <2>2. CASE q # r
    <3>1. req'[q] = req[q] /\ offered'[q] = offered[q]
      BY <1>0, <1>1, <2>2 DEF ShareShape
    <3> QED
      BY <1>1, <2>0, <3>1 DEF ShareOK, Answers
  <2> QED
    BY <2>1, <2>2
<1> QED
  BY <1>3, <1>4 DEF ShareInv

\* The parts of a slot are looked up.
LEMMA LookupStep ==
    ASSUME ShareInv, NEW r \in Requests, Lookup(r)
    PROVE  ShareInv'
<1>0. ShareShape
  BY DEF ShareInv
<1>1. /\ \/ /\ req' = [req EXCEPT ![r] = "refused"]
            /\ build' = build
         \/ /\ req' = [req EXCEPT ![r] = "draw"]
            /\ build' = [build EXCEPT ![r] = Priced(order[r])]
            /\ \A s \in DOMAIN order[r] : order[r][s].id \in Parts
      /\ req[r] = "lookup"
      /\ UNCHANGED <<price, shared, order, code, offered>>
  BY DEF Lookup
<1>2. \E B : build' \in [Requests -> B]
  <2>1. PICK B : build \in [Requests -> B]
    BY <1>0 DEF ShareShape
  <2>2. build' \in [Requests -> B \cup {Priced(order[r])}]
    BY <1>1, <2>1
  <2> QED
    BY <2>2
<1>3. ShareShape'
  <2>1. req' \in [Requests -> {"new", "lookup", "draw", "done", "refused", "failed"}]
    BY <1>0, <1>1 DEF ShareShape
  <2> QED
    BY <1>0, <1>1, <1>2, <2>1 DEF ShareShape
<1>4. ASSUME NEW q \in Requests PROVE ShareOK(q)'
  <2>0. ShareOK(q) /\ ShareOK(r) /\ DOMAIN build = Requests /\ DOMAIN req = Requests
    BY <1>0 DEF ShareInv, ShareShape
  <2>1. CASE q = r /\ req'[r] = "draw"
    <3>1. build'[r] = Priced(order[r]) /\ \A s \in DOMAIN order[r] : order[r][s].id \in Parts
      BY <1>1, <2>0, <2>1
    <3>2. \A p \in Parts : price[p] \in offered[r][p]
      BY <1>1, <2>0 DEF ShareOK
    <3>3. Answers(build'[r], order[r], offered[r])
      BY <3>1, <3>2 DEF Answers, Priced
    <3> QED
      BY <1>1, <2>1, <3>3 DEF ShareOK, Answers
  <2>2. CASE q = r /\ req'[r] # "draw"
    BY <1>1, <2>0, <2>2 DEF ShareOK
  <2>3. CASE q # r
    <3>1. req'[q] = req[q] /\ build'[q] = build[q]
      BY <1>1, <2>0, <2>3
    <3> QED
      BY <1>1, <2>0, <3>1 DEF ShareOK, Answers
  <2> QED
    BY <2>1, <2>2, <2>3
<1> QED
  BY <1>3, <1>4 DEF ShareInv

\* A code is handed out only where no build has it, so no build is replaced.
LEMMA DrawStep ==
    ASSUME ShareInv, NEW r \in Requests, NEW c \in Codes, Draw(r, c)
    PROVE  ShareInv'
<1>0. ShareShape
  BY DEF ShareInv
<1>1. req[r] = "draw" /\ UNCHANGED <<price, order, build, offered>>
  BY DEF Draw
<1>2. CASE Taken(c)
  <2>1. /\ UNCHANGED <<shared, code>>
        /\ req' = [req EXCEPT ![r] = IF tries[r] + 1 = Tries THEN "failed" ELSE @]
    BY <1>2 DEF Draw
  <2>2. /\ req' \in [Requests -> {"new", "lookup", "draw", "done", "refused", "failed"}]
        /\ \A q \in Requests : req'[q] = req[q] \/ req'[q] = "failed"
    BY <1>0, <2>1 DEF ShareShape
  <2>3. ShareShape'
    BY <1>0, <1>1, <2>1, <2>2 DEF ShareShape
  <2>4. ASSUME NEW q \in Requests PROVE ShareOK(q)'
    BY <1>1, <2>1, <2>2 DEF ShareInv, ShareOK, Answers
  <2> QED
    BY <2>3, <2>4 DEF ShareInv
<1>3. CASE ~Taken(c)
  <2>1. /\ c \notin DOMAIN shared
        /\ shared' = [d \in DOMAIN shared \cup {c} |-> IF d = c THEN build[r] ELSE shared[d]]
        /\ code' = [code EXCEPT ![r] = c]
        /\ req' = [req EXCEPT ![r] = "done"]
    BY <1>3 DEF Draw, Taken
  <2>2. \E C : code' \in [Requests -> C]
    <3>1. PICK C : code \in [Requests -> C]
      BY <1>0 DEF ShareShape
    <3>2. code' \in [Requests -> C \cup {c}]
      BY <2>1, <3>1
    <3> QED
      BY <3>2
  <2>3. ShareShape'
    BY <1>0, <1>1, <2>1, <2>2 DEF ShareShape
  <2>4. ASSUME NEW q \in Requests PROVE ShareOK(q)'
    <3>0. ShareOK(q) /\ ShareOK(r) /\ DOMAIN code = Requests /\ DOMAIN req = Requests
      BY <1>0 DEF ShareInv, ShareShape
    <3>1. CASE q = r
      <4>1. code'[r] = c /\ shared'[c] = build[r] /\ req'[r] = "done" /\ c \in DOMAIN shared'
        BY <2>1, <3>0
      <4>2. Answers(build[r], order[r], offered[r])
        BY <1>1, <3>0 DEF ShareOK
      <4> QED
        BY <1>1, <3>1, <4>1, <4>2 DEF ShareOK, Answers
    <3>2. CASE q # r
      <4>1. code'[q] = code[q] /\ req'[q] = req[q]
        BY <2>1, <3>0, <3>2
      <4>2. \A d \in DOMAIN shared : d \in DOMAIN shared' /\ shared'[d] = shared[d]
        BY <2>1
      <4> QED
        BY <1>1, <3>0, <4>1, <4>2 DEF ShareOK, Answers
    <3> QED
      BY <3>1, <3>2
  <2> QED
    BY <2>3, <2>4 DEF ShareInv
<1> QED
  BY <1>2, <1>3

\* The invariant of shared builds: what a request is about to store, and what its
\* code stands for, answers its order at prices offered while it ran.
THEOREM ShareInvariant == ShareSpec => []ShareInv
<1>1. ASSUME ShareInv, UNCHANGED shareVars PROVE ShareInv'
  <2>1. ShareShape'
    BY <1>1 DEF ShareInv, ShareShape, shareVars
  <2>2. ASSUME NEW r \in Requests PROVE ShareOK(r)'
    <3>1. ShareOK(r)
      BY <1>1 DEF ShareInv
    <3> QED
      BY <1>1, <3>1 DEF ShareOK, Answers, shareVars
  <2> QED
    BY <2>1, <2>2 DEF ShareInv
<1>2. ShareInv /\ [ShareNext]_shareVars => ShareInv'
  BY <1>1, RepriceStep, ArriveStep, LookupStep, DrawStep DEF ShareNext, ShareDone
<1> QED
  BY ShareInitInv, <1>2, PTL DEF ShareSpec

\* resolve_shared_build(): every part comes back in a slot that named it.
LEMMA ResolvedAnswers ==
    ASSUME NEW c \in DOMAIN shared, NEW o, NEW off, Answers(shared[c], o, off)
    PROVE  LET b == Resolved(c)
           IN /\ \A s \in DOMAIN o : NamedOnce(o, s) => s \in DOMAIN b
              /\ {b[s].part : s \in DOMAIN b} = {o[s].id : s \in DOMAIN o}
              /\ \A s \in DOMAIN b : /\ s \in DOMAIN o
                                     /\ b[s].part = o[s].id /\ b[s].qty = o[s].qty
                                     /\ b[s].price_at_share \in off[o[s].id]
<1> DEFINE k == shared[c]
           ids == {k[s].id : s \in DOMAIN k}
           IsLast(f) == \A p \in DOMAIN f : k[f[p]].id = p
           last == CHOOSE f \in [ids -> DOMAIN k] : IsLast(f)
           taken == {last[p] : p \in DOMAIN last}
           b == Resolved(c)
<1>1. last \in [ids -> DOMAIN k] /\ IsLast(last)
  <2> DEFINE g == [p \in ids |-> CHOOSE s \in DOMAIN k : k[s].id = p]
  <2>1. \A p \in ids : g[p] \in DOMAIN k /\ k[g[p]].id = p
    OBVIOUS
  <2>2. g \in [ids -> DOMAIN k] /\ IsLast(g)
    BY <2>1
  <2> HIDE DEF g
  <2> QED
    BY <2>2
<1>2. b = [s \in taken |->
              [part |-> k[s].id, qty |-> k[s].qty, price_at_share |-> k[s].price_at_share,
               price |-> price[k[s].id], listed |-> listed[k[s].id]]]
  BY DEF Resolved
<1> HIDE DEF last
<1>3. taken \subseteq DOMAIN k /\ \A p \in ids : last[p] \in taken /\ k[last[p]].id = p
  BY <1>1
<1>4. /\ DOMAIN b = taken
      /\ \A s \in taken : /\ b[s].part = k[s].id /\ b[s].qty = k[s].qty
                          /\ b[s].price_at_share = k[s].price_at_share
  BY <1>2
<1> HIDE DEF b, taken
<1>5. /\ DOMAIN k = DOMAIN o
      /\ \A s \in DOMAIN o : /\ k[s].id = o[s].id /\ k[s].qty = o[s].qty
                             /\ k[s].price_at_share \in off[o[s].id]
  BY DEF Answers
<1> HIDE DEF k
<1>6. ASSUME NEW s \in DOMAIN o, NamedOnce(o, s) PROVE s \in taken
  <2>1. k[s].id \in ids /\ last[k[s].id] \in taken /\ k[last[k[s].id]].id = k[s].id
    BY <1>3, <1>5
  <2>2. last[k[s].id] = s
    BY <1>3, <1>5, <1>6, <2>1 DEF NamedOnce
  <2> QED
    BY <2>1, <2>2
<1>7. {b[s].part : s \in DOMAIN b} = {o[s].id : s \in DOMAIN o}
  <2>1. ASSUME NEW x \in {b[s].part : s \in DOMAIN b} PROVE x \in {o[s].id : s \in DOMAIN o}
    BY <1>3, <1>4, <1>5
  <2>2. ASSUME NEW s \in DOMAIN o PROVE o[s].id \in {b[t].part : t \in DOMAIN b}
    <3>1. o[s].id \in ids
      BY <1>5
    <3>2. last[o[s].id] \in DOMAIN b /\ b[last[o[s].id]].part = o[s].id
      BY <1>3, <1>4, <3>1
    <3> QED
      BY <3>2
  <2> QED
    BY <2>1, <2>2
<1>8. \A s \in DOMAIN b : /\ s \in DOMAIN o
                          /\ b[s].part = o[s].id /\ b[s].qty = o[s].qty
                          /\ b[s].price_at_share \in off[o[s].id]
  BY <1>3, <1>4, <1>5
<1> QED
  BY <1>4, <1>6, <1>7, <1>8 DEF b

\* share_build(), create_shared_build(), resolve_shared_build(): a code handed out
\* brings back the build it was given for, for any number of requests, slots,
\* codes and scrapes.
THEOREM CodesBringBuildsBack == ShareSpec => []SharedBuildComesBack
<1>1. ShareInv => SharedBuildComesBack
  <2> SUFFICES ASSUME ShareInv, NEW r \in Requests, req[r] = "done"
               PROVE  LET o == order[r]
                          b == Resolved(code[r])
                      IN /\ \A s \in DOMAIN o : NamedOnce(o, s) => s \in DOMAIN b
                         /\ {b[s].part : s \in DOMAIN b} = {o[s].id : s \in DOMAIN o}
                         /\ \A s \in DOMAIN b : /\ s \in DOMAIN o
                                                /\ b[s].part = o[s].id /\ b[s].qty = o[s].qty
                                                /\ b[s].price_at_share \in offered[r][o[s].id]
    BY DEF SharedBuildComesBack
  <2>1. code[r] \in DOMAIN shared /\ Answers(shared[code[r]], order[r], offered[r])
    BY DEF ShareInv, ShareOK
  <2> HIDE DEF ShareInv
  <2> QED
    BY <2>1, ResolvedAnswers
<1> QED
  BY ShareInvariant, <1>1, PTL

-----------------------------------------------------------------------------
(* The share-rate limit: lists of hits.                                    *)

\* g lists, for each i, the fresh ones of the first i hits.
Keeps(s, m, g, n) ==
    g = [i \in 0 .. n |-> IF i = 0 THEN <<>>
                          ELSE IF Fresh(s[i], m) THEN Append(g[i - 1], s[i]) ELSE g[i - 1]]

\* The list comprehension of _check_rate() can be run to the end of any list.
LEMMA KeepsExist ==
    ASSUME NEW s, NEW m, NEW n \in Nat
    PROVE  \E g : Keeps(s, m, g, n)
<1> DEFINE T == {k \in Nat : ~\E g : Keeps(s, m, g, k)}
           Turn(x, i) == IF Fresh(s[i], m) THEN Append(x, s[i]) ELSE x
<1> SUFFICES ASSUME T # {} PROVE FALSE
  OBVIOUS
<1>1. PICK k \in T : \A j \in T : ~(j < k)
  BY LeastOf
<1>2. k # 0
  <2>1. Keeps(s, m, [i \in 0 .. 0 |-> <<>>], 0)
    BY DEF Keeps
  <2> QED
    BY <2>1
<1>3. k \in Nat /\ k - 1 \in Nat /\ k - 1 < k
  BY <1>2
<1>4. PICK g : Keeps(s, m, g, k - 1)
  BY <1>1, <1>3
<1> DEFINE h == [i \in 0 .. k |-> IF i = k THEN Turn(g[k - 1], k) ELSE g[i]]
<1>5. \A i \in 0 .. k - 1 : g[i] = IF i = 0 THEN <<>> ELSE Turn(g[i - 1], i)
  <2>1. g = [i \in 0 .. k - 1 |-> IF i = 0 THEN <<>> ELSE Turn(g[i - 1], i)]
    BY <1>4 DEF Keeps
  <2> HIDE DEF h, Turn
  <2> QED
    BY <2>1, Zenon
<1> HIDE DEF Turn
<1>6. \A i \in 0 .. k : h[i] = IF i = 0 THEN <<>> ELSE Turn(h[i - 1], i)
  <2> SUFFICES ASSUME NEW i \in 0 .. k
               PROVE  h[i] = IF i = 0 THEN <<>> ELSE Turn(h[i - 1], i)
    OBVIOUS
  <2>1. CASE i = 0
    BY <1>2, <1>3, <1>5, <2>1
  <2>2. CASE i = k
    BY <1>2, <1>3, <2>2
  <2>3. CASE i # 0 /\ i # k
    <3>1. i \in 0 .. k - 1 /\ i - 1 \in 0 .. k /\ i - 1 # k
      BY <1>3, <2>3
    <3>2. h[i] = g[i] /\ h[i - 1] = g[i - 1]
      BY <2>3, <3>1
    <3> QED
      BY <1>5, <2>3, <3>1, <3>2
  <2> QED
    BY <2>1, <2>2, <2>3
<1>7. h = [i \in 0 .. k |-> h[i]]
  OBVIOUS
<1> HIDE DEF h
<1>8. h = [i \in 0 .. k |-> IF i = 0 THEN <<>> ELSE Turn(h[i - 1], i)]
  BY <1>6, <1>7, Zenon
<1>9. Keeps(s, m, h, k)
  BY <1>8 DEF Keeps, Turn
<1> QED
  BY <1>1, <1>9

\* h holds exactly the fresh ones of the first n hits, each as often as they do.
Holds(h, s, n, m) ==
    /\ h \in Seq(Nat)
    /\ \E f \in [1 .. Len(h) -> 1 .. n] :
          /\ \A i, j \in 1 .. Len(h) : f[i] = f[j] => i = j
          /\ \A i \in 1 .. Len(h) : h[i] = s[f[i]] /\ Fresh(h[i], m)
          /\ \A k \in 1 .. n : Fresh(s[k], m) => \E i \in 1 .. Len(h) : f[i] = k

\* One more hit of the list read: it is kept when it is fresh.
LEMMA HoldsStep ==
    ASSUME NEW s \in Seq(Nat), NEW m, NEW n \in Nat, n + 1 <= Len(s), NEW h, Holds(h, s, n, m)
    PROVE  Holds(IF Fresh(s[n + 1], m) THEN Append(h, s[n + 1]) ELSE h, s, n + 1, m)
<1>0. n + 1 \in 1 .. Len(s) /\ s[n + 1] \in Nat /\ h \in Seq(Nat) /\ Len(h) \in Nat
  BY DEF Holds
<1>1. PICK f \in [1 .. Len(h) -> 1 .. n] :
          /\ \A i, j \in 1 .. Len(h) : f[i] = f[j] => i = j
          /\ \A i \in 1 .. Len(h) : h[i] = s[f[i]] /\ Fresh(h[i], m)
          /\ \A k \in 1 .. n : Fresh(s[k], m) => \E i \in 1 .. Len(h) : f[i] = k
  BY DEF Holds
<1>2. CASE ~Fresh(s[n + 1], m)
  <2>1. f \in [1 .. Len(h) -> 1 .. n + 1]
    BY <1>0
  <2>2. \A k \in 1 .. n + 1 : Fresh(s[k], m) => \E i \in 1 .. Len(h) : f[i] = k
    <3>1. \A k \in 1 .. n + 1 : k \in 1 .. n \/ k = n + 1
      OBVIOUS
    <3> QED
      BY <1>1, <1>2, <3>1
  <2>3. Holds(h, s, n + 1, m)
    BY <1>0, <1>1, <2>1, <2>2 DEF Holds
  <2> QED
    BY <1>2, <2>3
<1>3. CASE Fresh(s[n + 1], m)
  <2> DEFINE x == s[n + 1]
             l == Len(h) + 1
             g == Append(h, x)
             e == [i \in 1 .. l |-> IF i = l THEN n + 1 ELSE f[i]]
  <2>1. /\ g \in Seq(Nat) /\ Len(g) = l /\ g[l] = x /\ \A i \in 1 .. Len(h) : g[i] = h[i]
        /\ l \in Nat /\ l \in 1 .. l
    BY <1>0, AppendProperties
  <2>2. \A i \in 1 .. l : i = l \/ i \in 1 .. Len(h)
    BY <1>0
  <2>3. e[l] = n + 1 /\ \A i \in 1 .. Len(h) : e[i] = f[i] /\ f[i] \in 1 .. n /\ i # l
    <3>1. \A i \in 1 .. Len(h) : i \in 1 .. l /\ i # l
      BY <1>0
    <3> QED
      BY <1>1, <2>1, <3>1
  <2>4. n + 1 \in 1 .. n + 1 /\ n + 1 \notin 1 .. n /\ \A k \in 1 .. n : k \in 1 .. n + 1
    OBVIOUS
  <2>5. e \in [1 .. l -> 1 .. n + 1]
    BY <2>2, <2>3, <2>4
  <2> HIDE DEF g, e, l
  <2>6. \A i, j \in 1 .. l : e[i] = e[j] => i = j
    <3> SUFFICES ASSUME NEW i \in 1 .. l, NEW j \in 1 .. l, e[i] = e[j] PROVE i = j
      OBVIOUS
    <3>1. CASE i = l /\ j = l
      BY <3>1
    <3>2. CASE i \in 1 .. Len(h) /\ j \in 1 .. Len(h)
      BY <1>1, <2>3, <3>2
    <3>3. CASE (i = l /\ j \in 1 .. Len(h)) \/ (j = l /\ i \in 1 .. Len(h))
      BY <2>3, <2>4, <3>3
    <3> QED
      BY <2>2, <3>1, <3>2, <3>3
  <2>7. \A i \in 1 .. l : g[i] = s[e[i]] /\ Fresh(g[i], m)
    BY <1>1, <1>3, <2>1, <2>2, <2>3
  <2>8. \A k \in 1 .. n + 1 : Fresh(s[k], m) => \E i \in 1 .. l : e[i] = k
    <3> SUFFICES ASSUME NEW k \in 1 .. n + 1, Fresh(s[k], m) PROVE \E i \in 1 .. l : e[i] = k
      OBVIOUS
    <3>1. CASE k = n + 1
      BY <2>1, <2>3, <3>1
    <3>2. CASE k \in 1 .. n
      <4>1. PICK i \in 1 .. Len(h) : f[i] = k
        BY <1>1, <3>2
      <4>2. i \in 1 .. l
        BY <1>0 DEF l
      <4> QED
        BY <2>3, <4>1, <4>2
    <3> QED
      BY <3>1, <3>2
  <2>9. Holds(g, s, n + 1, m)
    <3> DEFINE L == Len(g)
    <3>1. L = l
      BY <2>1
    <3> HIDE DEF L
    <3>2. /\ e \in [1 .. L -> 1 .. n + 1]
          /\ \A i, j \in 1 .. L : e[i] = e[j] => i = j
          /\ \A i \in 1 .. L : g[i] = s[e[i]] /\ Fresh(g[i], m)
          /\ \A k \in 1 .. n + 1 : Fresh(s[k], m) => \E i \in 1 .. L : e[i] = k
      BY <2>5, <2>6, <2>7, <2>8, <3>1
    <3> USE DEF L
    <3> QED
      BY <2>1, <3>2 DEF Holds
  <2> QED
    BY <1>3, <2>9 DEF g
<1> QED
  BY <1>2, <1>3

\* What the list comprehension computes.
LEMMA FreshInHolds ==
    ASSUME NEW s \in Seq(Nat), NEW m
    PROVE  Holds(FreshIn(s, m), s, Len(s), m)
<1>0. Len(s) \in Nat
  OBVIOUS
<1> DEFINE c == CHOOSE g : Keeps(s, m, g, Len(s))
<1>1. Keeps(s, m, c, Len(s))
  BY <1>0, KeepsExist
<1>2. FreshIn(s, m) = c[Len(s)]
  BY DEF FreshIn, Keeps
<1> HIDE DEF c
<1>3. \A i \in 0 .. Len(s) :
          c[i] = IF i = 0 THEN <<>>
                 ELSE IF Fresh(s[i], m) THEN Append(c[i - 1], s[i]) ELSE c[i - 1]
  <2>1. c = [i \in 0 .. Len(s) |-> IF i = 0 THEN <<>>
                 ELSE IF Fresh(s[i], m) THEN Append(c[i - 1], s[i]) ELSE c[i - 1]]
    BY <1>1 DEF Keeps
  <2> QED
    BY <2>1, Zenon
<1> DEFINE T == {k \in 0 .. Len(s) : ~Holds(c[k], s, k, m)}
<1>4. T = {}
  <2> SUFFICES ASSUME T # {} PROVE FALSE
    OBVIOUS
  <2>0. T \subseteq Nat
    OBVIOUS
  <2>1. PICK k \in T : \A j \in T : ~(j < k)
    BY <2>0, LeastOf
  <2>2. CASE k = 0
    <3>1. c[0] = <<>>
      BY <1>0, <1>3
    <3>2. Holds(<<>>, s, 0, m)
      <4>1. <<>> \in Seq(Nat) /\ Len(<<>>) = 0 /\ 1 .. 0 = {}
        OBVIOUS
      <4>2. [i \in {} |-> 0] \in [{} -> {}]
        OBVIOUS
      <4> QED
        BY <4>1, <4>2 DEF Holds
    <3> QED
      BY <2>1, <2>2, <3>1, <3>2
  <2>3. CASE k # 0
    <3>1. k - 1 \in 0 .. Len(s) /\ k - 1 < k /\ k - 1 \in Nat /\ (k - 1) + 1 = k /\ k <= Len(s)
      BY <1>0, <2>1, <2>3
    <3>2. Holds(c[k - 1], s, k - 1, m)
      BY <2>1, <3>1
    <3>3. c[k] = IF Fresh(s[k], m) THEN Append(c[k - 1], s[k]) ELSE c[k - 1]
      BY <1>3, <2>1, <2>3
    <3>4. Holds(c[k], s, k, m)
      <4> DEFINE j == k - 1
      <4>1. j \in Nat /\ j + 1 = k /\ Holds(c[j], s, j, m)
        BY <3>1, <3>2
      <4> HIDE DEF j
      <4>2. Holds(IF Fresh(s[j + 1], m) THEN Append(c[j], s[j + 1]) ELSE c[j], s, j + 1, m)
        BY <3>1, <4>1, HoldsStep
      <4>3. c[k] = IF Fresh(s[j + 1], m) THEN Append(c[j], s[j + 1]) ELSE c[j]
        BY <3>3, <4>1 DEF j
      <4> QED
        BY <4>1, <4>2, <4>3
    <3> QED
      BY <2>1, <3>4
  <2> QED
    BY <2>2, <2>3
<1>5. Len(s) \in 0 .. Len(s)
  BY <1>0
<1> QED
  BY <1>2, <1>4, <1>5

\* The hits of s at the places in A are all in t, each as often.
Into(s, A, t) ==
    \E f \in [A -> DOMAIN t] :
       /\ \A i, j \in A : f[i] = f[j] => i = j
       /\ \A i \in A : t[f[i]] = s[i]

FreshAt(s, m) == {i \in DOMAIN s : Fresh(s[i], m)}

\* What embeds into a list embeds with fewer of its members.
LEMMA IntoFewer ==
    ASSUME NEW s, NEW A, NEW t, Into(s, A, t), NEW B, B \subseteq A
    PROVE  Into(s, B, t)
<1>1. PICK f \in [A -> DOMAIN t] : /\ \A i, j \in A : f[i] = f[j] => i = j
                                   /\ \A i \in A : t[f[i]] = s[i]
  BY DEF Into
<1> DEFINE g == [i \in B |-> f[i]]
<1>2. /\ g \in [B -> DOMAIN t] /\ \A i, j \in B : g[i] = g[j] => i = j
      /\ \A i \in B : t[g[i]] = s[i]
  BY <1>1
<1> HIDE DEF g
<1> QED
  BY <1>2 DEF Into

\* Nothing embeds into any list.
LEMMA IntoNothing ==
    ASSUME NEW s, NEW t
    PROVE  Into(s, {}, t)
<1>1. [i \in {} |-> 0] \in [{} -> DOMAIN t]
  OBVIOUS
<1> QED
  BY <1>1 DEF Into

\* One hit more in t.
LEMMA IntoLonger ==
    ASSUME NEW s, NEW A, NEW t \in Seq(Nat), Into(s, A, t), NEW x \in Nat
    PROVE  Into(s, A, Append(t, x))
<1>1. PICK f \in [A -> DOMAIN t] : /\ \A i, j \in A : f[i] = f[j] => i = j
                                   /\ \A i \in A : t[f[i]] = s[i]
  BY DEF Into
<1> DEFINE u == Append(t, x)
<1>2. \A i \in DOMAIN t : i \in DOMAIN u /\ u[i] = t[i]
  OBVIOUS
<1> HIDE DEF u
<1>3. f \in [A -> DOMAIN u] /\ \A i \in A : u[f[i]] = s[i]
  BY <1>1, <1>2
<1>4. Into(s, A, u)
  BY <1>1, <1>3 DEF Into
<1> QED
  BY <1>4 DEF u

\* The same hit more in both.
LEMMA IntoBoth ==
    ASSUME NEW s \in Seq(Nat), NEW A, A \subseteq DOMAIN s, NEW t \in Seq(Nat), Into(s, A, t),
           NEW x \in Nat
    PROVE  Into(Append(s, x), A \cup {Len(s) + 1}, Append(t, x))
<1>1. PICK f \in [A -> DOMAIN t] : /\ \A i, j \in A : f[i] = f[j] => i = j
                                   /\ \A i \in A : t[f[i]] = s[i]
  BY DEF Into
<1> DEFINE u == Append(t, x)
           r == Append(s, x)
           k == Len(s) + 1
           l == Len(t) + 1
           g == [i \in A \cup {k} |-> IF i = k THEN l ELSE f[i]]
<1>2. /\ \A i \in DOMAIN t : i \in DOMAIN u /\ u[i] = t[i] /\ i # l
      /\ l \in DOMAIN u /\ u[l] = x
  OBVIOUS
<1>3. /\ \A i \in DOMAIN s : r[i] = s[i] /\ i # k
      /\ r[k] = x
  OBVIOUS
<1> HIDE DEF u, r, k, l
<1>4. g[k] = l /\ \A i \in A : g[i] = f[i] /\ f[i] \in DOMAIN t /\ i # k
  BY <1>1, <1>3
<1>5. g \in [A \cup {k} -> DOMAIN u]
  BY <1>2, <1>4
<1> HIDE DEF g
<1>6. \A i, j \in A \cup {k} : g[i] = g[j] => i = j
  <2> SUFFICES ASSUME NEW i \in A \cup {k}, NEW j \in A \cup {k}, g[i] = g[j] PROVE i = j
    OBVIOUS
  <2>1. CASE i \in A /\ j \in A
    BY <1>1, <1>4, <2>1
  <2>2. CASE (i = k /\ j \in A) \/ (j = k /\ i \in A)
    BY <1>2, <1>4, <2>2
  <2> QED
    BY <2>1, <2>2
<1>7. \A i \in A \cup {k} : u[g[i]] = r[i]
  <2> SUFFICES ASSUME NEW i \in A \cup {k} PROVE u[g[i]] = r[i]
    OBVIOUS
  <2>1. CASE i \in A
    <3>1. u[f[i]] = t[f[i]] /\ r[i] = s[i]
      BY <1>1, <1>2, <1>3, <2>1
    <3> QED
      BY <1>1, <1>4, <2>1, <3>1
  <2>2. CASE i = k
    BY <1>2, <1>3, <1>4, <2>2
  <2> QED
    BY <2>1, <2>2
<1>8. Into(r, A \cup {k}, u)
  BY <1>5, <1>6, <1>7 DEF Into
<1> QED
  BY <1>8 DEF r, k, u

\* The fresh ones of a list are in whatever the list is in.
LEMMA FreshGoesInto ==
    ASSUME NEW s \in Seq(Nat), NEW m, NEW t, Into(s, DOMAIN s, t)
    PROVE  Into(FreshIn(s, m), DOMAIN FreshIn(s, m), t)
<1> DEFINE h == FreshIn(s, m)
<1>1. PICK f \in [DOMAIN s -> DOMAIN t] : /\ \A i, j \in DOMAIN s : f[i] = f[j] => i = j
                                          /\ \A i \in DOMAIN s : t[f[i]] = s[i]
  BY DEF Into
<1>2. Holds(h, s, Len(s), m)
  BY FreshInHolds
<1> HIDE DEF h
<1>3. PICK e \in [1 .. Len(h) -> 1 .. Len(s)] :
          /\ \A i, j \in 1 .. Len(h) : e[i] = e[j] => i = j
          /\ \A i \in 1 .. Len(h) : h[i] = s[e[i]] /\ Fresh(h[i], m)
  BY <1>2 DEF Holds
<1>4. DOMAIN h = 1 .. Len(h) /\ DOMAIN s = 1 .. Len(s)
  BY <1>2 DEF Holds
<1> DEFINE g == [i \in DOMAIN h |-> f[e[i]]]
<1>5. \A i \in DOMAIN h : g[i] = f[e[i]] /\ e[i] \in DOMAIN s
  BY <1>3, <1>4
<1>6. g \in [DOMAIN h -> DOMAIN t]
  BY <1>1, <1>5
<1> HIDE DEF g
<1>7. \A i, j \in DOMAIN h : g[i] = g[j] => i = j
  BY <1>1, <1>3, <1>4, <1>5
<1>8. \A i \in DOMAIN h : t[g[i]] = h[i]
  BY <1>1, <1>3, <1>4, <1>5
<1>9. Into(h, DOMAIN h, t)
  BY <1>6, <1>7, <1>8 DEF Into
<1> QED
  BY <1>9 DEF h

\* Whatever is fresh later is fresh now: filtering loses none of it.
LEMMA FreshKeepsInto ==
    ASSUME NEW a, NEW s \in Seq(Nat), NEW m \in Nat, NEW k \in Nat, m <= k,
           a \in Seq(Nat), Into(a, FreshAt(a, k), s)
    PROVE  Into(a, FreshAt(a, k), FreshIn(s, m))
<1> DEFINE h == FreshIn(s, m)
           A == FreshAt(a, k)
<1>1. PICK f \in [A -> DOMAIN s] : /\ \A i, j \in A : f[i] = f[j] => i = j
                                   /\ \A i \in A : s[f[i]] = a[i]
  BY DEF Into
<1>2. Holds(h, s, Len(s), m)
  BY FreshInHolds
<1> HIDE DEF h
<1>3. PICK e \in [1 .. Len(h) -> 1 .. Len(s)] :
          /\ \A i, j \in 1 .. Len(h) : e[i] = e[j] => i = j
          /\ \A i \in 1 .. Len(h) : h[i] = s[e[i]] /\ Fresh(h[i], m)
          /\ \A j \in 1 .. Len(s) : Fresh(s[j], m) => \E i \in 1 .. Len(h) : e[i] = j
  BY <1>2 DEF Holds
<1>4. DOMAIN h = 1 .. Len(h) /\ DOMAIN s = 1 .. Len(s)
  BY <1>2 DEF Holds
<1>5. \A i \in A : f[i] \in DOMAIN s /\ Fresh(s[f[i]], m)
  <2> SUFFICES ASSUME NEW i \in A PROVE Fresh(s[f[i]], m)
    BY <1>1
  <2>1. Fresh(a[i], k) /\ a[i] \in Nat /\ Window \in Nat
    BY RateAssumption DEF FreshAt
  <2> QED
    BY <1>1, <2>1 DEF Fresh
<1> HIDE DEF A
<1> DEFINE g == [i \in A |-> CHOOSE j \in DOMAIN h : e[j] = f[i]]
<1>6. \A i \in A : g[i] \in DOMAIN h /\ e[g[i]] = f[i]
  <2> SUFFICES ASSUME NEW i \in A PROVE \E j \in DOMAIN h : e[j] = f[i]
    OBVIOUS
  <2> QED
    BY <1>3, <1>4, <1>5
<1>7. g \in [A -> DOMAIN h]
  BY <1>6
<1> HIDE DEF g
<1>8. \A i, j \in A : g[i] = g[j] => i = j
  <2> SUFFICES ASSUME NEW i \in A, NEW j \in A, g[i] = g[j] PROVE i = j
    OBVIOUS
  <2>1. f[i] = f[j]
    BY <1>6
  <2> QED
    BY <1>1, <2>1
<1>9. \A i \in A : h[g[i]] = a[i]
  BY <1>1, <1>3, <1>4, <1>6
<1>10. Into(a, A, h)
  BY <1>7, <1>8, <1>9 DEF Into
<1> QED
  BY <1>10 DEF h, A

\* Counting.
LEMMA FreshAtFinite ==
    ASSUME NEW a \in Seq(Nat), NEW m
    PROVE  IsFiniteSet(FreshAt(a, m)) /\ Cardinality(FreshAt(a, m)) \in Nat
<1>1. IsFiniteSet(1 .. Len(a)) /\ FreshAt(a, m) \subseteq 1 .. Len(a)
  BY FS_Interval DEF FreshAt
<1> QED
  BY <1>1, FS_Subset, FS_CardinalityType

\* A list has at least as many entries as are embedded into it.
LEMMA IntoCounts ==
    ASSUME NEW s, NEW A, NEW t \in Seq(Nat), Into(s, A, t)
    PROVE  Cardinality(A) <= Len(t)
<1>1. PICK f \in [A -> DOMAIN t] : \A i, j \in A : f[i] = f[j] => i = j
  BY DEF Into
<1>2. /\ IsFiniteSet(DOMAIN t) /\ Cardinality(DOMAIN t) = Len(t)
  BY FS_Interval
<1>3. f \in Injection(A, DOMAIN t)
  BY <1>1 DEF Injection, IsInjective
<1> QED
  BY <1>2, <1>3, FS_Injection

\* Fresh hits that are all entries of a list are no more than its fresh entries.
LEMMA FreshCounts ==
    ASSUME NEW h \in Seq(Nat), NEW a \in Seq(Nat), NEW m, Into(h, DOMAIN h, a),
           \A i \in DOMAIN h : Fresh(h[i], m)
    PROVE  Len(h) <= Cardinality(FreshAt(a, m))
<1>1. PICK f \in [DOMAIN h -> DOMAIN a] : /\ \A i, j \in DOMAIN h : f[i] = f[j] => i = j
                                          /\ \A i \in DOMAIN h : a[f[i]] = h[i]
  BY DEF Into
<1>2. f \in [DOMAIN h -> FreshAt(a, m)]
  BY <1>1 DEF FreshAt
<1>3. f \in Injection(DOMAIN h, FreshAt(a, m))
  BY <1>1, <1>2 DEF Injection, IsInjective
<1>4. IsFiniteSet(FreshAt(a, m))
  BY FreshAtFinite
<1>5. Cardinality(DOMAIN h) <= Cardinality(FreshAt(a, m))
  BY <1>3, <1>4, FS_Injection
<1>6. Cardinality(DOMAIN h) = Len(h)
  <2>1. DOMAIN h = 1 .. Len(h) /\ Len(h) \in Nat
    OBVIOUS
  <2>2. Cardinality(1 .. Len(h)) = Len(h)
    BY <2>1, CountUpTo
  <2> QED
    BY <2>1, <2>2
<1> QED
  BY <1>5, <1>6

\* Another entry takes no fresh one away.
LEMMA FreshGrows ==
    ASSUME NEW a \in Seq(Nat), NEW x \in Nat, NEW m
    PROVE  Cardinality(FreshAt(a, m)) <= Cardinality(FreshAt(Append(a, x), m))
<1> DEFINE b == Append(a, x)
<1>1. b \in Seq(Nat) /\ \A i \in DOMAIN a : i \in DOMAIN b /\ b[i] = a[i]
  OBVIOUS
<1> HIDE DEF b
<1>2. FreshAt(a, m) \subseteq FreshAt(b, m)
  BY <1>1 DEF FreshAt
<1>3. IsFiniteSet(FreshAt(b, m))
  BY <1>1, FreshAtFinite
<1>4. Cardinality(FreshAt(a, m)) <= Cardinality(FreshAt(b, m))
  BY <1>2, <1>3, FS_Subset
<1> QED
  BY <1>4 DEF b

-----------------------------------------------------------------------------
(* The share-rate limit: the checks.                                       *)

RateShape ==
    /\ clock \in Nat
    /\ DOMAIN rate \subseteq Clients /\ \A c \in DOMAIN rate : rate[c] \in Seq(Nat)
    /\ at \in [Workers -> {"idle", "scan", "delete", "read", "store", "admitted", "refused",
                           "error"}]
    /\ who \in [Workers -> Clients \cup {Nobody}]
    /\ now \in [Workers -> Nat] /\ \A w \in Workers : now[w] <= clock
    /\ DOMAIN size = Workers
    /\ stale \in [Workers -> SUBSET Clients] /\ hits \in [Workers -> Seq(Nat)]
    /\ admitted \in [Clients -> Seq(Nat)]
    /\ overlapped \in BOOLEAN

\* No list holds more than the client was admitted for, nor more than the cap.
ListsInv ==
    \A c \in Clients : /\ Len(HitsOf(c)) <= Limit
                       /\ Into(HitsOf(c), DOMAIN HitsOf(c), admitted[c])

CheckOK(w) ==
    /\ at[w] \in {"scan", "delete", "read", "store", "refused"} => who[w] \in Clients
    /\ at[w] = "store" => \E h \in Seq(Nat) :
                             /\ hits[w] = Append(h, now[w]) /\ Len(h) < Limit
                             /\ Into(h, DOMAIN h, admitted[who[w]])
    /\ at[w] = "refused" => Limit <= Cardinality(FreshAt(admitted[who[w]], now[w]))

\* As long as no checks overlap: every hit that still counts is in the client's
\* list, and the sweep under way holds what is in the dict and no longer counts.
KeptInv ==
    \A c \in Clients : Into(admitted[c], FreshAt(admitted[c], clock), HitsOf(c))

AloneOK(w) ==
    /\ at[w] # "error"
    /\ at[w] = "scan" => size[w] = Cardinality(DOMAIN rate)
    /\ at[w] \in {"scan", "delete"} => /\ stale[w] \subseteq DOMAIN rate
                                       /\ \A c \in stale[w] : IsStale(c, now[w])
    /\ at[w] \notin {"scan", "delete"} => stale[w] = {}
    /\ at[w] = "store" => \E h \in Seq(Nat) :
                             /\ hits[w] = Append(h, now[w])
                             /\ Into(admitted[who[w]], FreshAt(admitted[who[w]], clock), h)

OneAtATime == \A u, v \in Workers : UnderWay(u) /\ UnderWay(v) => u = v

AloneInv == ~overlapped => KeptInv /\ OneAtATime /\ \A w \in Workers : AloneOK(w)

RateInv == RateShape /\ ListsInv /\ (\A w \in Workers : CheckOK(w)) /\ AloneInv

\* Nobody has been counted at the start.
LEMMA RateInitInv == RateInit => RateInv
<1> SUFFICES ASSUME RateInit PROVE RateInv
  OBVIOUS
<1>1. RateShape
  <2>1. overlapped \in BOOLEAN
    BY Zenon DEF RateInit
  <2>2. DOMAIN rate = {} /\ <<>> \in Seq(Nat)
    BY DEF RateInit
  <2> QED
    BY <2>1, <2>2 DEF RateInit, RateShape
<1>2. \A c \in Clients : HitsOf(c) = <<>> /\ admitted[c] = <<>>
  BY DEF RateInit, HitsOf
<1>3. DOMAIN <<>> = {} /\ Len(<<>>) = 0 /\ Limit \in Nat /\ \A m : FreshAt(<<>>, m) = {}
  BY RateAssumption DEF FreshAt
<1>4. ListsInv /\ KeptInv
  <2> SUFFICES ASSUME NEW c \in Clients
               PROVE  /\ Len(HitsOf(c)) <= Limit
                      /\ Into(HitsOf(c), DOMAIN HitsOf(c), admitted[c])
                      /\ Into(admitted[c], FreshAt(admitted[c], clock), HitsOf(c))
    BY DEF ListsInv, KeptInv
  <2>1. DOMAIN HitsOf(c) = {} /\ FreshAt(admitted[c], clock) = {} /\ Len(HitsOf(c)) <= Limit
    BY <1>2, <1>3
  <2> QED
    BY <2>1, IntoNothing
<1>5. \A w \in Workers : at[w] = "idle" /\ stale[w] = {}
  BY DEF RateInit
<1>6. OneAtATime /\ \A w \in Workers : CheckOK(w) /\ AloneOK(w)
  BY <1>5 DEF OneAtATime, UnderWay, CheckOK, AloneOK
<1> QED
  BY <1>1, <1>4, <1>6 DEF RateInv, AloneInv

\* The hits of a client are times, whether it has a key or not.
LEMMA HitsAreTimes ==
    ASSUME RateShape, NEW c
    PROVE  HitsOf(c) \in Seq(Nat)
BY DEF RateShape, HitsOf

\* What is fresh at a moment was fresh before.
LEMMA FreshEarlier ==
    ASSUME NEW a \in Seq(Nat), NEW k \in Nat, NEW m \in Nat, m <= k
    PROVE  FreshAt(a, k) \subseteq FreshAt(a, m)
<1>1. Window \in Nat /\ \A i \in DOMAIN a : a[i] \in Nat
  BY RateAssumption
<1> QED
  BY <1>1 DEF FreshAt, Fresh

\* While a check is under way and none overlaps it, the other workers rest.
LEMMA OthersRest ==
    ASSUME RateInv, ~overlapped, NEW w \in Workers, UnderWay(w), NEW u \in Workers, u # w
    PROVE  at[u] \in {"idle", "admitted", "refused"} /\ stale[u] = {}
<1>1. ~UnderWay(u) /\ AloneOK(u)
  BY DEF RateInv, AloneInv, OneAtATime
<1>2. at[u] \in {"idle", "scan", "delete", "read", "store", "admitted", "refused", "error"}
  BY DEF RateInv, RateShape
<1> QED
  BY <1>1, <1>2 DEF AloneOK, UnderWay

\* A step of one worker that changes no list: the others see nothing of it.
LEMMA CheckStep ==
    ASSUME RateInv, NEW w \in Workers, RateShape',
           \A c : HitsOf(c)' = HitsOf(c),
           \A u \in Workers \ {w} : /\ at'[u] = at[u] /\ who'[u] = who[u] /\ now'[u] = now[u]
                                    /\ size'[u] = size[u] /\ stale'[u] = stale[u]
                                    /\ hits'[u] = hits[u],
           UNCHANGED <<clock, admitted>>,
           ~overlapped' => /\ ~overlapped
                           /\ UnderWay(w) \/ UnderWay(w)' \/ rate' = rate
                           /\ UnderWay(w)' /\ ~UnderWay(w) => \A u \in Workers : ~UnderWay(u),
           CheckOK(w)', ~overlapped' => AloneOK(w)'
    PROVE  RateInv'
<1>1. ListsInv' /\ (KeptInv => KeptInv')
  BY DEF RateInv, ListsInv, KeptInv
<1>2. ASSUME NEW u \in Workers PROVE CheckOK(u)'
  <2>1. CASE u # w
    <3>1. CheckOK(u) /\ at'[u] = at[u] /\ who'[u] = who[u] /\ now'[u] = now[u] /\ hits'[u] = hits[u]
      BY <2>1 DEF RateInv
    <3> QED
      BY <3>1 DEF CheckOK
  <2> QED
    BY <2>1
<1>3. ASSUME ~overlapped' PROVE KeptInv' /\ OneAtATime' /\ \A u \in Workers : AloneOK(u)'
  <2>0. ~overlapped /\ KeptInv /\ OneAtATime /\ \A u \in Workers : AloneOK(u)
    BY <1>3 DEF RateInv, AloneInv
  <2>1. \A u \in Workers \ {w} : UnderWay(u)' <=> UnderWay(u)
    BY DEF UnderWay
  <2>2. OneAtATime'
    <3>1. ASSUME NEW u \in Workers \ {w}, UnderWay(w)', UnderWay(u)' PROVE FALSE
      <4>1. UnderWay(u)
        BY <2>1, <3>1
      <4>2. UnderWay(w)
        BY <1>3, <3>1, <4>1
      <4> QED
        BY <2>0, <4>1, <4>2 DEF OneAtATime
    <3> QED
      BY <2>0, <2>1, <3>1 DEF OneAtATime
  <2>3. ASSUME NEW u \in Workers PROVE AloneOK(u)'
    <3>1. CASE u # w /\ UnderWay(u)
      <4>1. ~UnderWay(w)
        BY <2>0, <3>1 DEF OneAtATime
      <4>2. rate' = rate
        BY <1>3, <3>1, <4>1
      <4>3. /\ AloneOK(u) /\ at'[u] = at[u] /\ who'[u] = who[u] /\ now'[u] = now[u]
            /\ hits'[u] = hits[u] /\ stale'[u] = stale[u] /\ size'[u] = size[u]
        BY <2>0, <3>1
      <4> QED
        BY <4>2, <4>3 DEF AloneOK, IsStale
    <3>2. CASE u # w /\ ~UnderWay(u)
      <4>1. AloneOK(u) /\ at'[u] = at[u] /\ stale'[u] = stale[u]
        BY <2>0, <3>2
      <4> QED
        BY <3>2, <4>1 DEF AloneOK, UnderWay
    <3> QED
      BY <1>3, <3>1, <3>2
  <2> QED
    BY <1>1, <2>0, <2>2, <2>3
<1> QED
  BY <1>1, <1>2, <1>3 DEF RateInv, AloneInv

\* The clock: fresh hits can only go stale.
LEMMA TickStep ==
    ASSUME RateInv, RateTick
    PROVE  RateInv'
<1>0. RateShape /\ ListsInv /\ (\A w \in Workers : CheckOK(w)) /\ AloneInv
  BY DEF RateInv
<1>1. /\ clock' = clock + 1
      /\ UNCHANGED <<rate, lastPrune, at, who, now, size, stale, hits, admitted, overlapped>>
  BY DEF RateTick, check
<1>2. RateShape' /\ clock \in Nat /\ clock' \in Nat /\ clock <= clock'
  BY <1>0, <1>1 DEF RateShape
<1>3. ListsInv' /\ \A w \in Workers : CheckOK(w)'
  BY <1>0, <1>1 DEF ListsInv, CheckOK, HitsOf
<1>4. \A c \in Clients : FreshAt(admitted[c], clock') \subseteq FreshAt(admitted[c], clock)
  BY <1>0, <1>2, FreshEarlier DEF RateShape
<1>5. ASSUME ~overlapped' PROVE KeptInv' /\ OneAtATime' /\ \A w \in Workers : AloneOK(w)'
  <2>0. KeptInv /\ OneAtATime /\ \A w \in Workers : AloneOK(w)
    BY <1>0, <1>1, <1>5 DEF AloneInv
  <2>1. KeptInv'
    BY <1>1, <1>4, <2>0, IntoFewer DEF KeptInv, HitsOf
  <2>2. OneAtATime'
    BY <1>1, <2>0 DEF OneAtATime, UnderWay
  <2>3. ASSUME NEW w \in Workers PROVE AloneOK(w)'
    <3>1. ASSUME at[w] = "store"
          PROVE  \E h \in Seq(Nat) :
                    /\ hits[w] = Append(h, now[w])
                    /\ Into(admitted[who[w]], FreshAt(admitted[who[w]], clock'), h)
      <4>1. PICK h \in Seq(Nat) :
                    /\ hits[w] = Append(h, now[w])
                    /\ Into(admitted[who[w]], FreshAt(admitted[who[w]], clock), h)
        BY <2>0, <3>1 DEF AloneOK
      <4>2. who[w] \in Clients
        BY <1>0, <3>1 DEF CheckOK
      <4> QED
        BY <1>4, <4>1, <4>2, IntoFewer
    <3>2. AloneOK(w)
      BY <2>0
    <3> QED
      BY <1>1, <3>1, <3>2 DEF AloneOK, IsStale
  <2> QED
    BY <2>1, <2>2, <2>3
<1> QED
  BY <1>2, <1>3, <1>5 DEF RateInv, AloneInv

\* A check begins: the clock is read, and a sweep may be due.
LEMMA StartStep ==
    ASSUME RateInv, NEW w \in Workers, NEW c \in Clients, StartCheck(w, c)
    PROVE  RateInv'
<1>0. RateShape /\ ListsInv /\ (\A v \in Workers : CheckOK(v)) /\ AloneInv
  BY DEF RateInv
<1>1. /\ at[w] = "idle" /\ who' = [who EXCEPT ![w] = c] /\ now' = [now EXCEPT ![w] = clock]
      /\ \/ /\ at' = [at EXCEPT ![w] = "scan"]
            /\ size' = [size EXCEPT ![w] = Cardinality(DOMAIN rate)]
         \/ at' = [at EXCEPT ![w] = "read"] /\ size' = size
      /\ UNCHANGED <<clock, rate, stale, hits, admitted>>
  BY DEF StartCheck
<1>2. overlapped' \in BOOLEAN
  BY Zenon DEF StartCheck
<1>3. ~overlapped' => ~overlapped /\ \A v \in Workers : ~UnderWay(v)
  BY Zenon DEF StartCheck
<1>4. /\ DOMAIN at = Workers /\ DOMAIN who = Workers /\ DOMAIN now = Workers
      /\ DOMAIN size = Workers
  BY <1>0 DEF RateShape
<1>5. RateShape'
  <2>1. /\ at' \in [Workers -> {"idle", "scan", "delete", "read", "store", "admitted",
                               "refused", "error"}]
        /\ DOMAIN size' = Workers
    BY <1>0, <1>1 DEF RateShape
  <2>2. /\ now' \in [Workers -> Nat] /\ who' \in [Workers -> Clients \cup {Nobody}]
        /\ \A v \in Workers : now'[v] <= clock
    BY <1>0, <1>1 DEF RateShape
  <2> QED
    BY <1>0, <1>1, <1>2, <2>1, <2>2 DEF RateShape
<1>6. at'[w] \in {"scan", "read"} /\ who'[w] = c /\ UnderWay(w)'
  BY <1>1, <1>4 DEF UnderWay
<1>7. CheckOK(w)'
  BY <1>6 DEF CheckOK
<1>8. ASSUME ~overlapped' PROVE AloneOK(w)'
  <2>1. stale[w] = {}
    BY <1>0, <1>1, <1>3, <1>8 DEF AloneInv, AloneOK
  <2>2. at'[w] = "scan" => size'[w] = Cardinality(DOMAIN rate)
    BY <1>1, <1>4
  <2> QED
    BY <1>1, <1>6, <2>1, <2>2 DEF AloneOK
<1>9. \A u \in Workers \ {w} : /\ at'[u] = at[u] /\ who'[u] = who[u] /\ now'[u] = now[u]
                               /\ size'[u] = size[u] /\ stale'[u] = stale[u]
                               /\ hits'[u] = hits[u]
  BY <1>1, <1>4
<1>10. \A d : HitsOf(d)' = HitsOf(d)
  BY <1>1 DEF HitsOf
<1> QED
  BY <1>1, <1>3, <1>5, <1>6, <1>7, <1>8, <1>9, <1>10, CheckStep

\* The sweep looks at one key.
LEMMA ScanStep ==
    ASSUME RateInv, NEW w \in Workers, NEW c \in Clients, ScanKey(w, c)
    PROVE  RateInv'
<1>0. RateShape /\ ListsInv /\ (\A v \in Workers : CheckOK(v)) /\ AloneInv
  BY DEF RateInv
<1>1. /\ at[w] = "scan" /\ c \in DOMAIN rate
      /\ stale' = [stale EXCEPT ![w] = IF IsStale(c, now[w]) THEN @ \cup {c} ELSE @]
      /\ UNCHANGED <<clock, rate, at, who, now, size, hits, admitted, overlapped>>
  BY DEF ScanKey
<1>2. DOMAIN stale = Workers
  BY <1>0 DEF RateShape
<1>3. RateShape'
  BY <1>0, <1>1 DEF RateShape
<1>4. CheckOK(w)'
  BY <1>0, <1>1 DEF CheckOK
<1>5. ASSUME ~overlapped' PROVE AloneOK(w)'
  <2>1. AloneOK(w)
    BY <1>0, <1>1, <1>5 DEF AloneInv
  <2>2. stale'[w] = IF IsStale(c, now[w]) THEN stale[w] \cup {c} ELSE stale[w]
    BY <1>1, <1>2
  <2> QED
    BY <1>1, <2>1, <2>2 DEF AloneOK, IsStale
<1>6. \A u \in Workers \ {w} : stale'[u] = stale[u]
  BY <1>1, <1>2
<1>7. \A d : HitsOf(d)' = HitsOf(d)
  BY <1>1 DEF HitsOf
<1>8. UnderWay(w) /\ UnderWay(w)'
  BY <1>1 DEF UnderWay
<1> QED
  BY <1>1, <1>3, <1>4, <1>5, <1>6, <1>7, <1>8, CheckStep

\* The sweep's scan ends: in an error only where the dict's size changed, which
\* no one does while the worker is alone.
LEMMA EndScanStep ==
    ASSUME RateInv, NEW w \in Workers, EndScan(w)
    PROVE  RateInv'
<1>0. RateShape /\ ListsInv /\ (\A v \in Workers : CheckOK(v)) /\ AloneInv
  BY DEF RateInv
<1>1. /\ at[w] = "scan" /\ at' = [at EXCEPT ![w] = IF ScanBroken(w) THEN "error" ELSE "delete"]
      /\ size' = [size EXCEPT ![w] = 0]
      /\ UNCHANGED <<clock, rate, who, now, stale, hits, admitted, overlapped>>
  BY DEF EndScan
<1>2. DOMAIN at = Workers /\ DOMAIN size = Workers
  BY <1>0 DEF RateShape
<1>3. RateShape'
  BY <1>0, <1>1 DEF RateShape
<1>4. at'[w] \in {"error", "delete"} /\ (at'[w] = "error" => ScanBroken(w))
  BY <1>1, <1>2
<1>5. CheckOK(w)'
  BY <1>0, <1>1, <1>4 DEF CheckOK
<1>6. ASSUME ~overlapped' PROVE AloneOK(w)'
  <2>1. AloneOK(w)
    BY <1>0, <1>1, <1>6 DEF AloneInv
  <2>2. ~ScanBroken(w)
    BY <1>1, <2>1 DEF AloneOK, ScanBroken
  <2> QED
    BY <1>1, <1>4, <2>1, <2>2 DEF AloneOK, IsStale
<1>7. \A u \in Workers \ {w} : at'[u] = at[u] /\ size'[u] = size[u]
  BY <1>1, <1>2
<1>8. \A d : HitsOf(d)' = HitsOf(d)
  BY <1>1 DEF HitsOf
<1>9. UnderWay(w)
  BY <1>1 DEF UnderWay
<1> QED
  BY <1>1, <1>3, <1>5, <1>6, <1>7, <1>8, <1>9, CheckStep

\* The sweep is over: the keys it listed are deleted.
LEMMA EndPruneStep ==
    ASSUME RateInv, NEW w \in Workers, EndPrune(w)
    PROVE  RateInv'
<1>0. RateShape /\ ListsInv /\ (\A v \in Workers : CheckOK(v)) /\ AloneInv
  BY DEF RateInv
<1>1. /\ at[w] = "delete" /\ stale[w] = {} /\ at' = [at EXCEPT ![w] = "read"]
      /\ UNCHANGED <<clock, rate, who, now, size, stale, hits, admitted, overlapped>>
  BY DEF EndPrune, check
<1>2. DOMAIN at = Workers
  BY <1>0 DEF RateShape
<1>3. RateShape'
  BY <1>0, <1>1 DEF RateShape
<1>4. at'[w] = "read"
  BY <1>1, <1>2
<1>5. CheckOK(w)' /\ AloneOK(w)'
  BY <1>0, <1>1, <1>4 DEF CheckOK, AloneOK
<1>6. \A u \in Workers \ {w} : at'[u] = at[u]
  BY <1>1, <1>2
<1>7. \A d : HitsOf(d)' = HitsOf(d)
  BY <1>1 DEF HitsOf
<1>8. UnderWay(w)
  BY <1>1 DEF UnderWay
<1> QED
  BY <1>1, <1>3, <1>5, <1>6, <1>7, <1>8, CheckStep

\* The hits read are stored, with or without the new one.
LEMMA EndCheckStep ==
    ASSUME RateInv, NEW w \in Workers, EndCheck(w)
    PROVE  RateInv'
<1>0. RateShape /\ ListsInv /\ (\A v \in Workers : CheckOK(v)) /\ AloneInv
  BY DEF RateInv
<1>1. /\ at[w] \in {"admitted", "refused", "error"} /\ at' = [at EXCEPT ![w] = "idle"]
      /\ now' = [now EXCEPT ![w] = 0] /\ who' = [who EXCEPT ![w] = Nobody]
      /\ UNCHANGED <<clock, rate, size, stale, hits, admitted, overlapped>>
  BY DEF EndCheck
<1>2. DOMAIN at = Workers /\ DOMAIN now = Workers /\ DOMAIN who = Workers
  BY <1>0 DEF RateShape
<1>3. RateShape'
  BY <1>0, <1>1 DEF RateShape
<1>4. at'[w] = "idle" /\ ~UnderWay(w)'
  BY <1>1, <1>2 DEF UnderWay
<1>5. CheckOK(w)'
  BY <1>4 DEF CheckOK
<1>6. ASSUME ~overlapped' PROVE AloneOK(w)'
  <2>1. stale[w] = {}
    BY <1>0, <1>1, <1>6 DEF AloneInv, AloneOK
  <2> QED
    BY <1>1, <1>4, <2>1 DEF AloneOK
<1>7. \A u \in Workers \ {w} : at'[u] = at[u] /\ now'[u] = now[u] /\ who'[u] = who[u]
  BY <1>1, <1>2
<1>8. \A d : HitsOf(d)' = HitsOf(d)
  BY <1>1 DEF HitsOf
<1> QED
  BY <1>1, <1>3, <1>4, <1>5, <1>6, <1>7, <1>8, CheckStep

\* The sweep deletes a list none of whose hits counts any more.
LEMMA DeleteStep ==
    ASSUME RateInv, NEW w \in Workers, NEW c \in Clients, DeleteKey(w, c)
    PROVE  RateInv'
<1>0. RateShape /\ ListsInv /\ (\A v \in Workers : CheckOK(v)) /\ AloneInv
  BY DEF RateInv
<1>1. /\ at[w] = "delete" /\ c \in stale[w] /\ UnderWay(w)
      /\ UNCHANGED <<clock, who, now, size, hits, admitted, overlapped>>
  BY DEF DeleteKey, UnderWay
<1>2. DOMAIN at = Workers /\ DOMAIN stale = Workers
  BY <1>0 DEF RateShape
<1>3. CASE c \notin DOMAIN rate
  <2>1. /\ at' = [at EXCEPT ![w] = "error"] /\ stale' = [stale EXCEPT ![w] = {}]
        /\ rate' = rate
    BY <1>3 DEF DeleteKey
  <2>2. RateShape'
    BY <1>0, <1>1, <2>1 DEF RateShape
  <2>3. CheckOK(w)'
    BY <1>0, <1>1, <1>2, <2>1 DEF CheckOK
  <2>4. overlapped'
    BY <1>0, <1>1, <1>3, Zenon DEF AloneInv, AloneOK
  <2>5. \A u \in Workers \ {w} : at'[u] = at[u] /\ stale'[u] = stale[u]
    BY <1>2, <2>1
  <2>6. \A d : HitsOf(d)' = HitsOf(d)
    BY <2>1 DEF HitsOf
  <2> QED
    BY <1>1, <2>1, <2>2, <2>3, <2>4, <2>5, <2>6, CheckStep
<1>4. CASE c \in DOMAIN rate
  <2>1. /\ rate' = [d \in DOMAIN rate \ {c} |-> rate[d]]
        /\ stale' = [stale EXCEPT ![w] = @ \ {c}] /\ at' = at
    BY <1>4 DEF DeleteKey
  <2>2. /\ DOMAIN rate' = DOMAIN rate \ {c} /\ \A d \in DOMAIN rate' : rate'[d] = rate[d]
        /\ stale'[w] = stale[w] \ {c} /\ \A u \in Workers \ {w} : stale'[u] = stale[u]
    BY <1>2, <2>1
  <2>3. RateShape'
    BY <1>0, <1>1, <2>1, <2>2 DEF RateShape
  <2>4. HitsOf(c)' = <<>> /\ \A d \in Clients \ {c} : HitsOf(d)' = HitsOf(d)
    BY <2>2 DEF HitsOf
  <2>5. ListsInv'
    <3> SUFFICES ASSUME NEW d \in Clients
                 PROVE  /\ Len(HitsOf(d)') <= Limit
                        /\ Into(HitsOf(d)', DOMAIN HitsOf(d)', admitted[d])
      BY <1>1 DEF ListsInv
    <3>1. CASE d = c
      <4>1. DOMAIN HitsOf(d)' = {} /\ Len(HitsOf(d)') = 0 /\ Limit \in Nat
        BY <2>4, <3>1, RateAssumption
      <4> QED
        BY <4>1, IntoNothing
    <3>2. CASE d # c
      BY <1>0, <2>4, <3>2 DEF ListsInv
    <3> QED
      BY <3>1, <3>2
  <2>6. ASSUME NEW u \in Workers PROVE CheckOK(u)'
    BY <1>0, <1>1, <2>1 DEF CheckOK
  <2>7. ASSUME ~overlapped' PROVE KeptInv' /\ OneAtATime' /\ \A u \in Workers : AloneOK(u)'
    <3>0. ~overlapped /\ KeptInv /\ OneAtATime /\ AloneOK(w)
      BY <1>0, <1>1, <2>7 DEF AloneInv
    <3>1. KeptInv'
      <4> SUFFICES ASSUME NEW d \in Clients
                   PROVE  Into(admitted[d], FreshAt(admitted[d], clock), HitsOf(d)')
        BY <1>1 DEF KeptInv
      <4>0. Into(admitted[d], FreshAt(admitted[d], clock), HitsOf(d))
        BY <3>0 DEF KeptInv
      <4>1. CASE d # c
        BY <2>4, <4>0, <4>1
      <4>2. CASE d = c
        <5>1. FreshAt(admitted[c], clock) = {}
          <6> SUFFICES ASSUME NEW i \in FreshAt(admitted[c], clock) PROVE FALSE
            OBVIOUS
          <6>1. PICK j \in DOMAIN HitsOf(c) : HitsOf(c)[j] = admitted[c][i]
            BY <4>0, <4>2 DEF Into
          <6>2. HitsOf(c) = rate[c] /\ IsStale(c, now[w])
            BY <1>1, <1>4, <3>0 DEF HitsOf, AloneOK
          <6>3. ~Fresh(admitted[c][i], now[w])
            BY <6>1, <6>2 DEF IsStale
          <6>4. /\ Fresh(admitted[c][i], clock) /\ admitted[c][i] \in Nat /\ Window \in Nat
                /\ clock \in Nat /\ now[w] \in Nat /\ now[w] <= clock
            BY <1>0, RateAssumption DEF FreshAt, RateShape
          <6> QED
            BY <6>3, <6>4 DEF Fresh
        <5> QED
          BY <4>2, <5>1, IntoNothing
      <4> QED
        BY <4>1, <4>2
    <3>2. OneAtATime'
      BY <2>1, <3>0 DEF OneAtATime, UnderWay
    <3>3. AloneOK(w)'
      BY <1>1, <2>1, <2>2, <3>0 DEF AloneOK, IsStale
    <3>4. ASSUME NEW u \in Workers, u # w PROVE AloneOK(u)'
      <4>1. at[u] \in {"idle", "admitted", "refused"} /\ stale[u] = {}
        BY <1>1, <3>0, <3>4, OthersRest
      <4> QED
        BY <2>1, <2>2, <3>4, <4>1 DEF AloneOK
    <3> QED
      BY <3>1, <3>2, <3>3, <3>4
  <2> QED
    BY <2>3, <2>5, <2>6, <2>7 DEF RateInv, AloneInv
<1> QED
  BY <1>3, <1>4

\* A refusal: the fresh hits of the list were all admitted, and fill the cap.
LEMMA ReadStep ==
    ASSUME RateInv, NEW w \in Workers, ReadHits(w)
    PROVE  RateInv'
<1> DEFINE c == who[w]
           m == now[w]
           h == FreshHits(c, m)
<1>0. RateShape /\ ListsInv /\ (\A v \in Workers : CheckOK(v)) /\ AloneInv
  BY DEF RateInv
<1>1. /\ at[w] = "read" /\ UnderWay(w)
      /\ rate' = [d \in DOMAIN rate \cup {c} |-> IF d = c THEN HitsOf(c) ELSE rate[d]]
      /\ \/ Len(h) >= Limit /\ at' = [at EXCEPT ![w] = "refused"] /\ hits' = hits
         \/ /\ ~(Len(h) >= Limit) /\ at' = [at EXCEPT ![w] = "store"]
            /\ hits' = [hits EXCEPT ![w] = Append(h, m)]
      /\ UNCHANGED <<clock, who, now, size, stale, admitted, overlapped>>
  BY DEF ReadHits, UnderWay
<1>2. /\ DOMAIN at = Workers /\ DOMAIN hits = Workers /\ m \in Nat /\ clock \in Nat /\ m <= clock
      /\ c \in Clients /\ HitsOf(c) \in Seq(Nat) /\ admitted[c] \in Seq(Nat)
  BY <1>0, <1>1, HitsAreTimes DEF RateShape, CheckOK
<1>3. /\ h = FreshIn(HitsOf(c), m) /\ Holds(h, HitsOf(c), Len(HitsOf(c)), m)
  BY <1>2, FreshInHolds DEF FreshHits
<1>5. Into(h, DOMAIN h, admitted[c])
  BY <1>0, <1>2, <1>3, FreshGoesInto DEF ListsInv
<1> HIDE DEF h
<1>4. /\ h \in Seq(Nat) /\ Len(h) \in Nat /\ Append(h, m) \in Seq(Nat)
      /\ \A i \in DOMAIN h : Fresh(h[i], m)
  <2>1. h \in Seq(Nat) /\ \A i \in 1 .. Len(h) : Fresh(h[i], m)
    BY <1>3 DEF Holds
  <2> QED
    BY <1>2, <2>1
<1>6. \A d : HitsOf(d)' = HitsOf(d)
  <2> SUFFICES ASSUME NEW d PROVE HitsOf(d)' = HitsOf(d)
    OBVIOUS
  <2>1. CASE d = c
    BY <1>1, <2>1 DEF HitsOf
  <2>2. CASE d # c
    BY <1>1, <2>2 DEF HitsOf
  <2> QED
    BY <2>1, <2>2
<1>7. RateShape'
  <2>1. DOMAIN rate' \subseteq Clients /\ \A d \in DOMAIN rate' : rate'[d] \in Seq(Nat)
    BY <1>0, <1>1, <1>2 DEF RateShape
  <2>2. /\ at' \in [Workers -> {"idle", "scan", "delete", "read", "store", "admitted",
                               "refused", "error"}]
        /\ hits' \in [Workers -> Seq(Nat)]
    BY <1>0, <1>1, <1>4 DEF RateShape
  <2> QED
    BY <1>0, <1>1, <2>1, <2>2 DEF RateShape
<1>8. /\ at'[w] \in {"refused", "store"}
      /\ at'[w] = "refused" => Limit <= Len(h)
      /\ at'[w] = "store" => Len(h) < Limit /\ hits'[w] = Append(h, m)
  BY <1>1, <1>2, <1>4, RateAssumption
<1>9. CheckOK(w)'
  <2>1. Len(h) <= Cardinality(FreshAt(admitted[c], m))
    BY <1>2, <1>4, <1>5, FreshCounts
  <2>2. Cardinality(FreshAt(admitted[c], m)) \in Nat /\ Limit \in Nat
    BY <1>2, FreshAtFinite, RateAssumption
  <2>3. /\ who'[w] = c /\ now'[w] = m /\ admitted' = admitted
        /\ at'[w] = "refused" => Limit <= Cardinality(FreshAt(admitted[c], m))
    BY <1>1, <1>4, <1>8, <2>1, <2>2
  <2>4. at'[w] = "store" => /\ hits'[w] = Append(h, m) /\ Len(h) < Limit /\ h \in Seq(Nat)
                            /\ Into(h, DOMAIN h, admitted[c])
    BY <1>4, <1>5, <1>8
  <2> HIDE DEF c, m
  <2>5. c \in Clients
    BY <1>2
  <2> QED
    BY <2>3, <2>4, <2>5 DEF CheckOK
<1>10. ASSUME ~overlapped' PROVE AloneOK(w)'
  <2>1. stale[w] = {} /\ KeptInv
    BY <1>0, <1>1, <1>10 DEF AloneInv, AloneOK
  <2>2. Into(admitted[c], FreshAt(admitted[c], clock), h)
    BY <1>2, <1>3, <2>1, FreshKeepsInto DEF KeptInv
  <2> QED
    BY <1>1, <1>4, <1>8, <2>1, <2>2 DEF AloneOK
<1>11. \A u \in Workers \ {w} : at'[u] = at[u] /\ hits'[u] = hits[u]
  BY <1>1, <1>2
<1> QED
  BY <1>1, <1>6, <1>7, <1>9, <1>10, <1>11, CheckStep

\* The hit is stored: the list and the history of the client grow by the same hit.
LEMMA StoreStep ==
    ASSUME RateInv, NEW w \in Workers, StoreHits(w)
    PROVE  RateInv'
<1> DEFINE c == who[w]
           m == now[w]
           l == hits[w]
           a == admitted[c]
<1>0. RateShape /\ ListsInv /\ (\A v \in Workers : CheckOK(v)) /\ AloneInv
  BY DEF RateInv
<1>1. /\ at[w] = "store" /\ UnderWay(w)
      /\ rate' = [d \in DOMAIN rate \cup {c} |-> IF d = c THEN l ELSE rate[d]]
      /\ admitted' = [admitted EXCEPT ![c] = Append(a, m)]
      /\ at' = [at EXCEPT ![w] = "admitted"]
      /\ hits' = [hits EXCEPT ![w] = <<>>]
      /\ UNCHANGED <<clock, who, now, size, stale, overlapped>>
  BY DEF StoreHits, UnderWay
<1>2. /\ DOMAIN at = Workers /\ DOMAIN hits = Workers /\ m \in Nat /\ clock \in Nat /\ m <= clock
      /\ c \in Clients /\ l \in Seq(Nat) /\ a \in Seq(Nat) /\ DOMAIN admitted = Clients
  BY <1>0, <1>1 DEF RateShape, CheckOK
<1>3. /\ \A d \in Clients \ {c} : HitsOf(d)' = HitsOf(d) /\ admitted'[d] = admitted[d]
      /\ HitsOf(c)' = l /\ admitted'[c] = Append(a, m)
      /\ at'[w] = "admitted" /\ \A u \in Workers \ {w} : at'[u] = at[u] /\ hits'[u] = hits[u]
  <2>1. \A d \in Clients \ {c} : HitsOf(d)' = HitsOf(d)
    BY <1>1 DEF HitsOf
  <2>2. HitsOf(c)' = l
    BY <1>1 DEF HitsOf
  <2> QED
    BY <1>1, <1>2, <2>1, <2>2
<1>4. Append(a, m) \in Seq(Nat) /\ <<>> \in Seq(Nat)
  BY <1>2
<1>5. RateShape'
  <2>1. DOMAIN rate' \subseteq Clients /\ \A d \in DOMAIN rate' : rate'[d] \in Seq(Nat)
    BY <1>0, <1>1, <1>2 DEF RateShape
  <2>2. /\ at' \in [Workers -> {"idle", "scan", "delete", "read", "store", "admitted",
                               "refused", "error"}]
        /\ hits' \in [Workers -> Seq(Nat)] /\ admitted' \in [Clients -> Seq(Nat)]
    BY <1>0, <1>1, <1>4 DEF RateShape
  <2> QED
    BY <1>0, <1>1, <2>1, <2>2 DEF RateShape
<1>6. Len(l) <= Limit /\ Into(l, DOMAIN l, Append(a, m))
  <2>1. PICK h \in Seq(Nat) : /\ l = Append(h, m) /\ Len(h) < Limit
                              /\ Into(h, DOMAIN h, a)
    BY <1>0, <1>1 DEF CheckOK
  <2>2. Into(Append(h, m), DOMAIN h \cup {Len(h) + 1}, Append(a, m))
    BY <1>2, <2>1, IntoBoth
  <2>3. Len(l) = Len(h) + 1 /\ Len(h) \in Nat /\ Limit \in Nat
    BY <1>2, <2>1, RateAssumption
  <2>4. DOMAIN Append(h, m) = DOMAIN h \cup {Len(h) + 1}
    BY <1>2
  <2> QED
    BY <2>1, <2>2, <2>3, <2>4
<1>7. ListsInv'
  <2> SUFFICES ASSUME NEW d \in Clients
               PROVE  /\ Len(HitsOf(d)') <= Limit
                      /\ Into(HitsOf(d)', DOMAIN HitsOf(d)', admitted'[d])
    BY DEF ListsInv
  <2>1. CASE d = c
    <3> DEFINE b == Append(a, m)
    <3>1. Len(l) <= Limit /\ Into(l, DOMAIN l, b)
      BY <1>6
    <3>2. HitsOf(d)' = l /\ admitted'[d] = b
      BY <1>1, <1>3, <2>1 DEF HitsOf
    <3> HIDE DEF l, b
    <3> QED
      BY <3>1, <3>2
  <2>2. CASE d # c
    BY <1>0, <1>3, <2>2 DEF ListsInv
  <2> QED
    BY <2>1, <2>2
<1> HIDE DEF l
<1>8. ASSUME NEW u \in Workers PROVE CheckOK(u)'
  <2>0. CheckOK(u)
    BY <1>0
  <2>1. CASE u = w
    BY <1>3, <2>1 DEF CheckOK
  <2>2. CASE u # w
    <3>1. at'[u] = at[u] /\ who'[u] = who[u] /\ now'[u] = now[u] /\ hits'[u] = hits[u]
      BY <1>1, <1>3, <2>2
    <3>2. ASSUME at[u] = "store"
          PROVE  \E h \in Seq(Nat) : /\ hits[u] = Append(h, now[u]) /\ Len(h) < Limit
                                     /\ Into(h, DOMAIN h, admitted'[who[u]])
      <4>1. who[u] \in Clients
        BY <2>0, <3>2 DEF CheckOK
      <4>2. PICK h \in Seq(Nat) : /\ hits[u] = Append(h, now[u]) /\ Len(h) < Limit
                                  /\ Into(h, DOMAIN h, admitted[who[u]])
        BY <2>0, <3>2 DEF CheckOK
      <4>3. CASE who[u] = c
        <5> DEFINE b == Append(a, m)
        <5>1. Into(h, DOMAIN h, b)
          BY <1>2, <4>2, <4>3, IntoLonger
        <5>2. admitted'[who[u]] = b
          BY <1>3, <4>3
        <5> HIDE DEF b
        <5> QED
          BY <4>2, <5>1, <5>2
      <4>4. CASE who[u] # c
        BY <1>3, <4>1, <4>2, <4>4
      <4> QED
        BY <4>3, <4>4
    <3>3. ASSUME at[u] = "refused"
          PROVE  Limit <= Cardinality(FreshAt(admitted'[who[u]], now[u]))
      <4>1. who[u] \in Clients /\ Limit <= Cardinality(FreshAt(admitted[who[u]], now[u]))
        BY <2>0, <3>3 DEF CheckOK
      <4>2. CASE who[u] = c
        <5>1. Cardinality(FreshAt(a, now[u])) <= Cardinality(FreshAt(Append(a, m), now[u]))
          BY <1>2, FreshGrows
        <5>2. /\ Cardinality(FreshAt(a, now[u])) \in Nat /\ Limit \in Nat
              /\ Cardinality(FreshAt(Append(a, m), now[u])) \in Nat
          BY <1>2, <1>4, FreshAtFinite, RateAssumption
        <5>3. Limit <= Cardinality(FreshAt(a, now[u]))
          BY <4>1, <4>2
        <5>4. Limit <= Cardinality(FreshAt(Append(a, m), now[u]))
          BY <5>1, <5>2, <5>3
        <5> QED
          BY <1>3, <4>2, <5>4
      <4>3. CASE who[u] # c
        BY <1>3, <4>1, <4>3
      <4> QED
        BY <4>2, <4>3
    <3> QED
      BY <2>0, <3>1, <3>2, <3>3 DEF CheckOK
  <2> QED
    BY <2>1, <2>2
<1>9. ASSUME ~overlapped' PROVE KeptInv' /\ OneAtATime' /\ \A u \in Workers : AloneOK(u)'
  <2>0. ~overlapped /\ KeptInv /\ OneAtATime /\ AloneOK(w)
    BY <1>0, <1>1, <1>9 DEF AloneInv
  <2>1. Into(Append(a, m), FreshAt(Append(a, m), clock), l)
    <3>1. PICK h \in Seq(Nat) : /\ l = Append(h, m)
                                /\ Into(a, FreshAt(a, clock), h)
      BY <1>1, <2>0 DEF AloneOK, l
    <3>2. Into(Append(a, m), FreshAt(a, clock) \cup {Len(a) + 1}, Append(h, m))
      <4>1. FreshAt(a, clock) \subseteq DOMAIN a
        BY DEF FreshAt
      <4> QED
        BY <1>2, <3>1, <4>1, IntoBoth
    <3>3. FreshAt(Append(a, m), clock) \subseteq FreshAt(a, clock) \cup {Len(a) + 1}
      <4> DEFINE b == Append(a, m)
      <4>1. \A i \in DOMAIN b : i = Len(a) + 1 \/ (i \in DOMAIN a /\ b[i] = a[i])
        BY <1>2
      <4> HIDE DEF b
      <4>2. FreshAt(b, clock) \subseteq FreshAt(a, clock) \cup {Len(a) + 1}
        BY <4>1 DEF FreshAt
      <4> QED
        BY <4>2 DEF b
    <3> QED
      BY <3>1, <3>2, <3>3, IntoFewer
  <2>2. KeptInv'
    <3> SUFFICES ASSUME NEW d \in Clients
                 PROVE  Into(admitted'[d], FreshAt(admitted'[d], clock), HitsOf(d)')
      BY <1>1 DEF KeptInv
    <3>1. CASE d = c
      <4> DEFINE b == Append(a, m)
      <4>1. Into(b, FreshAt(b, clock), l)
        BY <2>1
      <4>2. HitsOf(d)' = l /\ admitted'[d] = b
        BY <1>1, <1>3, <3>1 DEF HitsOf
      <4> HIDE DEF b
      <4> QED
        BY <4>1, <4>2
    <3>2. CASE d # c
      BY <1>3, <2>0, <3>2 DEF KeptInv
    <3> QED
      BY <3>1, <3>2
  <2>3. ASSUME NEW u \in Workers PROVE AloneOK(u)' /\ ~UnderWay(u)'
    <3>1. CASE u = w
      BY <1>1, <1>3, <2>0, <3>1 DEF AloneOK, UnderWay
    <3>2. CASE u # w
      <4>1. at[u] \in {"idle", "admitted", "refused"} /\ stale[u] = {}
        BY <1>1, <2>0, <3>2, OthersRest
      <4> QED
        BY <1>1, <1>3, <3>2, <4>1 DEF AloneOK, UnderWay
    <3> QED
      BY <3>1, <3>2
  <2>4. OneAtATime'
    BY <2>3 DEF OneAtATime
  <2> QED
    BY <2>2, <2>3, <2>4
<1> QED
  BY <1>5, <1>7, <1>8, <1>9 DEF RateInv, AloneInv

\* The invariant of the rate limit: every list is part of what the client was
\* admitted for, and while no checks overlap all of it that counts.
THEOREM RateInvariant == RateSpec => []RateInv
<1>1. ASSUME RateInv, UNCHANGED rateVars PROVE RateInv'
  <2>1. UNCHANGED <<clock, rate, at, who, now, size, stale, hits, admitted, overlapped>>
    BY <1>1 DEF rateVars
  <2>2. RateShape' /\ ListsInv'
    BY <1>1, <2>1 DEF RateInv, RateShape, ListsInv, HitsOf
  <2>3. \A w \in Workers : CheckOK(w)'
    BY <1>1, <2>1 DEF RateInv, CheckOK
  <2>4. AloneInv'
    BY <1>1, <2>1 DEF RateInv, AloneInv, KeptInv, HitsOf, OneAtATime, UnderWay, AloneOK, IsStale
  <2> QED
    BY <2>2, <2>3, <2>4 DEF RateInv
<1>2. RateInv /\ [RateNext]_rateVars => RateInv'
  BY <1>1, TickStep, StartStep, ScanStep, DeleteStep, EndScanStep, EndPruneStep, ReadStep,
     StoreStep, EndCheckStep DEF RateNext, RateDone
<1> QED
  BY RateInitInv, <1>2, PTL DEF RateSpec

\* _check_rate(): a refused client was itself admitted _RATE_LIMIT times within the
\* window, for any number of threads and clients in any interleaving.
THEOREM RefusalsAreEarned == RateSpec => []RefusedHadTheirShare
<1>1. RateInv => RefusedHadTheirShare
  <2> SUFFICES ASSUME RateInv, NEW w \in Workers, at[w] = "refused"
               PROVE  InWindow(who[w], now[w]) >= Limit
    BY DEF RefusedHadTheirShare
  <2>1. /\ who[w] \in Clients /\ admitted \in [Clients -> Seq(Nat)]
        /\ Limit <= Cardinality(FreshAt(admitted[who[w]], now[w]))
    BY DEF RateInv, CheckOK, RateShape
  <2>2. InWindow(who[w], now[w]) = Cardinality(FreshAt(admitted[who[w]], now[w]))
    BY DEF InWindow, FreshAt
  <2>3. Cardinality(FreshAt(admitted[who[w]], now[w])) \in Nat /\ Limit \in Nat
    BY <2>1, FreshAtFinite, RateAssumption
  <2> QED
    BY <2>1, <2>2, <2>3
<1> QED
  BY RateInvariant, <1>1, PTL

\* _check_rate(): as long as no two checks overlap the cap holds, and no check ends
\* in an error.
THEOREM CapHoldsAlone == RateSpec => []CapHoldsInOrder
<1>1. RateInv => CapHoldsInOrder
  <2> SUFFICES ASSUME RateInv, ~overlapped
               PROVE  /\ \A c \in Clients : InWindow(c, clock) <= Limit
                      /\ \A w \in Workers : at[w] # "error"
    BY DEF CapHoldsInOrder
  <2>0. RateShape /\ ListsInv /\ KeptInv /\ \A w \in Workers : AloneOK(w)
    BY DEF RateInv, AloneInv
  <2>1. ASSUME NEW c \in Clients PROVE InWindow(c, clock) <= Limit
    <3>1. InWindow(c, clock) = Cardinality(FreshAt(admitted[c], clock))
      BY DEF InWindow, FreshAt
    <3>2. HitsOf(c) \in Seq(Nat) /\ admitted[c] \in Seq(Nat)
      BY <2>0, HitsAreTimes DEF RateShape
    <3>3. Cardinality(FreshAt(admitted[c], clock)) <= Len(HitsOf(c))
      BY <2>0, <3>2, IntoCounts DEF KeptInv
    <3>4. Cardinality(FreshAt(admitted[c], clock)) \in Nat
      BY <3>2, FreshAtFinite
    <3>5. Len(HitsOf(c)) <= Limit /\ Len(HitsOf(c)) \in Nat /\ Limit \in Nat
      BY <2>0, <3>2, RateAssumption DEF ListsInv
    <3> QED
      BY <3>1, <3>3, <3>4, <3>5
  <2> QED
    BY <2>0, <2>1 DEF AloneOK
<1> QED
  BY RateInvariant, <1>1, PTL

=============================================================================
