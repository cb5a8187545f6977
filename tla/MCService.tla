------------------------------ MODULE MCService ------------------------------
(* The API's requests that keep state between them (the share-rate limit,  *)
(* shared builds, the stats cache), and what run_all.py does to the        *)
(* database beside the catalogue (opening and migrating it, rebuilding the *)
(* trends); for TLC.  The five modules share no state: `part` says which   *)
(* of them runs, the others stay where they began.                         *)
EXTENDS ShareRate, ShareBuild, Stats, Trends, SchemaMigrate, TLC

CONSTANTS p1, p2, p3, opens1, opens2

\* One slot, two, one part in two slots, and an id that is no part's.
Slot(id, qty) == [id |-> id, qty |-> qty]
MCOrders == { "ram" :> Slot(p1, 2), "ram" :> Slot(p1, 1) @@ "ssd" :> Slot(p2, 2),
              "ram" :> Slot(p1, 1) @@ "ssd" :> Slot(p1, 2), "ssd" :> Slot(Unknown, 1) }

\* Full and thin dates, dates that share too little, a single date, none.
MCPasts == { << {p1, p2, p3}, {p1, p2}, {p3} >>, << {p1}, {p2, p3}, {p2, p3} >>,
             << {p1, p2}, {}, {p1, p2} >>, << {}, {}, {} >>,
             << {p1, p2, p3}, {p3}, {p1, p2, p3} >> }
MCHarvests == {{p1, p2, p3}, {p1, p2}, {p3}}

\* A scraper, an API that skips first, a caller that forgot to say; and another
\* opener at the same time.
MCPrograms == {opens1 :> m @@ opens2 :> <<"run">> :
                  m \in {<<"run">>, <<"run", "run">>, <<"skip", "run">>, <<"refuse", "run">>}}

\* parts (two columns), parts.latest_price; quarantined_rows, trends.
MCEarly    == << <<"active", "seen">>, <<"latest_price">> >>
MCLate     == << <<"basket">>, <<"times">> >>
MCRejected == {<<>>, <<1, 1>>, <<2>>}

\* No definition tells two of a kind apart.
Alike == Permutations(Workers) \cup Permutations(Clients)

VARIABLE part

ShareRests  == /\ ShareInit /\ \A p \in Parts : price[p] = NoPrice
               /\ \A r \in Requests : order[r] = "ssd" :> Slot(Unknown, 1)
StatsRests  == StatsInit /\ meta = Nil
TrendsRest  == TrendsInit /\ priceLog = {}
SchemaRests == /\ SchemaInit /\ ~remote /\ program[opens1] = <<"run">>
               /\ db.cols = Columns(Tables) /\ db.nulls = {} /\ db.rejected = <<>>

MCInit ==
    /\ RateInit
    /\ \/ part = "rate"   /\ ShareRests /\ StatsRests /\ TrendsRest /\ SchemaRests
       \/ part = "share"  /\ ShareInit  /\ StatsRests /\ TrendsRest /\ SchemaRests
       \/ part = "stats"  /\ ShareRests /\ StatsInit  /\ TrendsRest /\ SchemaRests
       \/ part = "trends" /\ ShareRests /\ StatsRests /\ TrendsInit /\ SchemaRests
       \/ part = "schema" /\ ShareRests /\ StatsRests /\ TrendsRest /\ SchemaInit

MCNext ==
    /\ UNCHANGED part
    /\ \/ part = "rate"   /\ RateNext
                          /\ UNCHANGED <<shareVars, statsVars, trendsVars, schemaVars>>
       \/ part = "share"  /\ ShareNext
                          /\ UNCHANGED <<rateVars, statsVars, trendsVars, schemaVars>>
       \/ part = "stats"  /\ StatsNext
                          /\ UNCHANGED <<rateVars, shareVars, trendsVars, schemaVars>>
       \/ part = "trends" /\ TrendsNext
                          /\ UNCHANGED <<rateVars, shareVars, statsVars, schemaVars>>
       \/ part = "schema" /\ SchemaNext
                          /\ UNCHANGED <<rateVars, shareVars, statsVars, trendsVars>>

MCSpec == MCInit /\ [][MCNext]_<<rateVars, shareVars, statsVars, trendsVars, schemaVars, part>>

=============================================================================
