---------------------------- MODULE MCLibsqlConn ----------------------------
(* The units of work of the program's processes and, beside them, one      *)
(* statement whose rows are pulled back, for TLC.  The two halves share no *)
(* state: `half` says which of them runs, the other stays where it began.  *)
EXTENDS LibsqlConn, LibsqlFetch, TLC

\* run_all.py: upsert_products (part rows, price rows), without or with the
\* swallowed quarantine rows, one sweep and one record_scrape_run.  The API:
\* create_shared_build twice, and price_log_count storing its fallback.
MCKind == "upsert" :> "implicit" @@ "upsert_rejecting" :> "implicit"
          @@ "sweep" :> "transact" @@ "record" :> "with"
          @@ "share" :> "implicit" @@ "share2" :> "implicit" @@ "count" :> "implicit"

MCOps == "upsert" :> <<"write", "write">> @@ "upsert_rejecting" :> <<"write", "write", "note">>
         @@ "sweep" :> <<"read", "write", "write">> @@ "record" :> <<"write">>
         @@ "share" :> <<"write">> @@ "share2" :> <<"write">> @@ "count" :> <<"read", "write">>

MCUnits == DOMAIN MCOps

Scraper   == {"upsert", "sweep", "record"}
Rejecting == {"upsert_rejecting", "record"}
Api       == {"share", "share2", "count"}

MCFatal    == Scraper \cup Rejecting
MCPrograms == {Scraper, Api}
MCRejectingPrograms == {Rejecting}

VARIABLE half

MCInit == /\ Init /\ FetchInit
          /\ \/ half = "units" /\ readonly /\ inBlock
             \/ half = "fetch" /\ unit = "record"

MCNext == \/ half = "units" /\ Next /\ UNCHANGED <<fetchVars, half>>
          \/ half = "fetch" /\ FetchNext /\ UNCHANGED <<vars, half>>

MCSpec == MCInit /\ [][MCNext]_<<vars, fetchVars, half>> /\ WF_vars(Statement \/ Finish)

=============================================================================
