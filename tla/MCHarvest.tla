------------------------------ MODULE MCHarvest ------------------------------
(* The walks of the part sources and of the prebuilt sources, and the      *)
(* inside of the fetch that both take for one step, for TLC.  The three    *)
(* modules share no state: `part` says which of them runs, the others stay *)
(* where they began.                                                       *)
EXTENDS Harvest, Prebuilts, HostGate

\* Two categories of at most three pages of two products.
Page(n, S) == [cards |-> n, items |-> S]
Full  == Page(2, {1, 2})
Mixed == Page(2, {2})
Sold  == Page(2, {})
Short == Page(1, {1})

MCShelves == { <<>>, <<Short>>, <<Full>>, <<Full, Sold>>, <<Mixed, Short>>,
               <<Sold, Short>>, <<Full, Sold, Short>>, <<Full, Full, Full>> }

\* One category or two that overlap: one longer than the page cap, and a pair the
\* second of which begins with a page that holds nothing new.
MCLists == { << <<>> >>, << <<{1, 2}>> >>, << <<{1}, {2}, {3}>> >>,
             << <<{1}, {2}, {3}, {4}>> >>, << <<{1}, {2, 3}>>, <<{3, 4}>> >>,
             << <<{1}, {2}>>, <<>> >>, << <<{1, 2}>>, <<{1}, {3}>> >> }
MCStores  == [lists : MCLists, past : {"empty", "again", "404"}]

MCOldRows == {{}, {1, 2, 4}}
MCTargets == {<<"redtech">>, <<"techmatched", "zestro">>}

VARIABLE part

HarvestRests  == Init /\ kind = "woo" /\ counted /\ \A c \in Cats : shelf[c] = <<>>
PrebuiltRests == /\ PrebuiltInit /\ targets = <<"redtech">> /\ onList = {}
                 /\ store = [lists |-> << <<>> >>, past |-> "empty"]

MCInit == \/ part = "harvest"   /\ Init          /\ PrebuiltRests /\ GateInit
          \/ part = "prebuilts" /\ HarvestRests /\ PrebuiltInit   /\ GateInit
          \/ part = "fetch"     /\ HarvestRests /\ PrebuiltRests  /\ GateInit

MCNext == \/ part = "harvest"   /\ Next         /\ UNCHANGED <<prebuiltVars, gateVars, part>>
          \/ part = "prebuilts" /\ PrebuiltNext /\ UNCHANGED <<vars, gateVars, part>>
          \/ part = "fetch"     /\ GateNext     /\ UNCHANGED <<vars, prebuiltVars, part>>

MCSpec == MCInit /\ [][MCNext]_<<vars, prebuiltVars, gateVars, part>> /\ GateFairness

=============================================================================
