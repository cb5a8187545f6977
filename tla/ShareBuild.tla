------------------------------- MODULE ShareBuild -------------------------------
(***************************************************************************)
(* Shared builds: share_build() of backend/routers/builds.py with          *)
(* resolve_part_status(), create_shared_build() and resolve_shared_build() *)
(* of db/database.py, for several requests at once while scrapes change    *)
(* prices and delist parts.  Each database call is one marshaled step (see *)
(* DbOwner); between two calls of a request anything else may run.  The    *)
(* request has passed the rate limit and its slots are well formed.        *)
(***************************************************************************)
EXTENDS Naturals, FiniteSets

CONSTANTS Requests, Slots, Parts, Unknown,  \* Unknown: an id that is no part's
          Codes, Tries,     \* codes that can be drawn; how often one is drawn
          Quantities, Prices, NoPrice,
          Orders,           \* the builds asked for: slot -> [id, qty]
          MaxChanges        \* bound: scrapes that touch one of the parts

ASSUME ShareAssumption ==
    /\ Unknown \notin Parts /\ NoPrice \notin Prices
    /\ Tries \in Nat \ {0} /\ MaxChanges \in Nat
    /\ \A o \in Orders : /\ DOMAIN o \subseteq Slots /\ DOMAIN o # {}
                         /\ \A s \in DOMAIN o : o[s] \in [id : Parts \cup {Unknown},
                                                          qty : Quantities]

VARIABLES
    listed, price,  \* parts: is_active, latest_price
    shared,         \* shared_builds: code -> slot -> [id, qty, price_at_share]
    req,            \* step of each request: new | lookup | draw | done | refused | failed
    order,          \* the build it asks for
    build,          \* the build it will store
    tries,          \* codes drawn
    code,           \* the code handed out
    changes,        \* scrapes so far
    offered         \* history: the prices of each part since the request came in

shareVars == <<listed, price, shared, req, order, build, tries, code, changes, offered>>

Nothing == [s \in {} |-> NoPrice]

ShareInit ==
    /\ listed = [p \in Parts |-> TRUE]
    /\ price \in [Parts -> Prices \cup {NoPrice}]
    /\ shared = Nothing
    /\ req = [r \in Requests |-> "new"]
    /\ order \in [Requests -> Orders]
    /\ build = [r \in Requests |-> Nothing]
    /\ tries = [r \in Requests |-> 0]
    /\ code = [r \in Requests |-> NoPrice]
    /\ changes = 0
    /\ offered = [r \in Requests |-> [p \in Parts |-> {}]]

\* A scrape: the part is listed at a new price, or delisted.
Reprice(p, new) ==
    /\ changes < MaxChanges /\ changes' = changes + 1
    /\ \/ new \in Prices /\ listed' = [listed EXCEPT ![p] = TRUE]
                         /\ price' = [price EXCEPT ![p] = new]
       \/ new = NoPrice /\ listed' = [listed EXCEPT ![p] = FALSE] /\ UNCHANGED price
    /\ offered' = [r \in Requests |-> IF req[r] = "lookup"
                                      THEN [offered[r] EXCEPT ![p] = @ \cup {price'[p]}]
                                      ELSE offered[r]]
    /\ UNCHANGED <<shared, req, order, build, tries, code>>

Arrive(r) ==
    /\ req[r] = "new"
    /\ req' = [req EXCEPT ![r] = "lookup"]
    /\ offered' = [offered EXCEPT ![r] = [p \in Parts |-> {price[p]}]]
    /\ UNCHANGED <<listed, price, shared, order, build, tries, code, changes>>

Priced(o) == [s \in DOMAIN o |-> [id |-> o[s].id, qty |-> o[s].qty,
                                  price_at_share |-> price[o[s].id]]]

\* resolve_part_status(): an id that no part has is simply not in its answer.
Lookup(r) ==
    /\ req[r] = "lookup"
    /\ IF \E s \in DOMAIN order[r] : order[r][s].id \notin Parts
       THEN req' = [req EXCEPT ![r] = "refused"] /\ UNCHANGED build
       ELSE /\ req' = [req EXCEPT ![r] = "draw"]
            /\ build' = [build EXCEPT ![r] = Priced(order[r])]
    /\ UNCHANGED <<listed, price, shared, order, tries, code, changes, offered>>

\* Mutant: INSERT OR REPLACE.
TakenNever(c) == FALSE

\* IntegrityError: the code is the primary key of another build.
Taken(c) == c \in DOMAIN shared

\* create_shared_build(): a code that is taken is drawn again, so many times.
Draw(r, c) ==
    /\ req[r] = "draw"
    /\ IF Taken(c)
       THEN /\ tries' = [tries EXCEPT ![r] = @ + 1]
            /\ req' = [req EXCEPT ![r] = IF tries[r] + 1 = Tries THEN "failed" ELSE @]
            /\ UNCHANGED <<shared, code>>
       ELSE /\ shared' = [d \in DOMAIN shared \cup {c} |->
                             IF d = c THEN build[r] ELSE shared[d]]
            /\ code' = [code EXCEPT ![r] = c]
            /\ req' = [req EXCEPT ![r] = "done"]
            /\ UNCHANGED tries
    /\ UNCHANGED <<listed, price, order, build, changes, offered>>

ShareDone ==
    /\ \A r \in Requests : req[r] \in {"done", "refused", "failed"}
    /\ UNCHANGED shareVars

ShareNext ==
    \/ \E p \in Parts, new \in Prices \cup {NoPrice} : Reprice(p, new)
    \/ \E r \in Requests : Arrive(r) \/ Lookup(r) \/ \E c \in Codes : Draw(r, c)
    \/ ShareDone

ShareSpec == ShareInit /\ [][ShareNext]_shareVars

-----------------------------------------------------------------------------
(* resolve_shared_build(): rows are found by part id and put back into the *)
(* slot that named the id last; a delisted or unpriced part is kept.       *)

Resolved(c) ==
    LET b    == shared[c]
        \* id_to_slot: any of the slots that name a part, one for each part
        last == CHOOSE f \in [{b[s].id : s \in DOMAIN b} -> DOMAIN b] :
                    \A p \in DOMAIN f : b[f[p]].id = p
    IN [s \in {last[p] : p \in DOMAIN last} |->
           [part |-> b[s].id, qty |-> b[s].qty, price_at_share |-> b[s].price_at_share,
            price |-> price[b[s].id], listed |-> listed[b[s].id]]]

-----------------------------------------------------------------------------
(* Properties.                                                             *)

NamedOnce(o, s) == \A t \in DOMAIN o \ {s} : o[t].id # o[s].id

\* A code that was handed out brings back the build it was given for, for ever:
\* every slot whose part no other slot names, delisted or not, in its quantity,
\* at a price that was the server's own while the build was shared; and a part
\* named twice in one of its slots.
SharedBuildComesBack ==
    \A r \in Requests : req[r] = "done" =>
        LET o == order[r]
            b == Resolved(code[r])
        IN /\ \A s \in DOMAIN o : NamedOnce(o, s) => s \in DOMAIN b
           /\ {b[s].part : s \in DOMAIN b} = {o[s].id : s \in DOMAIN o}
           /\ \A s \in DOMAIN b : /\ s \in DOMAIN o
                                  /\ b[s].part = o[s].id /\ b[s].qty = o[s].qty
                                  /\ b[s].price_at_share \in offered[r][o[s].id]

\* "A build silently missing a component is more confusing than one that shows
\* the component as unavailable": every slot comes back.  (Violated: README.)
NoSlotIsDropped ==
    \A r \in Requests : req[r] = "done" => DOMAIN Resolved(code[r]) = DOMAIN order[r]

=============================================================================
