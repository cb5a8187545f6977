------------------------------- MODULE ShareRate -------------------------------
(***************************************************************************)
(* _check_rate() of backend/routers/builds.py: the cap on shared builds    *)
(* per client, kept in a plain dict that the API's worker threads read and *)
(* write without a lock.  One action per step between which another thread *)
(* can run: reading the clock and the last prune, each key of the sweep's  *)
(* scan, each deletion, the end of the sweep, reading the client's hits,   *)
(* storing them.  A stored list is never changed in place.  Requests for a *)
(* client come from whatever _client_key() returns.                        *)
(***************************************************************************)
EXTENDS Integers, Sequences, FiniteSets

CONSTANTS Workers, Clients, Nobody,
          Limit, Window, PruneInterval,  \* _RATE_LIMIT, _RATE_WINDOW, _RATE_PRUNE_INTERVAL
          MaxClock, MaxChecks            \* bounds: time; checks begun

ASSUME RateAssumption ==
    /\ Nobody \notin Clients
    /\ {Limit, Window, PruneInterval} \subseteq Nat \ {0}
    /\ {MaxClock, MaxChecks} \subseteq Nat

VARIABLES
    clock,      \* time.monotonic()
    rate,       \* _RATE: the times of the hits of each client it has a key for
    lastPrune,  \* _last_prune
    at,         \* step of each worker: idle | scan | delete | read | store |
                \* admitted | refused | error
    who, now,   \* client and time of the worker's check
    todo, size, \* the sweep's scan: keys left, size of the dict at its start
    stale,      \* keys the sweep will delete
    hits,       \* the list the worker has built
    checks,     \* checks begun so far
    admitted,   \* history: times of the admitted checks of each client
    overlapped  \* history: two checks have been under way at once

rateVars == <<clock, rate, lastPrune, at, who, now, todo, size, stale, hits, checks,
              admitted, overlapped>>
check    == <<who, now, todo, size, stale, hits>>

Fresh(t, moment) == t > moment - Window

RateInit ==
    /\ clock = 1
    /\ rate = [c \in {} |-> <<>>]
    /\ lastPrune = 0
    /\ at = [w \in Workers |-> "idle"]
    /\ who = [w \in Workers |-> Nobody]
    /\ now = [w \in Workers |-> 0]
    /\ todo = [w \in Workers |-> {}] /\ size = [w \in Workers |-> 0]
    /\ stale = [w \in Workers |-> {}]
    /\ hits = [w \in Workers |-> <<>>]
    /\ checks = 0
    /\ admitted = [c \in Clients |-> <<>>]
    /\ overlapped = FALSE

RateTick ==
    /\ clock < MaxClock
    /\ clock' = clock + 1
    /\ UNCHANGED <<rate, lastPrune, at, check, checks, admitted, overlapped>>

UnderWay(w) == at[w] \in {"scan", "delete", "read", "store"}

StartCheck(w, c) ==
    /\ at[w] = "idle" /\ checks < MaxChecks
    /\ checks' = checks + 1
    /\ who' = [who EXCEPT ![w] = c]
    /\ now' = [now EXCEPT ![w] = clock]
    /\ IF clock - lastPrune > PruneInterval
       THEN /\ at' = [at EXCEPT ![w] = "scan"]
            /\ todo' = [todo EXCEPT ![w] = DOMAIN rate]
            /\ size' = [size EXCEPT ![w] = Cardinality(DOMAIN rate)]
       ELSE at' = [at EXCEPT ![w] = "read"] /\ UNCHANGED <<todo, size>>
    /\ overlapped' = (overlapped \/ \E v \in Workers : UnderWay(v))
    /\ UNCHANGED <<clock, rate, lastPrune, stale, hits, admitted>>

-----------------------------------------------------------------------------
(* The sweep of stale keys.                                                *)

\* Mutant: a client with one old hit is forgotten with all its hits.
StaleIfAnyOld(c, moment) == \E i \in DOMAIN rate[c] : ~Fresh(rate[c][i], moment)

\* not any(now - t < _RATE_WINDOW for t in hits)
IsStale(c, moment) == \A i \in DOMAIN rate[c] : ~Fresh(rate[c][i], moment)

\* "dictionary changed size during iteration": the request ends with a 500.
ScanBroken(w) == Cardinality(DOMAIN rate) # size[w]

ScanKey(w, c) ==
    /\ at[w] = "scan" /\ c \in todo[w] \cap DOMAIN rate /\ ~ScanBroken(w)
    /\ todo' = [todo EXCEPT ![w] = @ \ {c}]
    /\ stale' = [stale EXCEPT ![w] = IF IsStale(c, now[w]) THEN @ \cup {c} ELSE @]
    /\ UNCHANGED <<clock, rate, lastPrune, at, who, now, size, hits, checks,
                   admitted, overlapped>>

EndScan(w) ==
    /\ at[w] = "scan" /\ (ScanBroken(w) \/ todo[w] \cap DOMAIN rate = {})
    /\ at' = [at EXCEPT ![w] = IF ScanBroken(w) THEN "error" ELSE "delete"]
    /\ todo' = [todo EXCEPT ![w] = {}] /\ size' = [size EXCEPT ![w] = 0]
    /\ UNCHANGED <<clock, rate, lastPrune, who, now, stale, hits, checks, admitted,
                   overlapped>>

\* del _RATE[stale]: a KeyError when another sweep was faster.
DeleteKey(w, c) ==
    /\ at[w] = "delete" /\ c \in stale[w]
    /\ IF c \in DOMAIN rate
       THEN /\ rate' = [d \in DOMAIN rate \ {c} |-> rate[d]]
            /\ stale' = [stale EXCEPT ![w] = @ \ {c}]
            /\ UNCHANGED at
       ELSE /\ at' = [at EXCEPT ![w] = "error"]
            /\ stale' = [stale EXCEPT ![w] = {}]
            /\ UNCHANGED rate
    /\ UNCHANGED <<clock, lastPrune, who, now, todo, size, hits, checks, admitted,
                   overlapped>>

EndPrune(w) ==
    /\ at[w] = "delete" /\ stale[w] = {}
    /\ lastPrune' = now[w]
    /\ at' = [at EXCEPT ![w] = "read"]
    /\ UNCHANGED <<clock, rate, check, checks, admitted, overlapped>>

-----------------------------------------------------------------------------
(* The cap.                                                                *)

\* _RATE[key] of a defaultdict: a missing key is put in.
HitsOf(c) == IF c \in DOMAIN rate THEN rate[c] ELSE <<>>

\* Mutant: hits outside the window count as well.
AllHits(c, moment) == HitsOf(c)

\* [t for t in s if moment - t < _RATE_WINDOW]
FreshIn(s, moment) ==
    LET kept[i \in 0 .. Len(s)] ==
            IF i = 0 THEN <<>>
            ELSE IF Fresh(s[i], moment) THEN Append(kept[i - 1], s[i])
            ELSE kept[i - 1]
    IN kept[Len(s)]

FreshHits(c, moment) == FreshIn(HitsOf(c), moment)

ReadHits(w) ==
    LET c == who[w]
        h == FreshHits(c, now[w])
    IN /\ at[w] = "read"
       /\ rate' = [d \in DOMAIN rate \cup {c} |-> IF d = c THEN HitsOf(c) ELSE rate[d]]
       /\ IF Len(h) >= Limit
          THEN at' = [at EXCEPT ![w] = "refused"] /\ UNCHANGED hits
          ELSE /\ at' = [at EXCEPT ![w] = "store"]
               /\ hits' = [hits EXCEPT ![w] = Append(h, now[w])]
       /\ UNCHANGED <<clock, lastPrune, who, now, todo, size, stale, checks, admitted,
                      overlapped>>

StoreHits(w) ==
    LET c == who[w]
    IN /\ at[w] = "store"
       /\ rate' = [d \in DOMAIN rate \cup {c} |-> IF d = c THEN hits[w] ELSE rate[d]]
       /\ admitted' = [admitted EXCEPT ![c] = Append(@, now[w])]
       /\ at' = [at EXCEPT ![w] = "admitted"]
       /\ hits' = [hits EXCEPT ![w] = <<>>]
       /\ UNCHANGED <<clock, lastPrune, who, now, todo, size, stale, checks, overlapped>>

EndCheck(w) ==
    /\ at[w] \in {"admitted", "refused", "error"}
    /\ at' = [at EXCEPT ![w] = "idle"]
    /\ now' = [now EXCEPT ![w] = 0] /\ who' = [who EXCEPT ![w] = Nobody]
    /\ UNCHANGED <<clock, rate, lastPrune, todo, size, stale, hits, checks,
                   admitted, overlapped>>

RateDone ==
    /\ clock = MaxClock /\ checks = MaxChecks /\ \A w \in Workers : at[w] = "idle"
    /\ UNCHANGED rateVars

RateNext ==
    \/ RateTick
    \/ \E w \in Workers :
          \/ \E c \in Clients : StartCheck(w, c) \/ ScanKey(w, c) \/ DeleteKey(w, c)
          \/ EndScan(w) \/ EndPrune(w) \/ ReadHits(w) \/ StoreHits(w) \/ EndCheck(w)
    \/ RateDone

RateSpec == RateInit /\ [][RateNext]_rateVars

-----------------------------------------------------------------------------
(* Properties.                                                             *)

InWindow(c, moment) ==
    Cardinality({i \in DOMAIN admitted[c] : Fresh(admitted[c][i], moment)})

\* Nobody is refused for what others did, or for what is past: a 429 means that
\* the client itself was admitted _RATE_LIMIT times within the window, whatever
\* lists were overwritten, and keys swept, by other threads meanwhile.
RefusedHadTheirShare ==
    \A w \in Workers : at[w] = "refused" => InWindow(who[w], now[w]) >= Limit

\* As long as no two checks overlap, no client is admitted more often than
\* _RATE_LIMIT within a window, and no check ends in an error: the sweep
\* forgets no client that still has hits to answer for.
CapHoldsInOrder ==
    ~overlapped =>
        /\ \A c \in Clients : InWindow(c, clock) <= Limit
        /\ \A w \in Workers : at[w] # "error"

\* "Per-client cap on share creation", with overlapping checks as well.  (Violated: README.)
CapHolds == \A c \in Clients : InWindow(c, clock) <= Limit

=============================================================================
