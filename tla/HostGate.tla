------------------------------- MODULE HostGate -------------------------------
(***************************************************************************)
(* BaseScraper.fetch() from the inside: several threads that fetch from    *)
(* one host, its lock held over pacing, request and every retry, and the   *)
(* circuit breaker of _host_state.  Module Harvest takes such a fetch for  *)
(* one step.  Delays are left out: a thread that sleeps just takes no step.*)
(***************************************************************************)
EXTENDS Naturals, FiniteSets

CONSTANTS Threads, NoThread,
          Retries,           \* attempts of one fetch
          MaxForbidden, MaxThrottled,  \* BLOCK_AFTER_FORBIDDEN, _FAILED_FETCHES
          MaxFetches         \* bound: fetches of each thread

ASSUME GateAssumption ==
    /\ NoThread \notin Threads
    /\ {Retries, MaxForbidden, MaxThrottled} \subseteq Nat \ {0}
    /\ MaxFetches \in Nat

VARIABLES
    fetcher,     \* step of each thread: idle | queued | locked | pace | asked
    fetches,     \* fetches it has begun
    attempt,     \* attempts of the one under way
    hostLock,    \* who holds st["lock"]
    refused,     \* fail_403
    throttled,   \* fail_429
    tripped      \* st["blocked"]

gateVars == <<fetcher, fetches, attempt, hostLock, refused, throttled, tripped>>
counts   == <<refused, throttled, tripped>>

Answers == {"200", "403", "404", "429", "fail"}

GateInit ==
    /\ fetcher = [t \in Threads |-> "idle"]
    /\ fetches = [t \in Threads |-> 0]
    /\ attempt = [t \in Threads |-> 0]
    /\ hostLock = NoThread
    /\ refused = 0 /\ throttled = 0 /\ tripped = FALSE

\* The first look at `blocked`: a tripped host is not even queued for.
CallFetch(t) ==
    /\ fetcher[t] = "idle" /\ fetches[t] < MaxFetches
    /\ fetches' = [fetches EXCEPT ![t] = @ + 1]
    /\ fetcher' = [fetcher EXCEPT ![t] = IF tripped THEN "idle" ELSE "queued"]
    /\ UNCHANGED <<attempt, hostLock, counts>>

TakeLock(t) ==
    /\ fetcher[t] = "queued" /\ hostLock = NoThread
    /\ hostLock' = t
    /\ fetcher' = [fetcher EXCEPT ![t] = "locked"]
    /\ UNCHANGED <<fetches, attempt, counts>>

\* fetch() returns or raises: the lock goes with it.
EndFetch(t) ==
    /\ fetcher' = [fetcher EXCEPT ![t] = "idle"]
    /\ attempt' = [attempt EXCEPT ![t] = 0]
    /\ hostLock' = NoThread

\* Mutant: the thread that got the lock goes straight to its request.
LookOnce(t) ==
    /\ fetcher[t] = "locked"
    /\ fetcher' = [fetcher EXCEPT ![t] = "pace"]
    /\ attempt' = [attempt EXCEPT ![t] = 1]
    /\ UNCHANGED <<fetches, hostLock, counts>>

\* The second look, with the lock: another thread may have tripped the breaker.
LookAgain(t) ==
    /\ fetcher[t] = "locked"
    /\ IF tripped
       THEN EndFetch(t)
       ELSE /\ fetcher' = [fetcher EXCEPT ![t] = "pace"]
            /\ attempt' = [attempt EXCEPT ![t] = 1]
            /\ UNCHANGED hostLock
    /\ UNCHANGED <<fetches, counts>>

\* _pace() is over, the request is on its way.
SendRequest(t) ==
    /\ fetcher[t] = "pace"
    /\ fetcher' = [fetcher EXCEPT ![t] = "asked"]
    /\ UNCHANGED <<fetches, attempt, hostLock, counts>>

\* Mutant: waiting for the host does not use up an attempt.
TryAgainForEver(t) ==
    /\ fetcher' = [fetcher EXCEPT ![t] = "pace"]
    /\ UNCHANGED <<attempt, hostLock, counts>>

TryAgain(t) ==
    /\ fetcher' = [fetcher EXCEPT ![t] = "pace"]
    /\ attempt' = [attempt EXCEPT ![t] = @ + 1]
    /\ UNCHANGED <<hostLock, counts>>

\* Any 2xx clears both counts.
Success(t) ==
    /\ refused' = 0 /\ throttled' = 0
    /\ EndFetch(t)
    /\ UNCHANGED tripped

\* 403 is never retried, but a run of them is a block.
Forbidden(t) ==
    /\ refused' = refused + 1
    /\ tripped' = (refused + 1 >= MaxForbidden)
    /\ EndFetch(t)
    /\ UNCHANGED throttled

\* A fetch counts once, after the last of its attempts.
Throttled(t) ==
    IF attempt[t] < Retries
    THEN TryAgain(t)
    ELSE /\ throttled' = throttled + 1
         /\ tripped' = (throttled + 1 >= MaxThrottled)
         /\ EndFetch(t)
         /\ UNCHANGED refused

\* 5xx, timeouts, a read past READ_DEADLINE: retried, never counted.
Broken(t) ==
    IF attempt[t] < Retries THEN TryAgain(t) ELSE EndFetch(t) /\ UNCHANGED counts

Answered(t, a) ==
    /\ fetcher[t] = "asked"
    /\ UNCHANGED fetches
    /\ \/ a = "200" /\ Success(t)
       \/ a = "403" /\ Forbidden(t)
       \/ a = "404" /\ EndFetch(t) /\ UNCHANGED counts
       \/ a = "429" /\ Throttled(t)
       \/ a = "fail" /\ Broken(t)

FetchStep(t) ==
    \/ TakeLock(t) \/ LookAgain(t) \/ SendRequest(t)
    \/ \E a \in Answers : Answered(t, a)

AllFetched == /\ \A t \in Threads : fetcher[t] = "idle" /\ fetches[t] = MaxFetches
              /\ UNCHANGED gateVars

GateNext == (\E t \in Threads : CallFetch(t) \/ FetchStep(t)) \/ AllFetched

\* Threads run; urlopen() is bounded by its timeouts, so a request is answered.
\* A lock that is free again and again is not owed to anybody: threads make a
\* bounded number of fetches.
GateFairness == \A t \in Threads : WF_gateVars(FetchStep(t))

GateSpec == GateInit /\ [][GateNext]_gateVars /\ GateFairness

-----------------------------------------------------------------------------
(* Properties.                                                             *)

\* "Never two concurrent requests to one host", and not one request more once
\* the breaker has tripped, however many threads had looked at it, or queued
\* for the lock, before.
BlockedHostIsLeftAlone ==
    LET out == {t \in Threads : fetcher[t] = "asked"}
    IN Cardinality(out) <= 1 /\ (tripped => out = {})

\* Every fetch comes back, through queues, retries and a breaker that trips
\* while others wait.
EveryFetchReturns ==
    \A t \in Threads : fetcher[t] # "idle" ~> fetcher[t] = "idle"

=============================================================================
