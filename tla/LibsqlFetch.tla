------------------------------ MODULE LibsqlFetch ------------------------------
(***************************************************************************)
(* db/libsql_adapter.py: `_Cursor._fetch`.  A statement has been executed  *)
(* on a cursor; its caller now pulls the rows back one fetch at a time.    *)
(* When pulling fails, a read-only statement none of whose rows has been   *)
(* handed out is run again, on a new connection if the stream was lost.    *)
(*                                                                         *)
(* Streams are numbered by reconnection: `conn` is the connection's, `cur` *)
(* the one the wrapper's raw cursor is on, `bound` the one of the raw      *)
(* cursor whose fetchone/fetchall the running call captured.               *)
(***************************************************************************)
EXTENDS Naturals, Sequences

CONSTANTS NumRows,      \* rows in the result set
          FetchAttempts,  \* _MAX_ATTEMPTS
          MaxLosses     \* bound: how often the server drops the stream

ASSUME FetchAssumption ==
    NumRows \in Nat \ {0} /\ FetchAttempts \in Nat \ {0} /\ MaxLosses \in Nat

VARIABLES
    readonly,  \* the statement is a SELECT
    inBlock,      \* a `with conn:` block is open
    conn, cur, bound,
    streamUp,     \* the server still has stream conn
    pos,       \* next row of the result set on cur, 0 when there is none
    runs,      \* how often the server has executed the statement
    handed,    \* rows handed to the caller, in order
    tries,
    pc,        \* ready | fetch | rerun | rerun_again | done | raised
    losses,    \* streams dropped so far
    faults     \* other failures so far

fetchVars == <<readonly, inBlock, conn, cur, bound, streamUp, pos, runs, handed, tries,
               pc, losses, faults>>

FetchInit ==
    /\ readonly \in BOOLEAN /\ inBlock \in BOOLEAN
    /\ conn = 0 /\ cur = 0 /\ bound = 0
    /\ streamUp = TRUE
    /\ pos = 1 /\ runs = 1
    /\ handed = <<>>
    /\ tries = 1
    /\ pc = "ready"
    /\ losses = 0 /\ faults = 0

DropStream ==
    /\ streamUp /\ losses < MaxLosses /\ pc \notin {"done", "raised"}
    /\ streamUp' = FALSE
    /\ losses' = losses + 1
    /\ UNCHANGED <<readonly, inBlock, conn, cur, bound, pos, runs, handed, tries, pc, faults>>

\* self._consumed
Consumed == handed # <<>>

\* `self._fetch(self._cur.fetchone)`: the bound method keeps this raw cursor.
CallFetch ==
    /\ pc = "ready"
    /\ bound' = cur
    /\ tries' = 1
    /\ pc' = "fetch"
    /\ UNCHANGED <<readonly, inBlock, conn, cur, streamUp, pos, runs, handed, losses, faults>>

\* The raw cursor the call captured still has a stream behind it.
Reachable == bound = conn /\ streamUp

\* fetchall() hands out every row that is left, fetchone() the next one.
FetchOk ==
    /\ pc = "fetch" /\ Reachable /\ pos > 0
    /\ \E n \in {pos, NumRows} :
          /\ handed' = handed \o [i \in 1 .. n + 1 - pos |-> pos + i - 1]
          /\ pos' = n + 1
          /\ pc' = IF n = NumRows THEN "done" ELSE "ready"
    /\ UNCHANGED <<readonly, inBlock, conn, cur, bound, streamUp, runs, tries, losses, faults>>

\* Mutant: the reconnect is always taken for a replayable one.
ReplayableInTx == TRUE

\* _recover_stream() returned True: no block is open.
Replayable == ~inBlock

Reconnect ==
    /\ conn' = conn + 1 /\ cur' = conn + 1
    /\ streamUp' = TRUE
    /\ pos' = 0

\* Mutant: rows already handed out do not matter.
RecoverableAnyTime == readonly /\ tries < FetchAttempts

\* Mutant: the statement may be a write.
RecoverableWrite == ~Consumed /\ tries < FetchAttempts

\* The statement may be run again, and an attempt is left.
Recoverable == readonly /\ ~Consumed /\ tries < FetchAttempts

\* fn() raised "stream not found": so it does on the cursor of a stream that
\* was replaced under it, for ever.
FetchStreamLost ==
    /\ pc = "fetch" /\ ~Reachable
    /\ IF ~Recoverable
       THEN pc' = "raised" /\ UNCHANGED <<conn, cur, streamUp, pos>>
       ELSE Reconnect /\ pc' = IF Replayable THEN "rerun" ELSE "raised"
    /\ UNCHANGED <<readonly, inBlock, bound, runs, handed, tries, losses, faults>>

\* fn() raised a transient error of either tier: the result set is gone.
\* The deadline published by the API may also end the loop here.
FetchFails ==
    /\ pc = "fetch" /\ Reachable /\ faults < FetchAttempts
    /\ faults' = faults + 1
    /\ pos' = 0
    /\ pc' \in IF Recoverable THEN {"rerun", "raised"} ELSE {"raised"}
    /\ UNCHANGED <<readonly, inBlock, conn, cur, bound, streamUp, runs, handed, tries, losses>>

\* self._replay[0](self._cur), then the next turn of the loop.
Rerun ==
    /\ pc \in {"rerun", "rerun_again"} /\ streamUp
    /\ pos' = 1
    /\ runs' = runs + 1
    /\ tries' = tries + 1
    /\ pc' = "fetch"
    /\ UNCHANGED <<readonly, inBlock, conn, cur, bound, streamUp, handed, losses, faults>>

\* The re-run finds the stream lost: one more reconnect, if there is no block.
RerunStreamLost ==
    /\ pc \in {"rerun", "rerun_again"} /\ ~streamUp
    /\ IF pc = "rerun"
       THEN Reconnect /\ pc' = IF Replayable THEN "rerun_again" ELSE "raised"
       ELSE pc' = "raised" /\ UNCHANGED <<conn, cur, streamUp, pos>>
    /\ UNCHANGED <<readonly, inBlock, bound, runs, handed, tries, losses, faults>>

\* Any other failure of the re-run propagates.
RerunFails ==
    /\ pc \in {"rerun", "rerun_again"} /\ streamUp /\ faults < FetchAttempts
    /\ faults' = faults + 1
    /\ pc' = "raised"
    /\ UNCHANGED <<readonly, inBlock, conn, cur, bound, streamUp, pos, runs, handed, tries, losses>>

FetchNext ==
    \/ DropStream \/ CallFetch \/ FetchOk \/ FetchStreamLost \/ FetchFails
    \/ Rerun \/ RerunStreamLost \/ RerunFails

FetchSpec == FetchInit /\ [][FetchNext]_fetchVars

-----------------------------------------------------------------------------
(* Properties.                                                             *)

\* The caller sees the rows of one result set: in order, none twice and none
\* skipped, however often the statement was run again.
RowsAreAPrefix ==
    /\ Len(handed) <= NumRows
    /\ \A i \in DOMAIN handed : handed[i] = i

\* A statement that writes (INSERT ... RETURNING) is never run again because
\* its rows could not be pulled back.
WriteRunsOnce == ~readonly => runs = 1

\* Inside a block the statement is never run again on another stream: it
\* would read outside the transaction its caller believes it is in.
BlockStaysOnItsStream == inBlock /\ conn # 0 => pos = 0

\* "A lost stream is worth one rebuild-and-retry": a SELECT outside a block,
\* none of whose rows was handed out, survives one lost stream.
OneLossIsRecovered ==
    readonly /\ ~inBlock /\ ~Consumed /\ faults = 0 /\ losses <= 1 => pc # "raised"

=============================================================================
