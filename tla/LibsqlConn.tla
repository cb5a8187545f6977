------------------------------ MODULE LibsqlConn ------------------------------
(***************************************************************************)
(* db/libsql_adapter.py and Database._transact: one process runs units of  *)
(* work (write methods of Database) over one libsql connection.  The       *)
(* server may forget the connection's stream at any moment, which discards *)
(* the open transaction; a statement may fail before it reached the server *)
(* (the transient tier), after it may have run (the read-only tier), or    *)
(* with an SQL error.                                                      *)
(*                                                                         *)
(* A unit is a sequence of operations: "read" (SELECT), "write", or "note" *)
(* (a write whose failure is swallowed: the quarantine of upsert_products).*)
(* Its kind is how the method delimits its transaction:                    *)
(*   implicit  statements, then self._conn.commit()                        *)
(*   with      one `with self._conn:` block (record_scrape_run)            *)
(*   transact  a block that _transact redoes as a whole                    *)
(***************************************************************************)
EXTENDS Naturals, Sequences

CONSTANTS Units,       \* calls of the write methods of Database
          Programs,    \* sets of units: the calls one process may make
          Kind,        \* per unit, implicit | with | transact
          Ops,         \* per unit, its operations in order
          Fatal,       \* units whose failure ends the process (the scrapers)
          MaxAttempts, \* _MAX_ATTEMPTS of a statement, commit or rollback
          MaxRedo      \* attempts of _transact

ASSUME UnitsAssumption ==
    /\ Kind \in [Units -> {"implicit", "with", "transact"}]
    /\ Ops \in [Units -> Seq({"read", "write", "note"})]
    /\ Programs \subseteq SUBSET Units
    /\ Fatal \subseteq Units
    /\ MaxAttempts \in Nat \ {0}
    /\ MaxRedo \in Nat \ {0}

\* What fails without ending the process writes once (the units of the API); the
\* quarantine is written after everything else of its unit; and a unit that does
\* not hold a block open does not read after it has written.
ASSUME SurvivedUnitsWriteOnce ==
    \A u \in Units \ Fatal : \A i, j \in DOMAIN Ops[u] :
        Ops[u][i] # "read" /\ Ops[u][j] # "read" => i = j

ASSUME NotesComeLast ==
    \A u \in Units : \A i, j \in DOMAIN Ops[u] :
        Ops[u][i] = "write" /\ Ops[u][j] = "note" => i < j

ASSUME ImplicitUnitsReadFirst ==
    \A u \in Units : \A i, j \in DOMAIN Ops[u] :
        Kind[u] = "implicit" /\ Ops[u][i] = "read" /\ Ops[u][j] # "read" => i < j

Slots == UNION {{<<u, i>> : i \in DOMAIN Ops[u]} : u \in Units}

VARIABLES
    up,        \* the process is running
    alive,     \* the server still has this connection's stream
    pending,   \* per statement, how often the open transaction holds it
    content,   \* per statement, how often it has been committed
    inTx,      \* LibsqlConnection._in_transaction
    phase,     \* idle | body | rollback
    unit,      \* the unit in progress, or the last one
    ip,        \* its next operation; past the last one it commits
    attempt,   \* attempts made of the current statement, commit or rollback
    redo,      \* attempts made of the block by _transact
    exc,       \* what a block being rolled back raised: transport | sql
    answer     \* per unit, none | ok | error

serverVars == <<alive, pending, content>>
clientVars == <<up, inTx, phase, unit, ip, attempt, redo, exc, answer>>
vars       == <<serverVars, clientVars>>

Nothing == [s \in Slots |-> 0]

Init ==
    /\ up = TRUE
    /\ alive = TRUE
    /\ pending = Nothing
    /\ content = Nothing
    /\ inTx = FALSE
    /\ phase = "idle"
    /\ unit \in Units
    /\ ip = 1
    /\ attempt = 1
    /\ redo = 1
    /\ exc = "transport"
    /\ answer = [u \in Units |-> "none"]

-----------------------------------------------------------------------------
(* The server.                                                             *)

Execute(s)    == pending' = [pending EXCEPT ![s] = @ + 1]
Apply         == content' = [s \in Slots |-> content[s] + pending[s]] /\ pending' = Nothing
Discard       == pending' = Nothing /\ UNCHANGED content
LeaveOpen     == UNCHANGED <<pending, content>>

\* An idle stream is dropped, and the transaction on it with it.
ForgetStream ==
    /\ alive
    /\ alive' = FALSE
    /\ Discard
    /\ UNCHANGED clientVars

-----------------------------------------------------------------------------
(* Control flow of the process.                                            *)

Op     == Ops[unit][ip]
InBody == up /\ phase = "body" /\ ip <= Len(Ops[unit])
Commit == up /\ phase = "body" /\ ip = Len(Ops[unit]) + 1

\* The calls made so far and u are calls of one program.
Callable(u) ==
    /\ answer[u] = "none"
    /\ \E P \in Programs : {u} \cup {v \in Units : answer[v] # "none"} \subseteq P

Begin(u) ==
    /\ up /\ phase = "idle" /\ Callable(u)
    /\ phase' = "body"
    /\ unit' = u
    /\ ip' = 1 /\ attempt' = 1 /\ redo' = 1
    /\ inTx' = (Kind[u] # "implicit")          \* __enter__
    /\ UNCHANGED <<serverVars, up, exc, answer>>

\* Mutant: the flag is cleared on a clean exit only.
EndKeepsFlag(r) ==
    /\ answer' = [answer EXCEPT ![unit] = r]
    /\ phase' = "idle"
    /\ inTx' = (inTx /\ r # "ok")
    /\ up' = ~(r = "error" /\ unit \in Fatal)
    /\ UNCHANGED <<unit, ip, attempt, redo, exc>>

\* The method returns, or raises out of its caller; after a fatal failure
\* the process is gone.
End(r) ==
    /\ answer' = [answer EXCEPT ![unit] = r]
    /\ phase' = "idle"
    /\ inTx' = FALSE
    /\ up' = ~(r = "error" /\ unit \in Fatal)
    /\ UNCHANGED <<unit, ip, attempt, redo, exc>>

\* Mutant: _transact does not count its attempts.
LeaveForEver(e) ==
    IF Kind[unit] = "transact" /\ e = "transport"
    THEN /\ ip' = 1 /\ attempt' = 1 /\ phase' = "body" /\ inTx' = TRUE
         /\ UNCHANGED <<redo, up, unit, exc, answer>>
    ELSE End("error")

\* The exception e leaves the `with` block: _transact redoes it or gives up.
Leave(e) ==
    IF Kind[unit] = "transact" /\ e = "transport" /\ redo < MaxRedo
    THEN /\ redo' = redo + 1
         /\ ip' = 1 /\ attempt' = 1 /\ phase' = "body" /\ inTx' = TRUE
         /\ UNCHANGED <<up, unit, exc, answer>>
    ELSE End("error")

NextOp == ip' = ip + 1 /\ attempt' = 1 /\ UNCHANGED <<up, inTx, phase, unit, redo, exc, answer>>

Again == attempt' = attempt + 1 /\ UNCHANGED <<up, inTx, phase, unit, ip, redo, exc, answer>>

\* A statement raised e.  A note swallows it; a block rolls back first.
Raise(e) ==
    CASE Op = "note" -> NextOp
      [] Op # "note" /\ Kind[unit] = "implicit" -> End("error")
      [] Op # "note" /\ Kind[unit] # "implicit" ->
            /\ phase' = "rollback"
            /\ attempt' = 1
            /\ exc' = e
            /\ UNCHANGED <<up, inTx, unit, ip, redo, answer>>

\* Mutant: one attempt too many.
RetryOrOneMore(give_up) == (attempt <= MaxAttempts /\ Again) \/ give_up

\* A retry of the same call on the same connection: attempts are left, and
\* the deadline published by the API (if any) has not passed.
RetryOr(give_up) == (attempt < MaxAttempts /\ Again) \/ give_up

-----------------------------------------------------------------------------
(* _Cursor._run: one statement.                                            *)

StatementOk ==
    /\ InBody /\ alive
    /\ IF Op = "read" THEN UNCHANGED pending ELSE Execute(<<unit, ip>>)
    /\ NextOp
    /\ UNCHANGED <<alive, content>>

\* _TRANSIENT_MARKERS: it never reached the server.
StatementUnreached ==
    /\ InBody /\ alive
    /\ RetryOr(Raise("transport"))
    /\ UNCHANGED serverVars

\* Mutant: the read-only tier is consulted for every statement.
RerunAnything(op) == op \in {"read", "write", "note"}

\* `readonly and _is_transient_read_only(e)`.
MayRerun(op) == op = "read"

\* _TRANSIENT_READ_ONLY_MARKERS: it may have run, the answer was lost.
StatementAmbiguous ==
    /\ InBody /\ alive
    /\ \/ UNCHANGED pending
       \/ Op # "read" /\ Execute(<<unit, ip>>)
    /\ IF MayRerun(Op) THEN RetryOr(Raise("transport")) ELSE Raise("transport")
    /\ UNCHANGED <<alive, content>>

\* Mutant: a write outside a block is replayed on the new stream too.
ReplayAnything == ~inTx /\ attempt < MaxAttempts

\* `replay and readonly`, where _recover_stream returned not _in_transaction.
MayReplay == ~inTx /\ Op = "read" /\ attempt < MaxAttempts

\* _STREAM_LOST_MARKERS: reconnect in any case, replay only outside a block.
StatementStreamLost ==
    /\ InBody /\ ~alive
    /\ alive' = TRUE
    /\ IF MayReplay THEN Again ELSE Raise("transport")
    /\ UNCHANGED <<pending, content>>

\* A constraint or any other SQL error: never retried.
StatementError ==
    /\ InBody /\ alive
    /\ Raise("sql")
    /\ UNCHANGED serverVars

-----------------------------------------------------------------------------
(* LibsqlConnection.commit and rollback, through _retry_transient.         *)

CommitOk ==
    /\ Commit /\ alive
    /\ Apply
    /\ End("ok")
    /\ UNCHANGED alive

CommitUnreached ==
    /\ Commit /\ alive
    /\ RetryOr(Leave("transport"))
    /\ UNCHANGED serverVars

\* Never retried: it may have committed.
CommitAmbiguous ==
    /\ Commit /\ alive
    /\ Apply \/ LeaveOpen
    /\ Leave("transport")
    /\ UNCHANGED alive

\* Mutant: commit swallows a lost stream the way rollback does.
CommitSwallowsLoss ==
    /\ Commit /\ ~alive
    /\ alive' = TRUE
    /\ End("ok")
    /\ UNCHANGED <<pending, content>>

\* Reconnect and raise: the transaction no longer exists.
CommitStreamLost ==
    /\ Commit /\ ~alive
    /\ alive' = TRUE
    /\ Leave("transport")
    /\ UNCHANGED <<pending, content>>

RollingBack == up /\ phase = "rollback"

RollbackOk ==
    /\ RollingBack /\ alive
    /\ Discard
    /\ Leave(exc)
    /\ UNCHANGED alive

\* The transport fails and its error replaces the first; not retried when it may have run.
RollbackFails ==
    /\ RollingBack /\ alive
    /\ \/ LeaveOpen /\ RetryOr(Leave("transport"))
       \/ Discard /\ Leave("transport")
    /\ UNCHANGED alive

\* Swallowed: the stream took the transaction with it.
RollbackStreamLost ==
    /\ RollingBack /\ ~alive
    /\ alive' = TRUE
    /\ Leave(exc)
    /\ UNCHANGED <<pending, content>>

-----------------------------------------------------------------------------

\* The job is cancelled or the host dies; the server drops the transaction.
Crash ==
    /\ up
    /\ up' = FALSE
    /\ phase' = "idle"
    /\ inTx' = FALSE
    /\ Discard
    /\ UNCHANGED <<alive, unit, ip, attempt, redo, exc, answer>>

Statement == \/ StatementOk \/ StatementUnreached \/ StatementAmbiguous
             \/ StatementStreamLost \/ StatementError
Finish    == \/ CommitOk \/ CommitUnreached \/ CommitAmbiguous \/ CommitStreamLost
             \/ RollbackOk \/ RollbackFails \/ RollbackStreamLost

Next == (\E u \in Units : Begin(u)) \/ Statement \/ Finish \/ ForgetStream \/ Crash

Spec == Init /\ [][Next]_vars

\* A running process keeps executing its unit; every request is answered in
\* one of the ways above (that it may never be is DbOwner's subject).
LiveSpec == Spec /\ WF_vars(Statement \/ Finish)

-----------------------------------------------------------------------------
(* Properties.                                                             *)

\* Every variable stays in its type; in particular the retry loops stay
\* within _MAX_ATTEMPTS and the attempts of _transact.
TypeOK ==
    /\ {up, alive, inTx} \subseteq BOOLEAN
    /\ pending \in [Slots -> Nat] /\ content \in [Slots -> Nat]
    /\ phase \in {"idle", "body", "rollback"}
    /\ unit \in Units
    /\ ip \in 1 .. Len(Ops[unit]) + 1
    /\ attempt \in 1 .. MaxAttempts
    /\ redo \in 1 .. MaxRedo
    /\ exc \in {"transport", "sql"}
    /\ answer \in [Units -> {"none", "ok", "error"}]

Writes(u) == {<<u, i>> : i \in {j \in DOMAIN Ops[u] : Ops[u][j] = "write"}}

Redoable == {u \in Units : Kind[u] = "transact"}

\* A statement of a unit that is not written to be redone is committed at
\* most once: a lost acknowledgement never becomes a second scrape_runs row,
\* share code or price row.
AppendOnce ==
    \A u \in Units \ Redoable : \A s \in Writes(u) : content[s] <= 1

\* No unit is ever visible in part, whatever is lost, replayed or redone
\* ("re-inserting every trend row on top of the ones the lost DELETE never
\* removed" is the case the adapter's comment fears).
NoTornUnit ==
    \A u \in Units :
        \/ \A s \in Writes(u) : content[s] = 0
        \/ \A s \in Writes(u) : content[s] > 0

\* A unit that was reported done is in the database.
OkMeansStored ==
    \A u \in Units : answer[u] = "ok" => \A s \in Writes(u) : content[s] > 0

\* _in_transaction is never left set between units: a failed exit "can't
\* leave the connection permanently marked in-transaction and block every
\* later stream recovery from replaying".
FlagOnlyInsideBlock == inTx => phase # "idle" /\ Kind[unit] # "implicit"

\* Every unit that was begun ends, however often the stream is lost.
EveryUnitEnds == phase # "idle" ~> phase = "idle"

\* The refinement mapping: 0 or 1 when the unit is there as a whole, as
\* often as its kind allows; 2, which the abstract store never holds, when
\* it is torn or doubled.
StoredAs(u) ==
    IF \A s \in Writes(u) : content[s] = 0 THEN 0
    ELSE IF \A s \in Writes(u) : content[s] = 1 \/ (u \in Redoable /\ content[s] > 0) THEN 1
    ELSE 2

Store == INSTANCE AtomicStore WITH stored <- [u \in Units |-> StoredAs(u)]

\* The adapter with _transact implements the atomic store its callers assume.
ImplementsAtomicStore == Store!StoreSpec

=============================================================================
