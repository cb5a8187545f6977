---------------------------- MODULE LibsqlProofs ----------------------------
(***************************************************************************)
(* Theorems about LibsqlConn, for any units of work, programs and limits,  *)
(* and about LibsqlFetch, for any number of rows, attempts and losses.     *)
(***************************************************************************)
EXTENDS LibsqlConn, LibsqlFetch, SequenceTheorems, TLAPS

-----------------------------------------------------------------------------
(* The invariant, in the parts that disturb each other.                    *)

\* The flag says whether a block is open; only a block is rolled back, and a
\* process that is gone is in no unit.
BlockInv ==
    /\ inTx = (phase # "idle" /\ Kind[unit] # "implicit")
    /\ phase = "rollback" => Kind[unit] # "implicit"
    /\ phase # "idle" => up /\ answer[unit] = "none"

\* A lost stream has taken the open transaction with it.
StreamInv == ~alive => pending = Nothing

\* What has not been executed yet has left no trace.
Untouched(u, i) == pending[<<u, i>>] = 0 /\ content[<<u, i>>] = 0

UntouchedInv ==
    up => \A u \in Units : \A i \in DOMAIN Ops[u] :
        \/ answer[u] # "none"
        \/ u = unit /\ phase # "idle" /\ (i < ip \/ phase = "rollback" \/ u \in Redoable)
        \/ Untouched(u, i)

\* A statement that is not redone has been executed at most once.
OnceInv ==
    \A u \in Units \ Redoable : \A s \in Writes(u) : pending[s] + content[s] <= 1

\* What the open transaction holds of a unit that is over is all of it or
\* nothing, so that the next commit cannot tear it.
Whole(u) == \/ \A s \in Writes(u) : pending[s] = 0
            \/ \A s \in Writes(u) : pending[s] > 0

WholeInv == up => \A u \in Units : Whole(u) \/ (u = unit /\ phase # "idle")

\* Of the unit under way it holds all the writes passed so far, or nothing: then
\* the loss has still to be noticed, or a note has swallowed it.
Passed == \A i \in DOMAIN Ops[unit] :
              i < ip /\ Ops[unit][i] = "write" => pending[<<unit, i>>] > 0

Lost == /\ \A s \in Writes(unit) : pending[s] = 0
        /\ alive => \E i \in DOMAIN Ops[unit] : i < ip /\ Ops[unit][i] = "note"

BodyInv == phase = "body" => Passed \/ Lost

ConnInv == /\ TypeOK /\ BlockInv /\ StreamInv /\ UntouchedInv
           /\ OnceInv /\ WholeInv /\ BodyInv /\ NoTornUnit

-----------------------------------------------------------------------------
(* Slots.                                                                  *)

\* The statements of a unit are slots.
LEMMA OpsAreSlots ==
    ASSUME NEW u \in Units, NEW i \in DOMAIN Ops[u]
    PROVE  <<u, i>> \in Slots
  BY DEF Slots

\* The writes of a unit, by their place in it.
LEMMA WritesOf ==
    ASSUME NEW u \in Units
    PROVE  /\ \A i \in DOMAIN Ops[u] : Ops[u][i] = "write" => <<u, i>> \in Writes(u)
           /\ \A s \in Writes(u) : \E i \in DOMAIN Ops[u] : Ops[u][i] = "write" /\ s = <<u, i>>
           /\ Writes(u) \subseteq Slots
  BY DEF Writes, Slots

\* What the constants say of one unit.
LEMMA UnitFacts ==
    ASSUME NEW u \in Units
    PROVE  /\ Ops[u] \in Seq({"read", "write", "note"})
           /\ Len(Ops[u]) \in Nat /\ DOMAIN Ops[u] = 1 .. Len(Ops[u])
           /\ \A i \in DOMAIN Ops[u] : Ops[u][i] \in {"read", "write", "note"}
           /\ Kind[u] \in {"implicit", "with", "transact"}
  BY UnitsAssumption

\* The retry limits are at least one.
LEMMA Limits == MaxAttempts \in Nat /\ MaxAttempts >= 1 /\ MaxRedo \in Nat /\ MaxRedo >= 1
  BY UnitsAssumption

-----------------------------------------------------------------------------
(* Types.                                                                  *)

ServerOK == alive \in BOOLEAN /\ pending \in [Slots -> Nat] /\ content \in [Slots -> Nat]

ClientOK ==
    /\ up \in BOOLEAN /\ inTx \in BOOLEAN
    /\ phase \in {"idle", "body", "rollback"}
    /\ unit \in Units
    /\ ip \in 1 .. Len(Ops[unit]) + 1
    /\ attempt \in 1 .. MaxAttempts
    /\ redo \in 1 .. MaxRedo
    /\ exc \in {"transport", "sql"}
    /\ answer \in [Units -> {"none", "ok", "error"}]

\* The ways in which the process goes on keep the types of its variables.
LEMMA ControlTypes ==
    ASSUME ClientOK
    PROVE  /\ ip <= Len(Ops[unit]) /\ NextOp => ClientOK'
           /\ attempt < MaxAttempts /\ Again => ClientOK'
           /\ \A r \in {"ok", "error"} : End(r) => ClientOK'
           /\ \A e \in {"transport", "sql"} : Leave(e) => ClientOK'
           /\ \A e \in {"transport", "sql"} :
                  ip <= Len(Ops[unit]) /\ Raise(e) => ClientOK'
<1> USE Limits, UnitFacts DEF ClientOK
<1>1. ip <= Len(Ops[unit]) /\ NextOp => ClientOK'
  BY DEF NextOp
<1>2. attempt < MaxAttempts /\ Again => ClientOK'
  BY DEF Again
<1>3. ASSUME NEW r \in {"ok", "error"}, End(r) PROVE ClientOK'
  BY <1>3 DEF End
<1>4. ASSUME NEW e \in {"transport", "sql"}, Leave(e) PROVE ClientOK'
  <2>1. CASE Kind[unit] = "transact" /\ e = "transport" /\ redo < MaxRedo
    BY <1>4, <2>1 DEF Leave
  <2>2. CASE ~(Kind[unit] = "transact" /\ e = "transport" /\ redo < MaxRedo)
    BY <1>4, <2>2, <1>3 DEF Leave
  <2> QED
    BY <2>1, <2>2
<1>5. ASSUME NEW e \in {"transport", "sql"}, ip <= Len(Ops[unit]), Raise(e) PROVE ClientOK'
  <2>1. CASE Op = "note"
    BY <1>5, <2>1, <1>1 DEF Raise
  <2>2. CASE Op # "note" /\ Kind[unit] = "implicit"
    BY <1>5, <2>2, <1>3 DEF Raise
  <2>3. CASE Op # "note" /\ Kind[unit] # "implicit"
    <3>1. /\ phase' = "rollback" /\ attempt' = 1 /\ exc' = e
          /\ UNCHANGED <<up, inTx, unit, ip, redo, answer>>
      BY <1>5, <2>3 DEF Raise
    <3> QED
      BY <3>1
  <2> QED
    BY <2>1, <2>2, <2>3
<1> QED
  BY <1>1, <1>2, <1>3, <1>4, <1>5

\* So do the effects on the server.
LEMMA ServerTypes ==
    ASSUME ServerOK, alive' \in BOOLEAN
    PROVE  /\ UNCHANGED <<pending, content>> => ServerOK'
           /\ Discard => ServerOK'
           /\ Apply => ServerOK'
           /\ \A s \in Slots : Execute(s) /\ UNCHANGED content => ServerOK'
  BY DEF ServerOK, Discard, Apply, Execute, Nothing

\* Types, step by step.
LEMMA TypeStep == TypeOK /\ [Next]_vars => TypeOK'
<1> SUFFICES ASSUME ServerOK, ClientOK, [Next]_vars PROVE ServerOK' /\ ClientOK'
  BY DEF TypeOK, ServerOK, ClientOK
<1> USE ControlTypes, ServerTypes DEF serverVars, clientVars, RetryOr, LeaveOpen
<1>1. ASSUME NEW u \in Units, Begin(u) PROVE ServerOK' /\ ClientOK'
  BY <1>1, Limits, UnitFacts DEF Begin, ClientOK, ServerOK
<1>2. InBody => <<unit, ip>> \in Slots
  BY OpsAreSlots, UnitFacts DEF InBody, ClientOK
<1>3. CASE StatementOk
  BY <1>2, <1>3 DEF StatementOk, InBody, ServerOK
<1>4. CASE StatementUnreached
  BY <1>4 DEF StatementUnreached, InBody, ServerOK
<1>5. CASE StatementAmbiguous
  BY <1>2, <1>5 DEF StatementAmbiguous, InBody, ServerOK
<1>6. CASE StatementStreamLost
  BY <1>6 DEF StatementStreamLost, InBody, MayReplay
<1>7. CASE StatementError
  BY <1>7 DEF StatementError, InBody, ServerOK
<1>8. CASE CommitOk
  BY <1>8 DEF CommitOk, ServerOK
<1>9. CASE CommitUnreached
  BY <1>9 DEF CommitUnreached, ServerOK
<1>10. CASE CommitAmbiguous
  BY <1>10 DEF CommitAmbiguous, ServerOK
<1>11. CASE CommitStreamLost
  BY <1>11 DEF CommitStreamLost
<1>12. CASE RollbackOk
  BY <1>12 DEF RollbackOk, ServerOK, ClientOK
<1>13. CASE RollbackFails
  BY <1>13 DEF RollbackFails, ServerOK
<1>14. CASE RollbackStreamLost
  BY <1>14 DEF RollbackStreamLost, ClientOK
<1>15. CASE ForgetStream
  BY <1>15 DEF ForgetStream, ClientOK
<1>16. CASE Crash
  BY <1>16 DEF Crash, ClientOK, ServerOK
<1>17. CASE UNCHANGED vars
  BY <1>17 DEF vars, ClientOK, ServerOK
<1> QED
  BY <1>1, <1>3, <1>4, <1>5, <1>6, <1>7, <1>8, <1>9, <1>10, <1>11, <1>12, <1>13, <1>14,
     <1>15, <1>16, <1>17 DEF Next, Statement, Finish

-----------------------------------------------------------------------------
(* Control flow.                                                           *)

RollsBack == /\ phase' = "rollback"
             /\ UNCHANGED <<up, inTx, unit, ip, redo, answer>>

Redoes == /\ unit \in Redoable
          /\ ip' = 1 /\ phase' = "body" /\ inTx' = TRUE
          /\ UNCHANGED <<up, unit, answer>>

\* A statement that raised is passed over, ends its unit, or is rolled back.
LEMMA RaiseOutcome ==
    ASSUME NEW e, Raise(e)
    PROVE  \/ Op = "note" /\ NextOp
           \/ Op # "note" /\ Kind[unit] = "implicit" /\ End("error")
           \/ Op # "note" /\ Kind[unit] # "implicit" /\ RollsBack
  BY DEF Raise, RollsBack

\* A block that raised is redone or over.
LEMMA LeaveOutcome ==
    ASSUME ClientOK, NEW e, Leave(e)
    PROVE  Redoes \/ End("error")
  BY DEF Leave, Redoes, Redoable, ClientOK

\* Everything a step of the process does to its own variables.
Control ==
    \/ ip <= Len(Ops[unit]) /\ NextOp
    \/ Again
    \/ \E r \in {"ok", "error"} : End(r)
    \/ Kind[unit] # "implicit" /\ RollsBack
    \/ Redoes

\* A statement, or the end of a unit, moves a running process on as Control lists.
LEMMA StepControl ==
    ASSUME ClientOK, Statement \/ Finish
    PROVE  up /\ phase \in {"body", "rollback"} /\ Control
<1> USE RaiseOutcome, LeaveOutcome DEF Control, RetryOr, InBody, Commit, RollingBack
<1>1. CASE Statement
  BY <1>1 DEF Statement, StatementOk, StatementUnreached, StatementAmbiguous,
              StatementStreamLost, StatementError
<1>2. CASE Finish
  BY <1>2 DEF Finish, CommitOk, CommitUnreached, CommitAmbiguous, CommitStreamLost,
              RollbackOk, RollbackFails, RollbackStreamLost
<1> QED
  BY <1>1, <1>2

\* The flag is set by a block and cleared by its end, step by step.
LEMMA BlockStep == TypeOK /\ BlockInv /\ [Next]_vars => BlockInv'
<1> SUFFICES ASSUME ClientOK, BlockInv, [Next]_vars PROVE BlockInv'
  BY DEF TypeOK, ClientOK
<1> USE DEF BlockInv, ClientOK
<1>1. ASSUME NEW u \in Units, Begin(u) PROVE BlockInv'
  BY <1>1 DEF Begin, Callable
<1>2. CASE Statement \/ Finish
  <2>1. up /\ phase # "idle" /\ Control
    BY <1>2, StepControl
  <2>2. CASE NextOp \/ Again
    BY <2>1, <2>2 DEF NextOp, Again
  <2>3. CASE \E r \in {"ok", "error"} : End(r)
    BY <2>1, <2>3 DEF End
  <2>4. CASE Kind[unit] # "implicit" /\ RollsBack
    BY <2>1, <2>4 DEF RollsBack
  <2>5. CASE Redoes
    BY <2>1, <2>5 DEF Redoes, Redoable
  <2> QED
    BY <2>1, <2>2, <2>3, <2>4, <2>5 DEF Control
<1>3. CASE ForgetStream \/ Crash \/ UNCHANGED vars
  BY <1>3 DEF ForgetStream, Crash, vars, clientVars
<1> QED
  BY <1>1, <1>2, <1>3 DEF Next

\* A lost stream takes the open transaction with it, step by step.
LEMMA StreamStep == TypeOK /\ StreamInv /\ [Next]_vars => StreamInv'
<1> SUFFICES ASSUME alive \in BOOLEAN, StreamInv, [Next]_vars PROVE StreamInv'
  BY DEF TypeOK
<1> USE DEF StreamInv
<1>1. ASSUME NEW u \in Units, Begin(u) PROVE StreamInv'
  BY <1>1 DEF Begin, serverVars
<1>2. CASE Statement
  BY <1>2 DEF Statement, StatementOk, StatementUnreached, StatementAmbiguous,
              StatementStreamLost, StatementError, serverVars
<1>3. CASE Finish
  BY <1>3 DEF Finish, CommitOk, CommitUnreached, CommitAmbiguous, CommitStreamLost,
              RollbackOk, RollbackFails, RollbackStreamLost, serverVars
<1>4. CASE ForgetStream \/ Crash \/ UNCHANGED vars
  BY <1>4 DEF ForgetStream, Crash, Discard, vars, serverVars
<1> QED
  BY <1>1, <1>2, <1>3, <1>4 DEF Next

-----------------------------------------------------------------------------
(* What a step does to the server, next to what it does to the process.    *)

\* A statement is retried only if it was not executed; any other way to go on
\* is open whether it was executed or not.
Advances == \/ NextOp
            \/ End("error")
            \/ Kind[unit] # "implicit" /\ RollsBack

\* The three outcomes of a statement: nothing and again, nothing and on, or done and on.
LEMMA StatementEffect ==
    ASSUME Statement
    PROVE  /\ InBody /\ UNCHANGED content
           /\ \/ UNCHANGED pending /\ Again
              \/ UNCHANGED pending /\ Advances
              \/ Op # "read" /\ Execute(<<unit, ip>>) /\ Advances
<1> USE RaiseOutcome DEF Advances, serverVars
<1>1. CASE StatementOk
  BY <1>1 DEF StatementOk
<1>2. CASE StatementUnreached
  BY <1>2 DEF StatementUnreached, RetryOr
<1>3. CASE StatementAmbiguous
  <2>1. CASE Op = "read"
    BY <1>3, <2>1 DEF StatementAmbiguous, RetryOr
  <2>2. CASE Op # "read"
    BY <1>3, <2>2 DEF StatementAmbiguous, MayRerun
  <2> QED
    BY <2>1, <2>2
<1>4. CASE StatementStreamLost
  BY <1>4 DEF StatementStreamLost
<1>5. CASE StatementError
  BY <1>5 DEF StatementError
<1> QED
  BY <1>1, <1>2, <1>3, <1>4, <1>5 DEF Statement

\* A commit is retried only if it was not applied; one that is reported done was.
LEMMA FinishEffect ==
    ASSUME ClientOK, StreamInv, Finish
    PROVE  /\ Commit \/ RollingBack
           /\ \/ UNCHANGED <<pending, content>> /\ (Again \/ Redoes \/ End("error"))
              \/ Commit /\ alive /\ Apply /\ (Redoes \/ End("error") \/ End("ok"))
              \/ RollingBack /\ Discard /\ (Redoes \/ End("error"))
<1> USE LeaveOutcome DEF RetryOr, LeaveOpen, serverVars
<1>1. CASE CommitOk \/ CommitUnreached \/ CommitAmbiguous \/ CommitStreamLost
  BY <1>1 DEF CommitOk, CommitUnreached, CommitAmbiguous, CommitStreamLost
<1>2. CASE RollbackOk \/ RollbackFails \/ RollbackStreamLost
  BY <1>2 DEF RollbackOk, RollbackFails, RollbackStreamLost
<1> QED
  BY <1>1, <1>2 DEF Finish

\* An execution adds to its own slot only.
LEMMA ExecuteSlot ==
    ASSUME ServerOK, NEW s \in Slots, Execute(s)
    PROVE  /\ pending'[s] = pending[s] + 1
           /\ \A r \in Slots : r # s => pending'[r] = pending[r]
  BY DEF ServerOK, Execute

\* What Apply and Discard leave.
LEMMA ApplySlots ==
    ASSUME ServerOK
    PROVE  /\ Apply => \A s \in Slots : /\ content'[s] = content[s] + pending[s]
                                        /\ pending'[s] = 0
           /\ Discard => \A s \in Slots : content'[s] = content[s] /\ pending'[s] = 0
  BY DEF ServerOK, Apply, Discard, Nothing

\* What has not been executed yet leaves no trace, step by step.
LEMMA UntouchedStep == ConnInv /\ [Next]_vars => UntouchedInv'
<1> SUFFICES ASSUME ConnInv, [Next]_vars, up',
                    NEW u \in Units, NEW i \in DOMAIN Ops[u]
             PROVE  \/ answer'[u] # "none"
                    \/ /\ u = unit' /\ phase' # "idle"
                       /\ i < ip' \/ phase' = "rollback" \/ u \in Redoable
                    \/ Untouched(u, i)'
  BY DEF UntouchedInv, Redoable
<1> DEFINE s == <<u, i>>
           Left == u = unit /\ phase # "idle" /\ (i < ip \/ phase = "rollback" \/ u \in Redoable)
           Goal == \/ answer'[u] # "none"
                   \/ /\ u = unit' /\ phase' # "idle"
                      /\ i < ip' \/ phase' = "rollback" \/ u \in Redoable
                   \/ Untouched(u, i)'
<1>1. ServerOK /\ ClientOK /\ BlockInv /\ StreamInv /\ UntouchedInv
  BY DEF ConnInv, TypeOK, ServerOK, ClientOK
<1>2. s \in Slots
  BY OpsAreSlots
<1>3. i \in Nat
  BY UnitFacts
<1>4. up => answer[u] # "none" \/ Left \/ Untouched(u, i)
  BY <1>1 DEF UntouchedInv
<1>5. ASSUME NEW v \in Units, Begin(v) PROVE Goal
  BY <1>1, <1>4, <1>5 DEF Begin, Untouched, serverVars
<1>6. CASE Statement
  <2>1. up /\ phase = "body" /\ ip \in 1 .. Len(Ops[unit]) /\ content' = content
    BY <1>1, <1>6, StatementEffect DEF InBody, ClientOK
  <2>2. <<unit, ip>> \in Slots
    BY <1>1, <2>1, OpsAreSlots, UnitFacts DEF ClientOK
  <2>3. CASE UNCHANGED pending /\ Again
    BY <1>4, <2>1, <2>3 DEF Again, Untouched
  <2>4. CASE Advances /\ u = unit
    <3>1. CASE NextOp
      <4>1. CASE i <= ip
        BY <2>1, <2>4, <3>1, <4>1, <1>3 DEF NextOp
      <4>2. CASE i > ip
        <5>1. u \in Redoable \/ answer[u] # "none" \/ Untouched(u, i)
          BY <1>3, <1>4, <2>1, <4>2
        <5>2. pending'[s] = pending[s]
          BY <1>1, <1>2, <1>3, <1>6, <2>1, <2>2, <4>2, StatementEffect, ExecuteSlot
             DEF Again, NextOp
        <5> QED
          BY <2>1, <2>4, <3>1, <5>1, <5>2 DEF NextOp, Untouched
      <4> QED
        BY <1>3, <2>1, <4>1, <4>2
    <3>2. CASE End("error")
      BY <1>1, <2>4, <3>2 DEF End, ClientOK
    <3>3. CASE RollsBack
      BY <2>4, <3>3 DEF RollsBack
    <3> QED
      BY <2>4, <3>1, <3>2, <3>3 DEF Advances
  <2>5. CASE Advances /\ u # unit
    <3>1. pending'[s] = pending[s]
      BY <1>1, <1>2, <1>6, <2>2, <2>5, StatementEffect, ExecuteSlot
    <3>2. answer'[u] = answer[u]
      BY <1>1, <2>5 DEF Advances, NextOp, End, RollsBack, ClientOK
    <3> QED
      BY <1>4, <2>1, <2>5, <3>1, <3>2 DEF Untouched
  <2> QED
    BY <1>6, <2>3, <2>4, <2>5, StatementEffect
<1>7. CASE Finish
  <2>1. up /\ phase # "idle"
    BY <1>1, <1>7, FinishEffect DEF Commit, RollingBack
  <2>2. Untouched(u, i) => Untouched(u, i)'
    <3>1. CASE UNCHANGED <<pending, content>>
      BY <3>1 DEF Untouched
    <3>2. CASE Apply \/ Discard
      BY <1>1, <1>2, <3>2, ApplySlots DEF Untouched, ServerOK
    <3> QED
      BY <1>1, <1>7, <3>1, <3>2, FinishEffect
  <2>3. CASE Again
    BY <1>4, <2>1, <2>2, <2>3 DEF Again
  <2>4. CASE Redoes
    BY <1>4, <2>1, <2>2, <2>4 DEF Redoes
  <2>5. CASE End("ok") \/ End("error")
    BY <1>1, <1>4, <2>1, <2>2, <2>5 DEF End, ClientOK
  <2> QED
    BY <1>1, <1>7, <2>3, <2>4, <2>5, FinishEffect
<1>8. CASE ForgetStream
  BY <1>1, <1>2, <1>4, <1>8, ApplySlots DEF ForgetStream, clientVars, Untouched
<1>9. CASE Crash \/ UNCHANGED vars
  BY <1>4, <1>9 DEF Crash, vars, serverVars, clientVars, Untouched
<1> QED
  BY <1>5, <1>6, <1>7, <1>8, <1>9 DEF Next

\* Where the unit under way stands, seen from its slots.
LEMMA CurrentSlot ==
    ASSUME ClientOK, InBody
    PROVE  /\ unit \in Units /\ ip \in DOMAIN Ops[unit] /\ ip \in Nat
           /\ <<unit, ip>> \in Slots
           /\ Op = Ops[unit][ip] /\ Op \in {"read", "write", "note"}
  BY OpsAreSlots, UnitFacts DEF ClientOK, InBody, Op

\* A statement that is not redone is executed at most once, step by step.
LEMMA OnceStep == ConnInv /\ [Next]_vars => OnceInv'
<1> SUFFICES ASSUME ConnInv, [Next]_vars, NEW u \in Units \ Redoable, NEW s \in Writes(u)
             PROVE  pending'[s] + content'[s] <= 1
  BY DEF OnceInv, Redoable, Writes
<1>1. ServerOK /\ ClientOK /\ BlockInv /\ StreamInv /\ UntouchedInv /\ OnceInv
  BY DEF ConnInv, TypeOK, ServerOK, ClientOK
<1>2. s \in Slots /\ pending[s] \in Nat /\ content[s] \in Nat /\ pending[s] + content[s] <= 1
  BY <1>1, WritesOf DEF OnceInv, ServerOK
<1>3. PICK i \in DOMAIN Ops[u] : Ops[u][i] = "write" /\ s = <<u, i>>
  BY WritesOf
<1>4. CASE Statement
  <2>1. InBody /\ content' = content
    BY <1>4, StatementEffect
  <2>2. CASE UNCHANGED pending
    BY <1>2, <2>1, <2>2
  <2>3. CASE Execute(<<unit, ip>>) /\ s # <<unit, ip>>
    BY <1>1, <1>2, <2>1, <2>3, CurrentSlot, ExecuteSlot
  <2>4. CASE Execute(<<unit, ip>>) /\ s = <<unit, ip>>
    <3>1. u = unit /\ i = ip
      BY <1>3, <2>4
    <3>2. pending[s] = 0 /\ content[s] = 0
      BY <1>1, <1>3, <2>1, <3>1, CurrentSlot
         DEF UntouchedInv, Untouched, BlockInv, InBody
    <3> QED
      BY <1>1, <2>1, <2>4, <3>2, CurrentSlot, ExecuteSlot
  <2> QED
    BY <1>4, <2>2, <2>3, <2>4, StatementEffect
<1>5. CASE Finish
  <2>1. CASE Apply \/ Discard
    BY <1>1, <1>2, <2>1, ApplySlots
  <2>2. CASE UNCHANGED <<pending, content>>
    BY <1>2, <2>2
  <2> QED
    BY <1>1, <1>5, <2>1, <2>2, FinishEffect
<1>6. CASE ForgetStream \/ Crash
  BY <1>1, <1>2, <1>6, ApplySlots DEF ForgetStream, Crash
<1>7. ASSUME NEW v \in Units, Begin(v) PROVE pending'[s] + content'[s] <= 1
  BY <1>2, <1>7 DEF Begin, serverVars
<1>8. CASE UNCHANGED vars
  BY <1>2, <1>8 DEF vars, serverVars
<1> QED
  BY <1>4, <1>5, <1>6, <1>7, <1>8 DEF Next

\* What survives its own failure cannot be left in part: it has one write.
LEMMA SurvivorIsWhole ==
    ASSUME NEW u \in Units \ Fatal, NEW f \in [Slots -> Nat]
    PROVE  (\A s \in Writes(u) : f[s] = 0) \/ (\A s \in Writes(u) : f[s] > 0)
<1>1. \A r, s \in Writes(u) : r = s
  <2> SUFFICES ASSUME NEW r \in Writes(u), NEW s \in Writes(u) PROVE r = s
    OBVIOUS
  <2>1. PICK i \in DOMAIN Ops[u] : Ops[u][i] = "write" /\ r = <<u, i>>
    BY WritesOf
  <2>2. PICK j \in DOMAIN Ops[u] : Ops[u][j] = "write" /\ s = <<u, j>>
    BY WritesOf
  <2> QED
    BY <2>1, <2>2, SurvivedUnitsWriteOnce
<1>2. \A s \in Writes(u) : f[s] \in Nat
  BY WritesOf
<1> QED
  BY <1>1, <1>2

\* At its commit a unit is there as a whole, or lost as a whole.
LEMMA CommittedIsWhole ==
    ASSUME ConnInv, Commit
    PROVE  Whole(unit)
<1>1. ClientOK /\ BodyInv
  BY DEF ConnInv, TypeOK, ClientOK
<1>2. CASE Lost
  BY <1>2 DEF Lost, Whole
<1>3. CASE Passed
  <2>1. \A i \in DOMAIN Ops[unit] : i < ip
    BY <1>1, UnitFacts DEF ClientOK, Commit
  <2>2. \A s \in Writes(unit) : pending[s] > 0
    BY <1>1, <1>3, <2>1, WritesOf DEF Passed, ClientOK
  <2> QED
    BY <2>2 DEF Whole
<1> QED
  BY <1>1, <1>2, <1>3 DEF BodyInv, Commit

\* So the commit meets nothing but whole units.
LEMMA AllWholeAtCommit ==
    ASSUME ConnInv, Commit
    PROVE  \A u \in Units : Whole(u)
  BY CommittedIsWhole DEF ConnInv, WholeInv, Commit

\* What the open transaction holds of a unit that is over is whole, step by step.
LEMMA WholeStep == ConnInv /\ [Next]_vars => WholeInv'
<1> SUFFICES ASSUME ConnInv, [Next]_vars, up', NEW u \in Units, ~(u = unit' /\ phase' # "idle")
             PROVE  Whole(u)'
  BY DEF WholeInv
<1>1. ServerOK /\ ClientOK /\ BlockInv /\ StreamInv /\ WholeInv
  BY DEF ConnInv, TypeOK, ServerOK, ClientOK
<1>2. (ServerOK /\ ClientOK)'
  BY TypeStep DEF ConnInv, TypeOK, ServerOK, ClientOK
<1>3. Writes(u) \subseteq Slots
  BY WritesOf
<1>4. (\A s \in Writes(u) : pending'[s] = 0) => Whole(u)'
  BY DEF Whole, Writes
<1>5. Whole(u) /\ (\A s \in Writes(u) : pending'[s] = pending[s]) => Whole(u)'
  BY DEF Whole, Writes
<1>6. u \notin Fatal => Whole(u)'
  BY <1>2, SurvivorIsWhole DEF Whole, ServerOK, Writes

<1>7. ASSUME NEW v \in Units, Begin(v) PROVE Whole(u)'
  BY <1>1, <1>5, <1>7 DEF Begin, serverVars, WholeInv
<1>8. CASE Statement
  <2>1. InBody
    BY <1>8, StatementEffect
  <2>2. CASE u # unit
    <3>1. \A s \in Writes(u) : s # <<unit, ip>>
      BY <2>2, WritesOf
    <3>2. \A s \in Writes(u) : pending'[s] = pending[s]
      BY <1>1, <1>3, <1>8, <2>1, <3>1, StatementEffect, ExecuteSlot, CurrentSlot
    <3> QED
      BY <1>1, <1>5, <2>1, <2>2, <3>2 DEF WholeInv, InBody
  <2>3. CASE u = unit
    <3>1. End("error")
      BY <1>8, <2>1, <2>3, StatementEffect
         DEF InBody, Advances, NextOp, Again, RollsBack
    <3> QED
      BY <1>6, <2>3, <3>1 DEF End
  <2> QED
    BY <2>2, <2>3
<1>9. CASE Finish
  <2>1. CASE Apply \/ Discard
    BY <1>1, <1>3, <1>4, <2>1, ApplySlots
  <2>2. CASE UNCHANGED <<pending, content>> /\ u # unit
    BY <1>1, <1>5, <1>9, <2>2, FinishEffect DEF WholeInv, Commit, RollingBack
  <2>3. CASE UNCHANGED <<pending, content>> /\ u = unit
    <3>1. CASE End("error")
      BY <1>6, <2>3, <3>1 DEF End
    <3>2. CASE Again \/ Redoes
      BY <1>1, <1>9, <2>3, <3>2, FinishEffect DEF Again, Redoes, Commit, RollingBack
    <3>3. CASE Apply \/ Discard
      BY <1>1, <1>3, <1>4, <3>3, ApplySlots
    <3> QED
      BY <1>1, <1>9, <3>1, <3>2, <3>3, FinishEffect
  <2> QED
    BY <1>1, <1>9, <2>1, <2>2, <2>3, FinishEffect
<1>10. CASE ForgetStream
  BY <1>1, <1>3, <1>4, <1>10, ApplySlots DEF ForgetStream
<1>11. CASE Crash
  BY <1>11 DEF Crash
<1>12. CASE UNCHANGED vars
  BY <1>1, <1>5, <1>12 DEF vars, serverVars, clientVars, WholeInv
<1> QED
  BY <1>7, <1>8, <1>9, <1>10, <1>11, <1>12 DEF Next

\* No step stores part of a unit.
LEMMA TornStep == ConnInv /\ [Next]_vars => NoTornUnit'
<1> SUFFICES ASSUME ConnInv, [Next]_vars, NEW u \in Units
             PROVE  \/ \A s \in Writes(u) : content'[s] = 0
                    \/ \A s \in Writes(u) : content'[s] > 0
  BY DEF NoTornUnit, Writes
<1>1. ServerOK /\ ClientOK /\ StreamInv /\ NoTornUnit
  BY DEF ConnInv, TypeOK, ServerOK, ClientOK
<1>2. \A s \in Writes(u) : s \in Slots /\ pending[s] \in Nat /\ content[s] \in Nat
  BY <1>1, WritesOf DEF ServerOK
<1>3. CASE UNCHANGED content
  BY <1>1, <1>3 DEF NoTornUnit
<1>4. CASE Commit /\ Apply
  <2>1. Whole(u)
    BY <1>4, AllWholeAtCommit
  <2>2. \A s \in Writes(u) : content'[s] = content[s] + pending[s]
    BY <1>1, <1>2, <1>4, ApplySlots
  <2> QED
    BY <1>1, <1>2, <2>1, <2>2 DEF Whole, NoTornUnit
<1>5. Statement => UNCHANGED content
  BY StatementEffect
<1>6. Finish => UNCHANGED content \/ (Commit /\ Apply)
  BY <1>1, FinishEffect DEF Discard
<1> QED
  BY <1>3, <1>4, <1>5, <1>6
     DEF Next, Begin, ForgetStream, Crash, Discard, vars, serverVars

\* On a lost stream a statement is replayed, if it may be, or passed over if it
\* is a note; otherwise its unit is left.
LEMMA StreamLostOutcome ==
    ASSUME Statement, ~alive, phase' = "body"
    PROVE  /\ UNCHANGED pending
           /\ \/ MayReplay /\ Again
              \/ Op = "note" /\ NextOp
<1>1. StatementStreamLost
  BY DEF Statement, StatementOk, StatementUnreached, StatementAmbiguous, StatementError
<1>2. CASE MayReplay
  BY <1>1, <1>2 DEF StatementStreamLost
<1>3. CASE ~MayReplay
  BY <1>1, <1>3, RaiseOutcome DEF StatementStreamLost, End, RollsBack
<1> QED
  BY <1>2, <1>3

\* A write is passed only when it was executed.
LEMMA PassedWriteRan ==
    ASSUME ClientOK, Statement, NextOp, Op = "write"
    PROVE  alive /\ Execute(<<unit, ip>>)
<1>1. InBody /\ phase' = "body" /\ ip' = ip + 1 /\ ip \in Nat
  BY StatementEffect DEF NextOp, InBody, ClientOK
<1>2. ~Again
  BY <1>1 DEF Again
<1>3. ASSUME NEW e PROVE ~Raise(e)
  BY <1>1, RaiseOutcome DEF End, RollsBack
<1>4. StatementOk
  BY <1>2, <1>3 DEF Statement, StatementUnreached, StatementAmbiguous, StatementStreamLost,
                    StatementError, RetryOr, MayRerun
<1> QED
  BY <1>4 DEF StatementOk

\* A commit or rollback that finds its stream lost is not tried again.
LEMMA FinishWhenLost ==
    ASSUME ClientOK, Finish, ~alive
    PROVE  Redoes \/ End("error")
  BY LeaveOutcome DEF Finish, CommitOk, CommitUnreached, CommitAmbiguous, CommitStreamLost,
        RollbackOk, RollbackFails, RollbackStreamLost

\* The transaction holds the writes passed so far or none, step by step.
LEMMA BodyStep == ConnInv /\ [Next]_vars => BodyInv'
<1> SUFFICES ASSUME ConnInv, [Next]_vars, phase' = "body" PROVE Passed' \/ Lost'
  BY DEF BodyInv
<1>1. ServerOK /\ ClientOK /\ BlockInv /\ StreamInv /\ BodyInv
  BY DEF ConnInv, TypeOK, ServerOK, ClientOK
<1>2. ip' = 1 /\ unit' \in Units => Passed'
  BY UnitFacts DEF Passed
<1>3. ASSUME NEW v \in Units, Begin(v) PROVE Passed' \/ Lost'
  BY <1>2, <1>3 DEF Begin
<1>4. CASE Statement
  <2> DEFINE s == <<unit, ip>>
  <2>1. /\ InBody /\ phase = "body" /\ unit' = unit
        /\ ip \in DOMAIN Ops[unit] /\ ip \in Nat
        /\ unit \in Units /\ s \in Slots /\ Op = Ops[unit][ip]
        /\ Op \in {"read", "write", "note"}
    BY <1>1, <1>4, StatementEffect, CurrentSlot
       DEF InBody, Advances, NextOp, Again, End, RollsBack
  <2>2. NextOp \/ (Again /\ UNCHANGED pending)
    BY <1>4, <2>1, StatementEffect DEF Advances, End, RollsBack
  <2>3. \A i \in DOMAIN Ops[unit] : <<unit, i>> \in Slots
    BY <2>1, OpsAreSlots
  <2>0. \A i \in DOMAIN Ops[unit] : i \in Nat
    BY <2>1, UnitFacts
  <2>4. \A r \in Slots : pending[r] \in Nat
    BY <1>1 DEF ServerOK
  <2>5. Writes(unit) \subseteq Slots
    BY <2>1, WritesOf
  <2>6. CASE Again /\ UNCHANGED pending /\ (alive \/ Passed)
    BY <1>1, <2>1, <2>6 DEF Again, Passed, Lost, BodyInv, Writes
  <2>7. CASE Again /\ UNCHANGED pending /\ ~alive
    <3>1. MayReplay
      BY <1>4, <2>1, <2>7, StreamLostOutcome DEF Again, NextOp
    <3>2. Kind[unit] = "implicit" /\ Ops[unit][ip] = "read"
      BY <1>1, <2>1, <3>1 DEF MayReplay, BlockInv
    <3>3. \A i \in DOMAIN Ops[unit] : i < ip => Ops[unit][i] # "write"
      <4> SUFFICES ASSUME NEW i \in DOMAIN Ops[unit], i < ip, Ops[unit][i] = "write"
                   PROVE  FALSE
        OBVIOUS
      <4>1. ip < i
        BY <2>1, <3>2, ImplicitUnitsReadFirst
      <4> QED
        BY <2>0, <2>1, <4>1
    <3>4. Passed'
      BY <2>1, <2>7, <3>3 DEF Again, Passed
    <3> QED
      BY <3>4
  <2>8. CASE NextOp /\ ~alive
    <3>1. UNCHANGED pending /\ Op = "note"
      BY <1>4, <2>1, <2>8, StreamLostOutcome DEF NextOp, Again
    <3>2. \A r \in Writes(unit) : pending'[r] = 0
      BY <1>1, <2>5, <2>8, <3>1 DEF StreamInv, Nothing
    <3>3. \E i \in DOMAIN Ops[unit] : i < ip' /\ Ops[unit][i] = "note"
      <4>1. ip < ip' /\ Ops[unit][ip] = "note"
        BY <2>1, <2>8, <3>1 DEF NextOp
      <4> QED
        BY <2>1, <4>1
    <3>4. Lost'
      BY <2>1, <3>2, <3>3 DEF Lost, Writes
    <3> QED
      BY <3>4
  <2>9. CASE NextOp /\ alive /\ Passed
    <3>1. ip' = ip + 1
      BY <2>9 DEF NextOp
    <3>2. \A i \in DOMAIN Ops[unit] : i < ip => pending'[<<unit, i>>] = pending[<<unit, i>>]
      BY <1>1, <1>4, <2>1, <2>3, StatementEffect, ExecuteSlot
    <3>3. Op = "write" => pending'[s] > 0
      BY <1>1, <1>4, <2>1, <2>4, <2>9, PassedWriteRan, ExecuteSlot
    <3>4. Passed'
      BY <2>0, <2>1, <2>9, <3>1, <3>2, <3>3 DEF Passed
    <3> QED
      BY <3>4
  <2>10. CASE NextOp /\ alive /\ Lost
    <3>1. PICK k \in DOMAIN Ops[unit] : k < ip /\ Ops[unit][k] = "note"
      BY <2>10 DEF Lost
    <3>2. Op # "write"
      <4> SUFFICES ASSUME Ops[unit][ip] = "write" PROVE FALSE
        BY <2>1
      <4>1. ip < k
        BY <2>1, <3>1, NotesComeLast
      <4> QED
        BY <2>0, <2>1, <3>1, <4>1
    <3>3. s \notin Writes(unit)
      BY <2>1, <3>2, WritesOf
    <3>4. \A r \in Writes(unit) : pending'[r] = pending[r]
      BY <1>1, <1>4, <2>1, <2>5, <3>3, StatementEffect, ExecuteSlot
    <3>5. ip' = ip + 1
      BY <2>10 DEF NextOp
    <3>6. k < ip'
      <4>1. k \in Nat
        BY <2>0, <3>1
      <4> QED
        BY <2>1, <3>1, <3>5, <4>1
    <3>7. Lost'
      BY <2>1, <2>10, <3>1, <3>4, <3>6 DEF Lost, Writes
    <3> QED
      BY <3>7
  <2> QED
    BY <1>1, <2>1, <2>2, <2>6, <2>7, <2>8, <2>9, <2>10 DEF BodyInv
<1>5. CASE Finish
  <2>1. Again \/ Redoes
    BY <1>1, <1>5, FinishEffect DEF End
  <2>2. CASE Redoes
    BY <1>1, <1>2, <2>2 DEF Redoes, ClientOK
  <2>3. CASE Again /\ ~Redoes
    <3>1. alive /\ UNCHANGED pending
      BY <1>1, <1>5, <2>3, FinishEffect, FinishWhenLost DEF Again, End, Commit, RollingBack
    <3>2. Passed \/ Lost
      BY <1>1, <2>3 DEF BodyInv, Again
    <3> QED
      BY <2>3, <3>1, <3>2 DEF Again, Passed, Lost, Writes
  <2> QED
    BY <2>1, <2>2, <2>3
<1>6. CASE ForgetStream
  <2>1. \A r \in Writes(unit) : pending'[r] = 0
    BY <1>1, <1>6, WritesOf DEF ForgetStream, Discard, Nothing, ClientOK
  <2> QED
    BY <1>6, <2>1 DEF ForgetStream, Lost, clientVars, Writes
<1>7. CASE Crash
  BY <1>7 DEF Crash
<1>8. CASE UNCHANGED vars
  BY <1>1, <1>8 DEF vars, serverVars, clientVars, BodyInv, Passed, Lost
<1> QED
  BY <1>3, <1>4, <1>5, <1>6, <1>7, <1>8 DEF Next

-----------------------------------------------------------------------------
(* The invariant and what follows from it alone.                           *)

\* Nothing is stored at the start.
LEMMA InitConn == Init => ConnInv
<1> SUFFICES ASSUME Init PROVE ConnInv
  OBVIOUS
<1>1. \A s \in Slots : pending[s] = 0 /\ content[s] = 0
  BY DEF Init, Nothing
<1>2. TypeOK
  <2>1. 1 \in 1 .. MaxAttempts /\ 1 \in 1 .. MaxRedo
    BY Limits
  <2>2. unit \in Units /\ ip = 1 /\ 1 \in 1 .. Len(Ops[unit]) + 1
    BY UnitFacts DEF Init
  <2>3. pending \in [Slots -> Nat] /\ content \in [Slots -> Nat]
    BY DEF Init, Nothing
  <2> QED
    BY <2>1, <2>2, <2>3 DEF Init, TypeOK
<1>3. BlockInv /\ StreamInv /\ BodyInv
  BY DEF Init, BlockInv, StreamInv, BodyInv
<1>4. UntouchedInv
  BY <1>1, OpsAreSlots DEF UntouchedInv, Untouched
<1>5. OnceInv /\ WholeInv /\ NoTornUnit
  BY <1>1, WritesOf DEF OnceInv, WholeInv, Whole, NoTornUnit
<1> QED
  BY <1>2, <1>3, <1>4, <1>5 DEF ConnInv

\* Every step keeps the invariant.
LEMMA StepConn == ConnInv /\ [Next]_vars => ConnInv'
  BY TypeStep, BlockStep, StreamStep, UntouchedStep, OnceStep, WholeStep, BodyStep, TornStep
     DEF ConnInv

\* The invariant holds of every behaviour.
THEOREM ConnInvariant == Spec => []ConnInv
  BY InitConn, StepConn, PTL DEF Spec

\* Every variable keeps its type; in particular no statement, commit or block is
\* attempted more often than the adapter and _transact allow.
THEOREM ConnTypes == Spec => []TypeOK
<1>1. ConnInv => TypeOK
  BY DEF ConnInv
<1> QED
  BY <1>1, ConnInvariant, PTL

\* No unit of work is ever visible in part, for any units that end in their
\* notes, write once if their failure is survived, and read first outside blocks.
THEOREM UnitsAreWhole == Spec => []NoTornUnit
<1>1. ConnInv => NoTornUnit
  BY DEF ConnInv
<1> QED
  BY <1>1, ConnInvariant, PTL

\* What is not written to be redone is committed at most once.
THEOREM UnitsAreStoredOnce == Spec => []AppendOnce
<1>1. ConnInv => AppendOnce
  <2> SUFFICES ASSUME ConnInv, NEW u \in Units \ Redoable, NEW s \in Writes(u)
               PROVE  content[s] <= 1
    BY DEF AppendOnce
  <2>1. pending[s] \in Nat /\ content[s] \in Nat /\ pending[s] + content[s] <= 1
    BY WritesOf DEF ConnInv, TypeOK, OnceInv
  <2> QED
    BY <2>1
<1> QED
  BY <1>1, ConnInvariant, PTL

\* No failed exit leaves the connection marked as inside a transaction.
THEOREM FlagIsCleared == Spec => []FlagOnlyInsideBlock
<1>1. ConnInv => FlagOnlyInsideBlock
  BY DEF ConnInv, BlockInv, FlagOnlyInsideBlock
<1> QED
  BY <1>1, ConnInvariant, PTL

-----------------------------------------------------------------------------
(* The atomic store.  It takes more than the invariant: a unit that swallows*)
(* a failure may be reported done though nothing of it is there.           *)

\* The units some program calls swallow nothing, and each writes something.
NothingSwallowed ==
    \A u \in UNION Programs :
        /\ Writes(u) # {}
        /\ \A i \in DOMAIN Ops[u] : Ops[u][i] # "note"

\* The unit under way is one that some program calls.
CalledInv == phase # "idle" => unit \in UNION Programs

\* Only a unit that some program calls is under way, step by step.
LEMMA CalledStep == TypeOK /\ CalledInv /\ [Next]_vars => CalledInv'
<1> SUFFICES ASSUME ClientOK, CalledInv, [Next]_vars PROVE CalledInv'
  BY DEF TypeOK, ClientOK
<1>1. ASSUME NEW u \in Units, Begin(u) PROVE CalledInv'
  BY <1>1 DEF Begin, Callable, CalledInv
<1>2. CASE Statement \/ Finish
  BY <1>2, StepControl
     DEF Control, NextOp, Again, End, RollsBack, Redoes, CalledInv
<1>3. CASE ForgetStream \/ Crash \/ UNCHANGED vars
  BY <1>3 DEF ForgetStream, Crash, vars, clientVars, CalledInv
<1> QED
  BY <1>1, <1>2, <1>3 DEF Next

\* The commit that answers "ok" stores all the writes of its unit.
LEMMA CommitStores ==
    ASSUME NothingSwallowed, ConnInv, CalledInv, Commit, alive, Apply, NEW s \in Writes(unit)
    PROVE  content'[s] > 0
<1>1. ServerOK /\ ClientOK /\ BodyInv
  BY DEF ConnInv, TypeOK, ServerOK, ClientOK
<1>2. unit \in UNION Programs
  BY DEF CalledInv, Commit
<1>3. ~Lost
  BY <1>2 DEF Lost, NothingSwallowed
<1>4. Passed
  BY <1>1, <1>3 DEF BodyInv, Commit
<1>5. PICK i \in DOMAIN Ops[unit] : Ops[unit][i] = "write" /\ s = <<unit, i>>
  BY <1>1, WritesOf DEF ClientOK
<1>6. i < ip
  BY <1>1, UnitFacts DEF ClientOK, Commit
<1>7. pending[s] > 0
  BY <1>4, <1>5, <1>6 DEF Passed
<1>8. s \in Slots /\ pending[s] \in Nat /\ content[s] \in Nat
  BY <1>1, WritesOf DEF ServerOK, ClientOK
<1> QED
  BY <1>1, <1>7, <1>8, ApplySlots

\* Whoever is told "ok" finds its writes, as long as nothing is swallowed.
THEOREM OkIsStored ==
    ASSUME NothingSwallowed
    PROVE  Spec => []OkMeansStored
<1>1. Init => CalledInv /\ OkMeansStored
  BY DEF Init, CalledInv, OkMeansStored
<1>2. ConnInv /\ CalledInv /\ OkMeansStored /\ [Next]_vars => OkMeansStored'
  <2> SUFFICES ASSUME ConnInv, CalledInv, OkMeansStored, [Next]_vars,
                      NEW u \in Units, answer'[u] = "ok", NEW s \in Writes(u)
               PROVE  content'[s] > 0
    BY DEF OkMeansStored, Writes
  <2>1. ServerOK /\ ClientOK /\ StreamInv
    BY DEF ConnInv, TypeOK, ServerOK, ClientOK
  <2>2. s \in Slots /\ pending[s] \in Nat /\ content[s] \in Nat
    BY <2>1, WritesOf DEF ServerOK
  <2>3. content'[s] >= content[s]
    BY <2>1, <2>2, StatementEffect, FinishEffect, ApplySlots
       DEF Next, Begin, ForgetStream, Crash, vars, serverVars
  <2>4. CASE answer[u] = "ok"
    BY <2>2, <2>3, <2>4, <2>1, TypeStep DEF OkMeansStored, ServerOK, ConnInv, TypeOK
  <2>5. CASE answer[u] # "ok"
    <3>1. Finish /\ End("ok") /\ u = unit
      BY <2>1, <2>5, StatementEffect, FinishEffect
         DEF Next, Begin, ForgetStream, Crash, vars, clientVars, ClientOK,
             Advances, NextOp, Again, RollsBack, Redoes, End
    <3>2. Commit /\ alive /\ Apply
      BY <2>1, <2>5, <3>1, FinishEffect DEF End, Again, Redoes, ClientOK
    <3> QED
      BY <3>1, <3>2, CommitStores
  <2> QED
    BY <2>4, <2>5
<1> QED
  BY <1>1, <1>2, CalledStep, ConnTypes, ConnInvariant, PTL DEF Spec

\* Seen from the abstract store a unit is there or not, as soon as one of its
\* writes is: it is never torn, and none that is not redone is there twice.
Holds(f, u) == \E s \in Writes(u) : f[s] > 0

\* What is stored of a unit, as the abstract store counts it.
LEMMA StoredAsHolds ==
    TypeOK /\ NoTornUnit /\ AppendOnce
        => \A u \in Units : StoredAs(u) = IF Holds(content, u) THEN 1 ELSE 0
<1> SUFFICES ASSUME TypeOK, NoTornUnit, AppendOnce, NEW u \in Units
             PROVE  StoredAs(u) = IF Holds(content, u) THEN 1 ELSE 0
  OBVIOUS
<1>1. \A s \in Writes(u) : content[s] \in Nat
  BY WritesOf DEF TypeOK
<1>2. CASE Holds(content, u)
  <2>1. \A s \in Writes(u) : content[s] > 0
    BY <1>1, <1>2 DEF NoTornUnit, Holds
  <2>2. ~(\A s \in Writes(u) : content[s] = 0)
    BY <1>2, <2>1 DEF Holds
  <2>3. \A s \in Writes(u) : content[s] = 1 \/ (u \in Redoable /\ content[s] > 0)
    BY <1>1, <2>1 DEF AppendOnce
  <2> QED
    BY <1>2, <2>2, <2>3 DEF StoredAs
<1>3. CASE ~Holds(content, u)
  <2>1. \A s \in Writes(u) : content[s] = 0
    BY <1>1, <1>3 DEF Holds
  <2> QED
    BY <1>3, <2>1 DEF StoredAs
<1> QED
  BY <1>2, <1>3

\* One commit stores the units that the open transaction held.
LEMMA CommitAppliesUnits ==
    ASSUME ConnInv, TypeOK', NoTornUnit', AppendOnce',
           \A u \in Units : StoredAs(u) = IF Holds(content, u) THEN 1 ELSE 0,
           \A u \in Units : StoredAs(u)' = IF Holds(content', u) THEN 1 ELSE 0,
           Commit, Apply
    PROVE  \E S \in SUBSET Units : Store!Apply(S)
<1> DEFINE S == {u \in Units : Holds(pending, u)}
<1>1. ServerOK /\ OnceInv /\ NoTornUnit
  BY DEF ConnInv, TypeOK, ServerOK
<1>2. \A u \in Units : \A s \in Writes(u) :
         /\ s \in Slots /\ pending[s] \in Nat /\ content[s] \in Nat
         /\ content'[s] = content[s] + pending[s]
  BY <1>1, WritesOf, ApplySlots DEF ServerOK
<1>3. ASSUME NEW u \in S \ Redoable PROVE StoredAs(u) = 0
  <2>1. PICK s \in Writes(u) : pending[s] > 0
    BY DEF Holds
  <2>2. content[s] = 0
    BY <1>1, <1>2, <2>1 DEF OnceInv
  <2>3. ~Holds(content, u)
    BY <1>1, <2>2 DEF NoTornUnit, Holds
  <2> QED
    BY <2>3
<1>4. ASSUME NEW u \in Units
      PROVE  StoredAs(u)' = IF u \in S THEN 1 ELSE StoredAs(u)
  <2>1. Holds(content', u) <=> Holds(content, u) \/ Holds(pending, u)
    BY <1>2 DEF Holds
  <2> QED
    BY <2>1
<1>5. Store!Apply(S)
  BY <1>3, <1>4 DEF Store!Apply
<1> QED
  BY <1>5

\* Every step is a step of the abstract store: a commit applies what the
\* transaction held and may answer its unit; a failure answers it; any other
\* step changes nothing.
LEMMA StepRefines ==
    ASSUME NothingSwallowed, ConnInv, CalledInv, TypeOK', NoTornUnit', AppendOnce', [Next]_vars,
           \A u \in Units : StoredAs(u) = IF Holds(content, u) THEN 1 ELSE 0,
           \A u \in Units : StoredAs(u)' = IF Holds(content', u) THEN 1 ELSE 0
    PROVE  [Store!StoreNext]_(Store!storeVars)
<1>1. ServerOK /\ ClientOK /\ BlockInv /\ StreamInv
  BY DEF ConnInv, TypeOK, ServerOK, ClientOK
<1>2. UNCHANGED content => Store!Apply({})
  <2> SUFFICES ASSUME UNCHANGED content PROVE Store!Apply({})
    OBVIOUS
  <2>1. \A u \in Units : StoredAs(u)' = StoredAs(u)
    BY DEF Holds
  <2> QED
    BY <2>1 DEF Store!Apply
<1>3. UNCHANGED content \/ (Commit /\ alive /\ Apply)
  BY <1>1, StatementEffect, FinishEffect
     DEF Next, Begin, ForgetStream, Crash, Discard, vars, serverVars
<1>4. \E S \in SUBSET Units : Store!Apply(S)
  <2>1. CASE UNCHANGED content
    BY <1>2, <2>1
  <2>2. CASE Commit /\ Apply
    BY <2>2, CommitAppliesUnits
  <2> QED
    BY <1>3, <2>1, <2>2
<1>5. ASSUME up, phase # "idle", End("error") PROVE Store!StoreNext
  <2>1. unit \in Units /\ answer[unit] = "none" /\ answer' = [answer EXCEPT ![unit] = "error"]
    BY <1>1, <1>5 DEF End, ClientOK, BlockInv
  <2>2. Store!Reply(unit, "error")
    BY <2>1 DEF Store!Reply
  <2> QED
    BY <1>4, <2>1, <2>2 DEF Store!StoreNext
<1>6. ASSUME Commit, alive, Apply, End("ok") PROVE Store!StoreNext
  <2>1. unit \in Units /\ answer[unit] = "none" /\ answer' = [answer EXCEPT ![unit] = "ok"]
    BY <1>1, <1>6 DEF End, ClientOK, BlockInv, Commit
  <2>2. Writes(unit) # {}
    BY <1>6 DEF NothingSwallowed, CalledInv, Commit
  <2>3. PICK u \in Units : u = unit
    BY <2>1
  <2>4. Holds(content', u)
    BY <1>6, <2>2, <2>3, CommitStores DEF Holds
  <2>5. StoredAs(u)' = 1
    BY <2>4
  <2>6. Store!Reply(u, "ok")
    BY <2>1, <2>3, <2>5 DEF Store!Reply
  <2> QED
    BY <1>4, <2>1, <2>6 DEF Store!StoreNext
<1>7. ASSUME UNCHANGED answer PROVE Store!StoreNext
  BY <1>4, <1>7 DEF Store!StoreNext
<1>8. CASE Statement
  BY <1>5, <1>7, <1>8, StatementEffect
     DEF InBody, Advances, NextOp, Again, RollsBack
<1>9. CASE Finish
  BY <1>1, <1>5, <1>6, <1>7, <1>9, FinishEffect
     DEF Commit, RollingBack, Redoes, Again
<1>10. CASE ~(Statement \/ Finish)
  BY <1>7, <1>10 DEF Next, Begin, ForgetStream, Crash, vars, clientVars
<1> QED
  BY <1>8, <1>9, <1>10

\* The adapter with _transact implements the atomic store that the callers of
\* Database's write methods rely on: whole units, at most once, there when the
\* call returns.
THEOREM AdapterImplementsStore ==
    ASSUME NothingSwallowed
    PROVE  Spec => ImplementsAtomicStore
<1>1. Init => CalledInv
  BY DEF Init, CalledInv
<1>2. Init => Store!StoreInit
  <2> SUFFICES ASSUME Init PROVE Store!StoreInit
    OBVIOUS
  <2>1. \A u \in Units : StoredAs(u) = 0
    BY WritesOf DEF Init, Nothing, StoredAs
  <2> QED
    BY <2>1 DEF Init, Store!StoreInit
<1>3. ConnInv => TypeOK /\ NoTornUnit /\ AppendOnce
  <2> SUFFICES ASSUME ConnInv, NEW u \in Units \ Redoable, NEW s \in Writes(u)
               PROVE  content[s] <= 1
    BY DEF ConnInv, AppendOnce
  <2>1. pending[s] \in Nat /\ content[s] \in Nat /\ pending[s] + content[s] <= 1
    BY WritesOf DEF ConnInv, TypeOK, OnceInv
  <2> QED
    BY <2>1
<1>4. ConnInv /\ ConnInv' /\ CalledInv /\ [Next]_vars => [Store!StoreNext]_(Store!storeVars)
  <2> SUFFICES ASSUME ConnInv, ConnInv', CalledInv, [Next]_vars
               PROVE  [Store!StoreNext]_(Store!storeVars)
    OBVIOUS
  <2>1. TypeOK' /\ NoTornUnit' /\ AppendOnce'
    BY <1>3, PTL
  <2>2. \A u \in Units : StoredAs(u) = IF Holds(content, u) THEN 1 ELSE 0
    BY <1>3, StoredAsHolds
  <2>3. (\A u \in Units : StoredAs(u) = IF Holds(content, u) THEN 1 ELSE 0)'
    BY <2>1, StoredAsHolds, PTL
  <2>4. \A u \in Units : StoredAs(u)' = IF Holds(content', u) THEN 1 ELSE 0
    BY <2>3 DEF Holds, Writes
  <2> QED
    BY <2>1, <2>2, <2>4, StepRefines
<1> QED
  BY <1>1, <1>2, <1>4, CalledStep, ConnTypes, ConnInvariant, PTL DEF Spec, ImplementsAtomicStore, Store!StoreSpec

-----------------------------------------------------------------------------
(* The fetch.                                                              *)

FetchTypeOK ==
    /\ readonly \in BOOLEAN /\ inBlock \in BOOLEAN /\ streamUp \in BOOLEAN
    /\ conn \in Nat /\ cur \in Nat /\ bound \in Nat /\ losses \in Nat /\ faults \in Nat
    /\ pos \in 0 .. NumRows + 1
    /\ runs \in Nat \ {0}
    /\ handed \in Seq(Nat)
    /\ tries \in 1 .. FetchAttempts
    /\ pc \in {"ready", "fetch", "rerun", "rerun_again", "done", "raised"}

\* Where the cursor has a result set, it stands behind the rows handed out, and
\* a caller that asks again has not seen the last one.
CursorInv ==
    /\ pos > 0 => pos = Len(handed) + 1
    /\ pc \in {"ready", "fetch"} => Len(handed) < NumRows

\* Only a SELECT none of whose rows was handed out, with an attempt left, is
\* about to be run again.
RerunInv ==
    pc \in {"rerun", "rerun_again"} =>
        readonly /\ handed = <<>> /\ tries < FetchAttempts

\* Inside a block the first new stream is the end of the call.
FetchBlockInv == inBlock /\ conn # 0 => pc = "raised" /\ pos = 0

FetchInv == /\ FetchTypeOK /\ CursorInv /\ RerunInv /\ FetchBlockInv
            /\ RowsAreAPrefix /\ WriteRunsOnce

-----------------------------------------------------------------------------

\* No row is handed out at the start.
LEMMA FetchInitInv == FetchInit => FetchInv
<1> SUFFICES ASSUME FetchInit PROVE FetchInv
  OBVIOUS
<1>1. FetchTypeOK
  BY FetchAssumption, EmptySeq DEF FetchInit, FetchTypeOK
<1>2. Len(handed) = 0 /\ DOMAIN handed = {}
  BY DEF FetchInit
<1> QED
  BY <1>1, <1>2, FetchAssumption
     DEF FetchInit, FetchInv, CursorInv, RerunInv, FetchBlockInv, RowsAreAPrefix, WriteRunsOnce

\* The rows one fetch adds are the next ones of the result set.
LEMMA FetchedRows ==
    ASSUME FetchTypeOK, NEW n \in pos .. NumRows, pos = Len(handed) + 1, RowsAreAPrefix,
           handed' = handed \o [i \in 1 .. n + 1 - pos |-> pos + i - 1]
    PROVE  /\ handed' \in Seq(Nat) /\ Len(handed') = n
           /\ \A i \in 1 .. n : handed'[i] = i
<1> DEFINE more == [i \in 1 .. n + 1 - pos |-> pos + i - 1]
<1>1. handed \in Seq(Nat) /\ Len(handed) \in Nat /\ pos \in Nat /\ n \in Nat /\ pos <= n
  BY FetchAssumption DEF FetchTypeOK
<1>2. n + 1 - pos \in Nat /\ \A i \in 1 .. n + 1 - pos : pos + i - 1 \in Nat
  BY <1>1
<1>3. more \in Seq(Nat) /\ Len(more) = n + 1 - pos
  BY <1>2
<1>4. /\ handed' \in Seq(Nat) /\ Len(handed') = Len(handed) + Len(more)
      /\ \A i \in 1 .. Len(handed) + Len(more) :
            handed'[i] = IF i <= Len(handed) THEN handed[i] ELSE more[i - Len(handed)]
  BY <1>1, <1>3, ConcatProperties
<1>5. \A i \in 1 .. Len(handed) : handed[i] = i
  BY <1>1 DEF RowsAreAPrefix
<1> HIDE DEF more
<1>6. \A j \in 1 .. n + 1 - pos : more[j] = pos + j - 1
  BY DEF more
<1> QED
  BY <1>1, <1>3, <1>4, <1>5, <1>6

\* Every step keeps the invariant.
LEMMA FetchStepInv == FetchInv /\ [FetchNext]_fetchVars => FetchInv'
<1> SUFFICES ASSUME FetchInv, [FetchNext]_fetchVars PROVE FetchInv'
  OBVIOUS
<1>0. FetchTypeOK /\ NumRows \in Nat /\ NumRows >= 1 /\ FetchAttempts \in Nat
  BY FetchAssumption DEF FetchInv
<1> USE <1>0
    DEF FetchInv, FetchTypeOK, CursorInv, RerunInv, FetchBlockInv, RowsAreAPrefix, WriteRunsOnce
<1>1. CASE DropStream
  <2>1. FetchTypeOK'
    <3> HIDE DEF FetchInv, CursorInv, RerunInv, FetchBlockInv, RowsAreAPrefix, WriteRunsOnce
    <3>1. losses' \in Nat
      BY <1>1 DEF DropStream
    <3>0. streamUp' \in BOOLEAN
      BY <1>1, Zenon DEF DropStream
    <3> QED
      BY <3>0, <3>1, <1>1 DEF DropStream
  <2> USE <1>1 DEF DropStream
  <2>2. CursorInv'
    OBVIOUS
  <2>3. RerunInv' /\ FetchBlockInv' /\ WriteRunsOnce'
    OBVIOUS
  <2>4. RowsAreAPrefix'
    OBVIOUS
  <2> QED
    BY <2>1, <2>2, <2>3, <2>4
<1>2. CASE CallFetch
  BY <1>2 DEF CallFetch
<1>3. CASE FetchOk
  <2>1. PICK n \in {pos, NumRows} :
           /\ handed' = handed \o [i \in 1 .. n + 1 - pos |-> pos + i - 1]
           /\ pos' = n + 1
           /\ pc' = IF n = NumRows THEN "done" ELSE "ready"
    BY <1>3 DEF FetchOk
  <2>2. /\ pc = "fetch" /\ pos > 0 /\ pos = Len(handed) + 1 /\ pos <= NumRows
        /\ UNCHANGED <<readonly, inBlock, conn, cur, bound, streamUp, runs, tries, losses, faults>>
    BY <1>3 DEF FetchOk
  <2>3. n \in pos .. NumRows
    BY <2>2
  <2>4. /\ handed' \in Seq(Nat) /\ Len(handed') = n
        /\ \A i \in 1 .. n : handed'[i] = i
    BY <2>1, <2>2, <2>3, FetchedRows
  <2>5. FetchTypeOK'
    BY <2>1, <2>2, <2>3, <2>4
  <2>6. CursorInv' /\ RerunInv' /\ FetchBlockInv' /\ WriteRunsOnce'
    BY <2>1, <2>2, <2>3, <2>4
  <2>7. RowsAreAPrefix'
    BY <2>3, <2>4
  <2> QED
    BY <2>5, <2>6, <2>7
<1>4. CASE FetchStreamLost
  <2>1. FetchTypeOK'
    <3> HIDE DEF FetchInv, CursorInv, RerunInv, FetchBlockInv, RowsAreAPrefix, WriteRunsOnce
    <3>1. conn' \in Nat /\ cur' \in Nat
      BY <1>4 DEF FetchStreamLost, Reconnect
    <3>0. streamUp' \in BOOLEAN
      BY <1>4, Zenon DEF FetchStreamLost, Reconnect
    <3>2. pos' \in 0 .. NumRows + 1
      BY <1>4 DEF FetchStreamLost, Reconnect
    <3>3. pc' \in {"rerun", "raised"}
      BY <1>4 DEF FetchStreamLost
    <3> QED
      BY <3>0, <3>1, <3>2, <3>3, <1>4 DEF FetchStreamLost
  <2> USE <1>4 DEF FetchStreamLost, Recoverable, Consumed, Reconnect, Replayable
  <2>2. CursorInv'
    OBVIOUS
  <2>3. RerunInv' /\ FetchBlockInv' /\ WriteRunsOnce'
    OBVIOUS
  <2>4. RowsAreAPrefix'
    OBVIOUS
  <2> QED
    BY <2>1, <2>2, <2>3, <2>4
<1>5. CASE FetchFails
  <2>1. FetchTypeOK'
    <3> HIDE DEF FetchInv, CursorInv, RerunInv, FetchBlockInv, RowsAreAPrefix, WriteRunsOnce
    <3> QED
      BY <1>5 DEF FetchFails, Recoverable, Consumed
  <2> USE <1>5 DEF FetchFails, Recoverable, Consumed
  <2>2. CursorInv'
    OBVIOUS
  <2>3. RerunInv' /\ FetchBlockInv' /\ WriteRunsOnce'
    OBVIOUS
  <2>4. RowsAreAPrefix'
    OBVIOUS
  <2> QED
    BY <2>1, <2>2, <2>3, <2>4
<1>6. CASE Rerun
  BY <1>6 DEF Rerun
<1>7. CASE RerunStreamLost
  <2>1. FetchTypeOK'
    <3> HIDE DEF FetchInv, CursorInv, RerunInv, FetchBlockInv, RowsAreAPrefix, WriteRunsOnce
    <3>1. conn' \in Nat /\ cur' \in Nat
      BY <1>7 DEF RerunStreamLost, Reconnect
    <3>0. streamUp' \in BOOLEAN
      BY <1>7, Zenon DEF RerunStreamLost, Reconnect
    <3>2. pos' \in 0 .. NumRows + 1
      BY <1>7 DEF RerunStreamLost, Reconnect
    <3>3. pc' \in {"rerun_again", "raised"}
      BY <1>7 DEF RerunStreamLost
    <3> QED
      BY <3>0, <3>1, <3>2, <3>3, <1>7 DEF RerunStreamLost
  <2> USE <1>7 DEF RerunStreamLost, Reconnect, Replayable
  <2>2. CursorInv'
    OBVIOUS
  <2>3. RerunInv' /\ FetchBlockInv' /\ WriteRunsOnce'
    OBVIOUS
  <2>4. RowsAreAPrefix'
    OBVIOUS
  <2> QED
    BY <2>1, <2>2, <2>3, <2>4
<1>8. CASE RerunFails
  BY <1>8 DEF RerunFails
<1>9. CASE UNCHANGED fetchVars
  BY <1>9 DEF fetchVars
<1> QED
  BY <1>1, <1>2, <1>3, <1>4, <1>5, <1>6, <1>7, <1>8, <1>9 DEF FetchNext

\* The invariant holds of every behaviour.
THEOREM FetchInvariant == FetchSpec => []FetchInv
  BY FetchInitInv, FetchStepInv, PTL DEF FetchSpec

\* The caller of a cursor sees the rows of one result set, in order, none twice
\* and none skipped, whatever was lost and run again in between.
THEOREM RowsComeInOrder == FetchSpec => []RowsAreAPrefix
<1>1. FetchInv => RowsAreAPrefix
  BY DEF FetchInv
<1> QED
  BY <1>1, FetchInvariant, PTL

\* _fetch never runs a statement again that is not a SELECT.
THEOREM WritesAreNotRepeated == FetchSpec => []WriteRunsOnce
<1>1. FetchInv => WriteRunsOnce
  BY DEF FetchInv
<1> QED
  BY <1>1, FetchInvariant, PTL

\* Inside a block no result set ever comes from another stream.
THEOREM BlocksKeepTheirStream == FetchSpec => []BlockStaysOnItsStream
<1>1. FetchInv => BlockStaysOnItsStream
  BY DEF FetchInv, FetchBlockInv, BlockStaysOnItsStream
<1> QED
  BY <1>1, FetchInvariant, PTL

================================================================================
