------------------------------- MODULE DbOwner -------------------------------
(***************************************************************************)
(* backend/deps.py: `ThreadSafeDatabase`.  Request threads marshal every   *)
(* database call onto one owner thread (a one-worker executor).  A call    *)
(* that exceeds its deadline, or fails with a connection error that is     *)
(* known not to have executed, makes its caller swap in a fresh executor;  *)
(* the old one is shut down but still drains its queue.                    *)
(*                                                                         *)
(* `_run` replaces the owner at most once per call, so an executor, its    *)
(* thread and that thread's `threading.local` connection slot are named by *)
(* the call that created them; App names the first one, and is also the    *)
(* actor that runs `close()` when the application's lifespan ends.         *)
(*                                                                         *)
(* Every call stands for one write: a statement, which opens a transaction *)
(* on the owner's connection, then its commit.  A body that ends between   *)
(* the two rolls nothing back (create_shared_build), so that its write     *)
(* stays pending there for the next commit on that connection.  Network    *)
(* hangs are steps of the body that are never taken: it has no fairness of *)
(* its own.  The deadline is the caller's choice to stop waiting for a     *)
(* future that is not resolved, at any moment; fairness of the caller says *)
(* it comes.                                                               *)
(***************************************************************************)
EXTENDS Naturals, Sequences, FiniteSets

CONSTANTS Calls,   \* one element per call of a Database method by the API
          App      \* the application: first executor, and the caller of close()

ASSUME AppIsNoCall == App \notin Calls

Owners   == Calls \cup {App}
Tasks    == (Calls \X {1, 2}) \cup {<<App, 1>>}
Verdicts == {"ok", "error", "transient", "ambiguous"}
Results  == Verdicts \cup {"none", "refused", "timeout", "bare_timeout"}

First(c) == <<c, 1>>
Retry(c) == <<c, 2>>

VARIABLES
    cur,        \* self._executor, under _swap_lock
    shut,       \* executors whose shutdown() was called: submit() now raises
    exited,     \* executors whose thread has drained its queue and ended
    queue,      \* per executor, the tasks submitted and not started
    conn,       \* executors whose thread-local slot holds an open Database
    pending,    \* per executor, the writes its connection has not committed yet
    exec,       \* per task, the executor the caller read to submit it to
    stage,      \* per task, none | queued | running | written | leaving |
                \* done
    verdict,    \* per task, how task() ended
    committed,  \* tasks whose write has been committed
    carried,    \* history: ... by the commit of another task
    pc,         \* per caller, its place in _run() or close()
    old,        \* per call, the executor it swapped out (itself: none)
    result      \* per call, what the request handler got

ownerVars == <<cur, shut, exited>>
storeVars == <<pending, committed, carried>>
taskVars  == <<queue, stage, verdict, conn, storeVars>>
callVars  == <<exec, pc, old, result>>
vars      == <<ownerVars, taskVars, callVars>>

Init ==
    /\ cur = App
    /\ shut = {}
    /\ exited = {}
    /\ queue = [o \in Owners |-> <<>>]
    /\ conn = {}
    /\ pending = [o \in Owners |-> {}]
    /\ exec = [t \in Tasks |-> App]
    /\ stage = [t \in Tasks |-> "none"]
    /\ verdict = [t \in Tasks |-> "ok"]
    /\ committed = {}
    /\ carried = {}
    /\ pc = [c \in Owners |-> "idle"]
    /\ old = [c \in Calls |-> c]
    /\ result = [c \in Calls |-> "none"]

-----------------------------------------------------------------------------
(* The owner threads.                                                      *)

Busy(o) == \E t \in Tasks : exec[t] = o /\ stage[t] \in {"running", "written", "leaving"}

\* The single worker of executor o takes the oldest submitted task.
Start(o) ==
    /\ queue[o] # <<>>
    /\ ~Busy(o)
    /\ stage' = [stage EXCEPT ![Head(queue[o])] = "running"]
    /\ queue' = [queue EXCEPT ![o] = Tail(@)]
    /\ UNCHANGED <<ownerVars, callVars, verdict, conn, storeVars>>

\* _connect_if_needed(): this thread's own slot, nobody else's.
Connect(c, k) ==
    LET t == <<c, k>> IN
    /\ stage[t] = "running"
    /\ exec[t] \notin conn
    /\ conn' = conn \cup {exec[t]}
    /\ UNCHANGED <<ownerVars, callVars, queue, stage, verdict, storeVars>>

\* The statement is executed in the transaction that the connection has open, or
\* begins one.  If the server dropped the stream since the last statement, that
\* transaction is gone: the adapter reconnects and replays this statement.
Write(c, k) ==
    LET t == <<c, k>>
        o == exec[t]
    IN
    /\ stage[t] = "running"
    /\ o \in conn
    /\ stage' = [stage EXCEPT ![t] = "written"]
    /\ \E kept \in {pending[o], {}} : pending' = [pending EXCEPT ![o] = kept \cup {t}]
    /\ UNCHANGED <<ownerVars, callVars, queue, verdict, conn, committed, carried>>

\* The commit stores whatever the connection's transaction holds, what earlier
\* tasks left there included.
Commit(c, k) ==
    LET t == <<c, k>>
        o == exec[t]
    IN
    /\ stage[t] = "written"
    /\ t \in pending[o]
    /\ committed' = committed \cup pending[o]
    /\ carried' = carried \cup (pending[o] \ {t})
    /\ pending' = [pending EXCEPT ![o] = {}]
    /\ UNCHANGED <<ownerVars, callVars, queue, stage, verdict, conn>>

\* What a connection that is closed discards.
Discard(o) == pending' = [pending EXCEPT ![o] = {}]

\* How the body can end: success is a commit that was answered.  Without one it
\* raises, and a write it made may be pending still; an ambiguous failure may
\* also have lost only the acknowledgement.
EndsAs(t) ==
    IF t \in committed THEN {"ok", "ambiguous"}
                       ELSE {"error", "transient", "ambiguous"}

\* Mutant: `is` for `is not` in the finally.
AbandonedInverted(t) == cur = exec[t]

\* The `finally` of _bounded_task, on the executor the task was built for.
Abandoned(t) == cur # exec[t]

\* The body ends, without a rollback; the finally's locked check and, for a
\* replaced owner, closing its connection (the count of such closings is a log
\* line and is left out).  The future is not resolved yet.
Finish(c, k, v) ==
    LET t == <<c, k>> IN
    /\ stage[t] \in {"running", "written"}
    /\ v \in EndsAs(t)
    /\ stage' = [stage EXCEPT ![t] = "leaving"]
    /\ verdict' = [verdict EXCEPT ![t] = v]
    /\ IF Abandoned(t) THEN conn' = conn \ {exec[t]} /\ Discard(exec[t])
                       ELSE UNCHANGED <<conn, pending>>
    /\ UNCHANGED <<ownerVars, callVars, queue, committed, carried>>

\* The executor resolves the future.
Deliver(t) ==
    /\ stage[t] = "leaving"
    /\ stage' = [stage EXCEPT ![t] = "done"]
    /\ UNCHANGED <<ownerVars, callVars, queue, verdict, conn, storeVars>>

\* close()'s task: _close_local_db(), not wrapped by _make_bounded_task.
CloseLocalDb ==
    /\ stage[First(App)] = "running"
    /\ conn' = conn \ {exec[First(App)]}
    /\ Discard(exec[First(App)])
    /\ stage' = [stage EXCEPT ![First(App)] = "leaving"]
    /\ UNCHANGED <<ownerVars, callVars, queue, verdict, committed, carried>>

\* Mutant: an idle thread ends without having been told to.
MayEndIdle(o) == o \notin exited /\ queue[o] = <<>> /\ ~Busy(o)

\* The thread of an executor that was shut down ends once its queue is empty.
MayEnd(o) == o \in shut \ exited /\ queue[o] = <<>> /\ ~Busy(o)

\* It ends, and its threading.local slot goes with it.
Exit(o) ==
    /\ MayEnd(o)
    /\ exited' = exited \cup {o}
    /\ conn' = conn \ {o}
    /\ Discard(o)
    /\ UNCHANGED <<cur, shut, callVars, queue, stage, verdict, committed, carried>>

-----------------------------------------------------------------------------
(* The request threads: _run().                                            *)

\* `with self._swap_lock: executor = self._executor`.
ReadExecutor(c) ==
    /\ pc[c] = "idle"
    /\ pc[App] = "idle"
    /\ exec' = [exec EXCEPT ![First(c)] = cur]
    /\ pc' = [pc EXCEPT ![c] = "submit"]
    /\ UNCHANGED <<ownerVars, taskVars, old, result>>

Enqueue(t) ==
    /\ exec[t] \notin shut
    /\ queue' = [queue EXCEPT ![exec[t]] = Append(@, t)]
    /\ stage' = [stage EXCEPT ![t] = "queued"]

Return(c, r) ==
    /\ pc' = [pc EXCEPT ![c] = "done"]
    /\ result' = [result EXCEPT ![c] = r]

Submit(c) ==
    /\ pc[c] = "submit"
    /\ Enqueue(First(c))
    /\ pc' = [pc EXCEPT ![c] = "wait"]
    /\ UNCHANGED <<ownerVars, exec, old, result, verdict, conn, storeVars>>

Resubmit(c) ==
    /\ pc[c] = "resubmit"
    /\ Enqueue(Retry(c))
    /\ pc' = [pc EXCEPT ![c] = "rewait"]
    /\ UNCHANGED <<ownerVars, exec, old, result, verdict, conn, storeVars>>

\* submit() on an executor shut down since it was read: RuntimeError, and no
\* handler for it in _run().
Refused(c) ==
    /\ \/ pc[c] = "submit" /\ exec[First(c)] \in shut
       \/ pc[c] = "resubmit" /\ exec[Retry(c)] \in shut
    /\ Return(c, "refused")
    /\ UNCHANGED <<ownerVars, taskVars, exec, old>>

\* Mutant: the read-only tier of markers counts as "never executed" too.
IsTransientOrAmbiguous(v) == v \in {"transient", "ambiguous"}

\* _is_transient_error(): only the markers that mean "never executed".
IsTransient(v) == v = "transient"

\* future.result() of the first attempt returns or re-raises.
Answer(c) ==
    /\ pc[c] = "wait"
    /\ stage[First(c)] = "done"
    /\ IF IsTransient(verdict[First(c)])
       THEN pc' = [pc EXCEPT ![c] = "rebuild"] /\ UNCHANGED result
       ELSE Return(c, verdict[First(c)])
    /\ UNCHANGED <<ownerVars, taskVars, exec, old>>

\* Mutant: a timed-out call is retried like a transient failure.
TimeOutRetries(c) ==
    /\ pc[c] = "wait"
    /\ stage[First(c)] # "done"
    /\ pc' = [pc EXCEPT ![c] = "rebuild"]
    /\ UNCHANGED <<ownerVars, taskVars, exec, old, result>>

\* Mutant: a timed-out call returns and leaves its owner in place.
TimeOutKeepsOwner(c) ==
    /\ pc[c] = "wait"
    /\ stage[First(c)] # "done"
    /\ Return(c, "timeout")
    /\ UNCHANGED <<ownerVars, taskVars, exec, old>>

\* future.result() of the first attempt times out.
TimeOut(c) ==
    /\ pc[c] = "wait"
    /\ stage[First(c)] # "done"
    /\ pc' = [pc EXCEPT ![c] = "abandon"]
    /\ UNCHANGED <<ownerVars, taskVars, exec, old, result>>

\* _replace_owner(), under the lock: whatever is current is swapped out.
Swap(c) ==
    /\ \/ pc[c] = "abandon" /\ pc' = [pc EXCEPT ![c] = "abandon_shutdown"]
       \/ pc[c] = "rebuild" /\ pc' = [pc EXCEPT ![c] = "rebuild_shutdown"]
    /\ old' = [old EXCEPT ![c] = cur]
    /\ cur' = c
    /\ UNCHANGED <<shut, exited, taskVars, exec, result>>

\* Mutant: self._executor is read again for the shutdown.
ShutdownCurrent(c) ==
    /\ pc[c] = "abandon_shutdown"
    /\ shut' = shut \cup {cur}
    /\ Return(c, "timeout")
    /\ UNCHANGED <<cur, exited, taskVars, exec, old>>

\* Mutant: the abandoned executor is never shut down.
ShutdownForgotten(c) ==
    /\ pc[c] = "abandon_shutdown"
    /\ Return(c, "timeout")
    /\ UNCHANGED <<ownerVars, taskVars, exec, old>>

\* old_executor.shutdown(wait=False), then DatabaseTimeoutError.
ShutdownAbandoned(c) ==
    /\ pc[c] = "abandon_shutdown"
    /\ shut' = shut \cup {old[c]}
    /\ Return(c, "timeout")
    /\ UNCHANGED <<cur, exited, taskVars, exec, old>>

\* Mutant: the old thread is joined without being told to end.
JoinOnly(c) ==
    /\ pc[c] = "rebuild_shutdown"
    /\ pc' = [pc EXCEPT ![c] = "join"]
    /\ UNCHANGED <<ownerVars, taskVars, exec, old, result>>

\* old_executor.shutdown(wait=True): the caller now joins the old thread.
ShutdownAndJoin(c) ==
    /\ pc[c] = "rebuild_shutdown"
    /\ shut' = shut \cup {old[c]}
    /\ pc' = [pc EXCEPT ![c] = "join"]
    /\ UNCHANGED <<cur, exited, taskVars, exec, old, result>>

\* The old thread has ended: retry if the one deadline leaves time.
Rebuilt(c) ==
    /\ pc[c] = "join"
    /\ old[c] \in exited
    /\ \/ Return(c, "timeout") /\ UNCHANGED exec
       \/ /\ exec' = [exec EXCEPT ![Retry(c)] = cur]
          /\ pc' = [pc EXCEPT ![c] = "resubmit"]
          /\ UNCHANGED result
    /\ UNCHANGED <<ownerVars, taskVars, old>>

\* The retry's result() returns or raises; nothing is caught any more.
RetryAnswer(c) ==
    /\ pc[c] = "rewait"
    /\ stage[Retry(c)] = "done"
    /\ Return(c, verdict[Retry(c)])
    /\ UNCHANGED <<ownerVars, taskVars, exec, old>>

\* The retry's result(timeout=remaining) times out, outside the handlers.
RetryTimeOut(c) ==
    /\ pc[c] = "rewait"
    /\ stage[Retry(c)] # "done"
    /\ Return(c, "bare_timeout")
    /\ UNCHANGED <<ownerVars, taskVars, exec, old>>

-----------------------------------------------------------------------------
(* close(), from lifespan() once the server has finished its requests.     *)

Close ==
    /\ pc[App] = "idle"
    /\ \A c \in Calls : pc[c] \in {"idle", "done"}
    /\ cur \notin shut
    /\ exec' = [exec EXCEPT ![First(App)] = cur]
    /\ queue' = [queue EXCEPT ![cur] = Append(@, First(App))]
    /\ stage' = [stage EXCEPT ![First(App)] = "queued"]
    /\ pc' = [pc EXCEPT ![App] = "wait"]
    /\ UNCHANGED <<ownerVars, old, result, verdict, conn, storeVars>>

\* The close task answered or its wait timed out; both lead to shutdown().
CloseShutdown ==
    /\ pc[App] = "wait"
    /\ shut' = shut \cup {exec[First(App)]}
    /\ pc' = [pc EXCEPT ![App] = "done"]
    /\ UNCHANGED <<cur, exited, taskVars, exec, old, result>>

Terminated ==
    /\ pc[App] = "done"
    /\ UNCHANGED vars

-----------------------------------------------------------------------------

Body(c, k) == \/ Connect(c, k) \/ Write(c, k) \/ Commit(c, k)
              \/ \E v \in Verdicts : Finish(c, k, v)

Thread(o) == Start(o) \/ Exit(o)

Caller(c) ==
    \/ Submit(c) \/ Resubmit(c) \/ Refused(c) \/ Answer(c) \/ TimeOut(c)
    \/ Swap(c) \/ ShutdownAbandoned(c) \/ ShutdownAndJoin(c) \/ Rebuilt(c)
    \/ RetryAnswer(c) \/ RetryTimeOut(c)

Next ==
    \/ \E o \in Owners : Thread(o)
    \/ \E t \in Tasks : Deliver(t)
    \/ \E c \in Calls, k \in {1, 2} : Body(c, k)
    \/ \E c \in Calls : ReadExecutor(c) \/ Caller(c)
    \/ CloseLocalDb \/ Close \/ CloseShutdown
    \/ Terminated

Spec == Init /\ [][Next]_vars

\* Threads are scheduled and time passes; a task body may hang for ever.
Scheduling ==
    /\ \A o \in Owners : WF_vars(Thread(o))
    /\ \A t \in Tasks : WF_vars(Deliver(t))
    /\ \A c \in Calls : WF_vars(Caller(c))

LiveSpec == Spec /\ Scheduling

\* Every statement sent to the database is answered.
NetworkAnswers == \A c \in Calls, k \in {1, 2} : WF_vars(Body(c, k))

-----------------------------------------------------------------------------
(* Properties.                                                             *)

Stages == {"none", "queued", "running", "written", "leaving", "done"}

Places == {"idle", "submit", "wait", "abandon", "abandon_shutdown", "rebuild",
           "rebuild_shutdown", "join", "resubmit", "rewait", "done"}

\* Every variable stays in its type: the executors, futures and callers of
\* ThreadSafeDatabase have no other states.
TypeOK ==
    /\ cur \in Owners
    /\ shut \subseteq Owners
    /\ exited \subseteq shut
    /\ queue \in [Owners -> Seq(Tasks)]
    /\ conn \subseteq Owners
    /\ pending \in [Owners -> SUBSET Tasks]
    /\ exec \in [Tasks -> Owners]
    /\ stage \in [Tasks -> Stages]
    /\ verdict \in [Tasks -> Verdicts]
    /\ committed \subseteq Tasks
    /\ carried \subseteq Tasks
    /\ pc \in [Owners -> Places]
    /\ old \in [Calls -> Owners]
    /\ result \in [Calls -> Results]

\* A call's write is stored at most once, although _run may submit the same
\* closure to two owner threads: "a whole-call replay cannot double-apply" what
\* failed before it reached the server.  (Violated: dbowner_double.  A commit that
\* fails so leaves the write pending, and another call's commit may store it
\* before the replay or during the join of the old thread.)
AtMostOnce == \A c \in Calls : ~({First(c), Retry(c)} \subseteq committed)

\* That is the only way: _run itself never commits a call's write a second time,
\* whatever times out, is swapped out or answers late.  Where a write was stored
\* twice, the first attempt was committed by another call's task.
DoubledOnlyByOthers ==
    \A c \in Calls : {First(c), Retry(c)} \subseteq committed => First(c) \in carried

\* What the handler is told binds the call's own tasks for good.  Success means
\* that the write is stored; after a refusal or an ordinary error none of them has
\* committed it or is left, on any owner, abandoned or current, to do so.  What an
\* errored one left pending only another call's commit can store.
AnswerBindsOwnTasks ==
    \A c \in Calls :
        /\ result[c] = "ok" => committed \cap {First(c), Retry(c)} # {}
        /\ result[c] \in {"refused", "error", "transient"} =>
             /\ committed \cap {First(c), Retry(c)} \subseteq carried
             /\ \A k \in {1, 2} : stage[<<c, k>>] \notin {"queued", "running", "written"}

\* Until close(), the executor that new calls will read still accepts work,
\* whatever swaps and shutdowns the callers interleave.
CurrentOwnerAccepts == pc[App] # "done" => cur \notin shut

\* Only an owner that was replaced, or is being closed, loses the connection
\* in its slot: the `finally` of a task must not close the connection of the
\* thread that is serving the API.
LiveOwnerKeepsItsConnection ==
    [][\A o \in conn \ conn' : cur = o => pc[App] # "idle"]_vars

\* A first attempt that is neither answered nor given up leads to one of the
\* two: one wedged call cannot keep its owner in place for ever.
WedgeIsSidestepped ==
    \A c \in Calls :
        pc[c] = "wait" ~> (stage[First(c)] = "done" \/ cur # exec[First(c)])

\* Every call a request thread starts comes back to it: the wedge-breaker's
\* "only job is to guarantee a marshaled call eventually gives up".
EveryCallReturns == \A c \in Calls : pc[c] # "idle" ~> pc[c] = "done"

\* If the database answers, every call returns: neither the join of the old
\* thread nor a retry queued behind other calls can hold its caller for ever.
AnsweredCallsReturn == NetworkAnswers => EveryCallReturns

\* If the database answers, a replaced owner gives up its connection in the
\* end: "accounted-for, bounded leak instead of a silent one".
AbandonedConnectionIsReleased ==
    NetworkAnswers => \A o \in Owners : (cur # o /\ o \in conn) ~> o \notin conn

\* A call that exceeds _CALL_TIMEOUT surfaces as DatabaseTimeoutError, which
\* main.py maps to a 503, and never as a bare TimeoutError.  (Violated: README.)
DeadlineMissIs503 == \A c \in Calls : result[c] # "bare_timeout"

=============================================================================
