---------------------------- MODULE DbOwnerProofs ----------------------------
(***************************************************************************)
(* Theorems about DbOwner, for any set of calls.                           *)
(***************************************************************************)
EXTENDS DbOwner, TLAPS

-----------------------------------------------------------------------------
(* The invariant, in the parts that disturb each other.                    *)

\* A queue holds each submitted task once, on the executor it was submitted
\* to; the owner thread starts what it finds there.
QueueInv ==
    \A o \in Owners : \A i \in 1 .. Len(queue[o]) :
        /\ stage[queue[o][i]] = "queued"
        /\ exec[queue[o][i]] = o
        /\ \A j \in 1 .. Len(queue[o]) : queue[o][i] = queue[o][j] => i = j

\* How far a caller has got bounds what its tasks can be doing: the retry
\* exists only after the first attempt ended with a transient verdict.
CallerOK(c) ==
    /\ pc[c] \in {"idle", "submit"} => stage[First(c)] = "none"
    /\ pc[c] \in {"idle", "submit", "wait", "abandon", "abandon_shutdown",
                  "rebuild", "rebuild_shutdown", "join", "resubmit"}
         => stage[Retry(c)] = "none"
    /\ (stage[Retry(c)] # "none" \/ pc[c] \in {"rebuild", "rebuild_shutdown", "join",
                                               "resubmit", "rewait"})
         => stage[First(c)] = "done" /\ verdict[First(c)] = "transient"

CallerInv ==
    /\ pc[App] = "idle" => stage[First(App)] = "none"
    /\ \A c \in Calls : CallerOK(c)

\* What is stored or still pending was executed; a verdict that says so is true of
\* the write, unless another task's commit stored it.
CommitInv ==
    /\ \A o \in Owners : \A t \in pending[o] :
          t # First(App) /\ stage[t] \in {"written", "leaving", "done"}
    /\ \A t \in Tasks \ {First(App)} :
          /\ t \in committed => stage[t] \in {"written", "leaving", "done"}
          /\ stage[t] \in {"leaving", "done"} =>
               /\ verdict[t] \in {"error", "transient"} /\ t \in committed => t \in carried
               /\ verdict[t] = "ok" => t \in committed

\* A call that has not swapped has created no executor.
Fresh(c) == pc[c] \in {"idle", "submit", "wait", "abandon", "rebuild"}

OwnerOK(c) ==
    /\ Fresh(c) =>
         /\ cur # c /\ c \notin shut
         /\ \A t \in Tasks : exec[t] # c
         /\ \A d \in Calls \ {c} : old[d] # c
    /\ pc[c] \in {"abandon_shutdown", "rebuild_shutdown"} => old[c] # cur

OwnerInv ==
    /\ pc[App] # "done" => cur \notin shut
    /\ \A c \in Calls : OwnerOK(c)

\* AnswerBindsOwnTasks for one call, and the caller that has an answer has returned.
AnswerOK(c) ==
    /\ result[c] = "ok" => First(c) \in committed \/ Retry(c) \in committed
    /\ result[c] \in {"refused", "error", "transient"} =>
         /\ First(c) \in committed => First(c) \in carried
         /\ Retry(c) \in committed => Retry(c) \in carried
         /\ stage[First(c)] \notin {"queued", "running", "written"}
         /\ stage[Retry(c)] \notin {"queued", "running", "written"}
    /\ result[c] # "none" => pc[c] = "done"

AnswerInv == \A c \in Calls : AnswerOK(c)

-----------------------------------------------------------------------------
(* Types.                                                                  *)

\* The two tasks of a call are tasks, and differ from all others.
LEMMA TaskNames ==
    /\ App \in Owners /\ Calls \subseteq Owners
    /\ First(App) \in Tasks
    /\ \A c \in Calls : First(c) \in Tasks /\ Retry(c) \in Tasks
    /\ \A c \in Calls, k \in {1, 2} : <<c, k>> \in Tasks
    /\ \A c \in Calls : First(c) # Retry(c) /\ First(c) # First(App) /\ Retry(c) # First(App)
    /\ \A c, d \in Calls : c # d => First(c) # First(d) /\ Retry(c) # Retry(d)
    /\ \A c, d \in Calls : First(c) # Retry(d)
BY AppIsNoCall DEF Owners, Tasks, First, Retry

\* The executors, futures and callers have no states beyond the listed ones.
THEOREM TypeCorrect == Spec => []TypeOK
<1>1. Init => TypeOK
  BY TaskNames DEF Init, TypeOK, Owners, Tasks, Stages, Verdicts, Places, Results
<1>2. TypeOK /\ [Next]_vars => TypeOK'
  <2> SUFFICES ASSUME TypeOK, [Next]_vars PROVE TypeOK'
    OBVIOUS
  <2> USE TaskNames DEF TypeOK
  <2>1. ASSUME NEW o \in Owners, Start(o) PROVE TypeOK'
    BY <2>1 DEF Start, ownerVars, taskVars, storeVars, callVars, Stages, Places, Results,
       Verdicts
  <2>2. ASSUME NEW o \in Owners, Exit(o) PROVE TypeOK'
    BY <2>2 DEF Exit, Discard, MayEnd, ownerVars, taskVars, storeVars, callVars, Stages,
       Places, Results, Verdicts
  <2>3. ASSUME NEW t \in Tasks, Deliver(t) PROVE TypeOK'
    BY <2>3 DEF Deliver, ownerVars, taskVars, storeVars, callVars, Stages, Places, Results,
       Verdicts
  <2>4. ASSUME NEW c \in Calls, NEW k \in {1, 2}, Connect(c, k) PROVE TypeOK'
    BY <2>4 DEF Connect, ownerVars, taskVars, storeVars, callVars, Stages, Places, Results,
       Verdicts
  <2>5. ASSUME NEW c \in Calls, NEW k \in {1, 2}, Write(c, k) PROVE TypeOK'
    <3>1. <<c, k>> \in Tasks /\ exec[<<c, k>>] \in Owners
      OBVIOUS
    <3>2. PICK kept \in {pending[exec[<<c, k>>]], {}} :
             pending' = [pending EXCEPT ![exec[<<c, k>>]] = kept \cup {<<c, k>>}]
      BY <2>5 DEF Write
    <3>3. kept \cup {<<c, k>>} \in SUBSET Tasks
      BY <3>1
    <3>4. pending' \in [Owners -> SUBSET Tasks]
      BY <3>1, <3>2, <3>3
    <3> QED
      BY <2>5, <3>1, <3>4 DEF Write, ownerVars, callVars, Stages
  <2>6. ASSUME NEW c \in Calls, NEW k \in {1, 2}, Commit(c, k) PROVE TypeOK'
    <3>1. /\ exec[<<c, k>>] \in Owners /\ pending[exec[<<c, k>>]] \subseteq Tasks
          /\ committed' = committed \cup pending[exec[<<c, k>>]]
          /\ carried' = carried \cup (pending[exec[<<c, k>>]] \ {<<c, k>>})
          /\ pending' = [pending EXCEPT ![exec[<<c, k>>]] = {}]
      BY <2>6 DEF Commit
    <3>2. committed' \subseteq Tasks /\ carried' \subseteq Tasks
          /\ pending' \in [Owners -> SUBSET Tasks]
      BY <3>1
    <3> QED
      BY <2>6, <3>2 DEF Commit, ownerVars, callVars
  <2>7. ASSUME NEW c \in Calls, NEW k \in {1, 2}, NEW v \in Verdicts, Finish(c, k,
  v) PROVE TypeOK'
    BY <2>7 DEF Finish, Discard, ownerVars, taskVars, storeVars, callVars, Stages, Places,
       Results, Verdicts
  <2>8. ASSUME NEW c \in Calls, ReadExecutor(c) PROVE TypeOK'
    BY <2>8 DEF ReadExecutor, ownerVars, taskVars, storeVars, callVars, Stages, Places,
       Results, Verdicts
  <2>9. ASSUME NEW c \in Calls, Submit(c) PROVE TypeOK'
    BY <2>9 DEF Submit, Enqueue, ownerVars, taskVars, storeVars, callVars, Stages, Places,
       Results,
       Verdicts
  <2>10. ASSUME NEW c \in Calls, Resubmit(c) PROVE TypeOK'
    BY <2>10
       DEF Resubmit, Enqueue, ownerVars, taskVars, storeVars, callVars, Stages, Places,
         Results, Verdicts
  <2>11. ASSUME NEW c \in Calls, Refused(c) PROVE TypeOK'
    BY <2>11 DEF Refused, Return, ownerVars, taskVars, storeVars, callVars, Stages, Places,
       Results,
       Verdicts
  <2>12. ASSUME NEW c \in Calls, Answer(c) PROVE TypeOK'
    BY <2>12 DEF Answer, Return, ownerVars, taskVars, storeVars, callVars, Stages, Places,
       Results,
       Verdicts
  <2>13. ASSUME NEW c \in Calls, TimeOut(c) PROVE TypeOK'
    BY <2>13 DEF TimeOut, ownerVars, taskVars, storeVars, callVars, Stages, Places, Results,
       Verdicts
  <2>14. ASSUME NEW c \in Calls, Swap(c) PROVE TypeOK'
    BY <2>14 DEF Swap, ownerVars, taskVars, storeVars, callVars, Stages, Places, Results,
       Verdicts
  <2>15. ASSUME NEW c \in Calls, ShutdownAbandoned(c) PROVE TypeOK'
    BY <2>15
       DEF ShutdownAbandoned, Return, ownerVars, taskVars, storeVars, callVars, Stages,
         Places, Results, Verdicts
  <2>16. ASSUME NEW c \in Calls, ShutdownAndJoin(c) PROVE TypeOK'
    BY <2>16 DEF ShutdownAndJoin, ownerVars, taskVars, storeVars, callVars, Stages, Places,
       Results,
       Verdicts
  <2>17. ASSUME NEW c \in Calls, Rebuilt(c) PROVE TypeOK'
    <3>1. CASE Return(c, "timeout") /\ UNCHANGED exec
      BY <2>17, <3>1 DEF Rebuilt, Return, ownerVars, taskVars, storeVars, Places, Results
    <3>2. CASE exec' = [exec EXCEPT ![Retry(c)] = cur] /\ pc' = [pc EXCEPT ![c] = "resubmit"]
               /\ UNCHANGED result
      BY <2>17, <3>2 DEF Rebuilt, ownerVars, taskVars, storeVars, Places
    <3> QED
      BY <2>17, <3>1, <3>2 DEF Rebuilt
  <2>18. ASSUME NEW c \in Calls, RetryAnswer(c) PROVE TypeOK'
    BY <2>18 DEF RetryAnswer, Return, ownerVars, taskVars, storeVars, callVars, Stages,
       Places, Results,
       Verdicts
  <2>19. ASSUME NEW c \in Calls, RetryTimeOut(c) PROVE TypeOK'
    BY <2>19 DEF RetryTimeOut, Return, ownerVars, taskVars, storeVars, callVars, Stages,
       Places,
       Results, Verdicts
  <2>20. ASSUME CloseLocalDb PROVE TypeOK'
    BY <2>20 DEF CloseLocalDb, Discard, ownerVars, taskVars, storeVars, callVars, Stages,
       Places, Results, Verdicts
  <2>21. ASSUME Close PROVE TypeOK'
    BY <2>21 DEF Close, ownerVars, taskVars, storeVars, callVars, Stages, Places, Results,
       Verdicts
  <2>22. ASSUME CloseShutdown PROVE TypeOK'
    BY <2>22 DEF CloseShutdown, ownerVars, taskVars, storeVars, callVars, Stages, Places,
       Results, Verdicts
  <2>23. ASSUME Terminated PROVE TypeOK'
    BY <2>23 DEF Terminated, vars, ownerVars, taskVars, storeVars, callVars
  <2>24. CASE UNCHANGED vars
    BY <2>24 DEF vars, ownerVars, taskVars, storeVars, callVars
  <2> QED
    BY Zenon, <2>1, <2>2, <2>3, <2>4, <2>5, <2>6, <2>7, <2>8, <2>9, <2>10, <2>11, <2>12,
       <2>13, <2>14, <2>15, <2>16, <2>17, <2>18, <2>19, <2>20, <2>21, <2>22, <2>23, <2>24
       DEF Next, Thread, Body, Caller
<1> QED
  BY <1>1, <1>2, PTL DEF Spec

-----------------------------------------------------------------------------
(* Each part of the invariant is preserved.                                *)

\* The task an owner thread takes next is a submitted one.
LEMMA HeadOfQueue ==
    ASSUME TypeOK, QueueInv, NEW o \in Owners, queue[o] # <<>>
    PROVE  Head(queue[o]) \in Tasks /\ stage[Head(queue[o])] = "queued"
<1>1. queue[o] \in Seq(Tasks)
  BY DEF TypeOK
<1>2. Head(queue[o]) = queue[o][1] /\ 1 \in 1 .. Len(queue[o])
  BY <1>1
<1>3. stage[queue[o][1]] = "queued"
  BY <1>2 DEF QueueInv
<1> QED
  BY <1>1, <1>2, <1>3

\* Every step that submits nothing and starts nothing.
LEMMA QueueKept ==
    ASSUME TypeOK, QueueInv, queue' = queue,
           \A t \in Tasks : stage[t] = "queued" => stage'[t] = "queued" /\ exec'[t] = exec[t]
    PROVE  QueueInv'
<1>1. \A o \in Owners : \A i \in 1 .. Len(queue[o]) : queue[o][i] \in Tasks
  BY DEF TypeOK
<1> QED
  BY <1>1 DEF QueueInv

\* Every step that submits a task.
LEMMA QueueAppend ==
    ASSUME TypeOK, QueueInv, NEW t \in Tasks, NEW o \in Owners, stage[t] = "none",
           queue' = [queue EXCEPT ![o] = Append(@, t)],
           stage' = [stage EXCEPT ![t] = "queued"],
           exec'[t] = o, \A u \in Tasks \ {t} : exec'[u] = exec[u]
    PROVE  QueueInv'
<1>1. \A p \in Owners : \A i \in 1 .. Len(queue[p]) : queue[p][i] \in Tasks \ {t}
  <2>1. \A p \in Owners : \A i \in 1 .. Len(queue[p]) : queue[p][i] \in Tasks
    BY DEF TypeOK
  <2> QED
    BY <2>1 DEF QueueInv
<1>2. ASSUME NEW p \in Owners, NEW i \in 1 .. Len(queue'[p])
      PROVE  /\ stage'[queue'[p][i]] = "queued"
             /\ exec'[queue'[p][i]] = p
             /\ \A j \in 1 .. Len(queue'[p]) : queue'[p][i] = queue'[p][j] => i = j
  <2>1. CASE p # o
    BY <1>1, <2>1 DEF TypeOK, QueueInv
  <2>2. CASE p = o
    <3>1. queue'[p] = Append(queue[p], t) /\ Len(queue'[p]) = Len(queue[p]) + 1
      BY <2>2 DEF TypeOK
    <3>2. \A j \in 1 .. Len(queue[p]) : queue'[p][j] = queue[p][j] /\ queue[p][j] # t
      BY <1>1, <3>1 DEF TypeOK
    <3>3. queue'[p][Len(queue[p]) + 1] = t
      BY <3>1 DEF TypeOK
    <3>4. \A j \in 1 .. Len(queue'[p]) : j \in 1 .. Len(queue[p]) \/ j = Len(queue[p]) + 1
      BY <3>1 DEF TypeOK
    <3> QED
      BY <1>1, <2>2, <3>1, <3>2, <3>3, <3>4 DEF TypeOK, QueueInv
  <2> QED
    BY <2>1, <2>2
<1> QED
  BY <1>2 DEF QueueInv

\* No step submits a task twice or leaves a started one in a queue.
LEMMA QueueStep ==
    ASSUME TypeOK, QueueInv, CallerInv, [Next]_vars
    PROVE  QueueInv'
<1>1. ASSUME NEW o \in Owners, Start(o) PROVE QueueInv'
  <2>1. \A p \in Owners : \A i \in 1 .. Len(queue[p]) : queue[p][i] \in Tasks
    BY DEF TypeOK
  <2>2. ASSUME NEW p \in Owners, NEW i \in 1 .. Len(queue'[p])
        PROVE  /\ stage'[queue'[p][i]] = "queued"
               /\ exec'[queue'[p][i]] = p
               /\ \A j \in 1 .. Len(queue'[p]) : queue'[p][i] = queue'[p][j] => i = j
    <3>1. queue[o] # <<>> /\ exec' = exec /\ queue' = [queue EXCEPT ![o] = Tail(@)]
          /\ stage' = [stage EXCEPT ![Head(queue[o])] = "running"]
      BY <1>1 DEF Start, callVars
    <3>2. CASE p # o
      <4>1. queue'[p] = queue[p] /\ \A j \in 1 .. Len(queue[p]) : queue[p][j] # Head(queue[o])
        BY <3>1, <3>2 DEF TypeOK, QueueInv
      <4> QED
        BY <2>1, <3>1, <4>1 DEF TypeOK, QueueInv
    <3>3. CASE p = o
      <4>1. queue'[p] = Tail(queue[p]) /\ Len(queue'[p]) = Len(queue[p]) - 1
            /\ \A j \in 1 .. Len(queue'[p]) : queue'[p][j] = queue[p][j + 1]
                                               /\ j + 1 \in 1 .. Len(queue[p])
        BY <3>1, <3>3 DEF TypeOK
      <4>2. \A j \in 1 .. Len(queue'[p]) : queue[p][j + 1] # Head(queue[p])
        <5>1. Head(queue[p]) = queue[p][1] /\ 1 \in 1 .. Len(queue[p])
          BY <3>1, <3>3 DEF TypeOK
        <5> QED
          BY <4>1, <5>1 DEF QueueInv
      <4>3. \A j \in 1 .. Len(queue'[p]) :
               stage'[queue'[p][j]] = "queued" /\ exec'[queue'[p][j]] = p
        <5>1. ASSUME NEW j \in 1 .. Len(queue'[p])
              PROVE  /\ queue'[p][j] \in Tasks /\ queue'[p][j] # Head(queue[o])
                     /\ stage[queue'[p][j]] = "queued" /\ exec[queue'[p][j]] = p
          BY <2>1, <3>3, <4>1, <4>2 DEF QueueInv
        <5> QED
          BY <3>1, <5>1 DEF TypeOK
      <4>4. \A j \in 1 .. Len(queue'[p]) : queue'[p][i] = queue'[p][j] => i + 1 = j + 1
        BY <4>1 DEF QueueInv
      <4>5. \A j \in 1 .. Len(queue'[p]) : i + 1 = j + 1 => i = j
        BY <3>3, <4>1 DEF TypeOK
      <4> QED
        BY <4>3, <4>4, <4>5
    <3> QED
      BY <3>2, <3>3
  <2> QED
    BY <2>2 DEF QueueInv
<1>2. ASSUME NEW o \in Owners, Exit(o) PROVE QueueInv'
  BY <1>2, QueueKept, TaskNames DEF TypeOK, Exit, Discard, MayEnd, ownerVars, taskVars,
     storeVars, callVars
<1>3. ASSUME NEW t \in Tasks, Deliver(t) PROVE QueueInv'
  BY <1>3, QueueKept, TaskNames
     DEF TypeOK, Deliver, ownerVars, taskVars, storeVars, callVars
<1>4. ASSUME NEW c \in Calls, NEW k \in {1, 2}, Connect(c, k) PROVE QueueInv'
  BY <1>4, QueueKept, TaskNames
     DEF TypeOK, Connect, ownerVars, taskVars, storeVars, callVars
<1>5. ASSUME NEW c \in Calls, NEW k \in {1, 2}, Write(c, k) PROVE QueueInv'
  <2>1. <<c, k>> \in Tasks /\ stage[<<c, k>>] = "running"
        /\ stage' = [stage EXCEPT ![<<c, k>>] = "written"] /\ UNCHANGED <<queue, exec>>
    BY <1>5, TaskNames DEF Write, callVars
  <2> QED
    BY <2>1, QueueKept DEF TypeOK
<1>6. ASSUME NEW c \in Calls, NEW k \in {1, 2}, Commit(c, k) PROVE QueueInv'
  BY <1>6, QueueKept, TaskNames DEF TypeOK, Commit, ownerVars, taskVars, storeVars, callVars
<1>7. ASSUME NEW c \in Calls, NEW k \in {1, 2}, NEW v \in Verdicts, Finish(c, k,
v) PROVE QueueInv'
  <2>1. <<c, k>> \in Tasks /\ stage[<<c, k>>] \in {"running", "written"}
        /\ stage' = [stage EXCEPT ![<<c, k>>] = "leaving"] /\ UNCHANGED <<queue, exec>>
    BY <1>7, TaskNames DEF Finish, Discard, callVars
  <2> QED
    BY <2>1, QueueKept DEF TypeOK
<1>8. ASSUME NEW c \in Calls, ReadExecutor(c) PROVE QueueInv'
  BY <1>8, QueueKept, TaskNames DEF TypeOK, CallerInv, CallerOK, ReadExecutor, ownerVars,
     taskVars, storeVars, callVars
<1>9. ASSUME NEW c \in Calls, Submit(c) PROVE QueueInv'
  BY <1>9, QueueAppend, TaskNames DEF TypeOK, CallerInv, CallerOK, Submit, Enqueue
<1>10. ASSUME NEW c \in Calls, Resubmit(c) PROVE QueueInv'
  BY <1>10, QueueAppend, TaskNames DEF TypeOK, CallerInv, CallerOK, Resubmit, Enqueue
<1>11. ASSUME NEW c \in Calls, Refused(c) PROVE QueueInv'
  BY <1>11, QueueKept, TaskNames
     DEF TypeOK, Refused, Return, ownerVars, taskVars, storeVars, callVars
<1>12. ASSUME NEW c \in Calls, Answer(c) PROVE QueueInv'
  BY <1>12, QueueKept, TaskNames
     DEF TypeOK, Answer, Return, ownerVars, taskVars, storeVars, callVars
<1>13. ASSUME NEW c \in Calls, TimeOut(c) PROVE QueueInv'
  BY <1>13, QueueKept, TaskNames
     DEF TypeOK, TimeOut, ownerVars, taskVars, storeVars, callVars
<1>14. ASSUME NEW c \in Calls, Swap(c) PROVE QueueInv'
  BY <1>14, QueueKept, TaskNames DEF TypeOK, Swap, ownerVars, taskVars, storeVars, callVars
<1>15. ASSUME NEW c \in Calls, ShutdownAbandoned(c) PROVE QueueInv'
  BY <1>15, QueueKept, TaskNames
     DEF TypeOK, ShutdownAbandoned, Return, ownerVars, taskVars, storeVars, callVars
<1>16. ASSUME NEW c \in Calls, ShutdownAndJoin(c) PROVE QueueInv'
  BY <1>16, QueueKept, TaskNames
     DEF TypeOK, ShutdownAndJoin, ownerVars, taskVars, storeVars, callVars
<1>17. ASSUME NEW c \in Calls, Rebuilt(c) PROVE QueueInv'
  <2>1. stage[Retry(c)] = "none" /\ \A t \in Tasks \ {Retry(c)} : exec'[t] = exec[t]
    BY <1>17, TaskNames DEF TypeOK, CallerInv, CallerOK, Rebuilt
  <2> QED
    BY <1>17, <2>1, QueueKept, TaskNames DEF Rebuilt, taskVars, storeVars
<1>18. ASSUME NEW c \in Calls, RetryAnswer(c) PROVE QueueInv'
  BY <1>18, QueueKept, TaskNames DEF TypeOK, RetryAnswer, Return, ownerVars, taskVars,
     storeVars, callVars
<1>19. ASSUME NEW c \in Calls, RetryTimeOut(c) PROVE QueueInv'
  BY <1>19, QueueKept, TaskNames DEF TypeOK, RetryTimeOut, Return, ownerVars, taskVars,
     storeVars, callVars
<1>20. ASSUME CloseLocalDb PROVE QueueInv'
  BY <1>20, QueueKept, TaskNames DEF TypeOK, CloseLocalDb, Discard, ownerVars, taskVars,
     storeVars, callVars
<1>21. ASSUME Close PROVE QueueInv'
  BY <1>21, QueueAppend, TaskNames DEF TypeOK, CallerInv, Close
<1>22. ASSUME CloseShutdown PROVE QueueInv'
  BY <1>22, QueueKept, TaskNames
     DEF TypeOK, CloseShutdown, ownerVars, taskVars, storeVars, callVars
<1>23. ASSUME Terminated PROVE QueueInv'
  BY <1>23, QueueKept DEF Terminated, vars, ownerVars, taskVars, storeVars, callVars
<1>24. CASE UNCHANGED vars
  BY <1>24 DEF TypeOK, QueueInv, vars, ownerVars, taskVars, storeVars, callVars
<1> QED
  BY Zenon, <1>1, <1>2, <1>3, <1>4, <1>5, <1>6, <1>7, <1>8, <1>9, <1>10, <1>11, <1>12,
     <1>13, <1>14, <1>15, <1>16, <1>17, <1>18, <1>19, <1>20, <1>21, <1>22, <1>23, <1>24 DEF
     Next, Thread, Body, Caller

\* Every step keeps callers and their tasks in step: above all, a retry is
\* submitted only after the first attempt has ended as never executed.
LEMMA CallerStep ==
    ASSUME TypeOK, QueueInv, CallerInv, [Next]_vars
    PROVE  CallerInv'
<1>1. ASSUME NEW o \in Owners, Start(o) PROVE CallerInv'
  BY <1>1, HeadOfQueue, TaskNames DEF TypeOK, CallerInv, CallerOK, Start, callVars
<1>2. ASSUME NEW o \in Owners, Exit(o) PROVE CallerInv'
  BY <1>2, TaskNames, AppIsNoCall
     DEF TypeOK, CallerInv, CallerOK, Exit, Discard, MayEnd, ownerVars, taskVars, storeVars,
       callVars
<1>3. ASSUME NEW t \in Tasks, Deliver(t) PROVE CallerInv'
  BY <1>3, TaskNames, AppIsNoCall
     DEF TypeOK, CallerInv, CallerOK, Deliver, ownerVars, taskVars, storeVars, callVars
<1>4. ASSUME NEW c \in Calls, NEW k \in {1, 2}, Connect(c, k) PROVE CallerInv'
  BY <1>4, TaskNames, AppIsNoCall
     DEF TypeOK, CallerInv, CallerOK, Connect, ownerVars, taskVars, storeVars, callVars
<1>5. ASSUME NEW c \in Calls, NEW k \in {1, 2}, Write(c, k) PROVE CallerInv'
  <2>1. <<c, k>> \in Tasks /\ stage[<<c, k>>] = "running" /\ UNCHANGED <<pc, verdict>>
        /\ stage' = [stage EXCEPT ![<<c, k>>] = "written"]
    BY <1>5, TaskNames DEF Write, callVars
  <2> QED
    BY <2>1, TaskNames, AppIsNoCall DEF TypeOK, CallerInv, CallerOK
<1>6. ASSUME NEW c \in Calls, NEW k \in {1, 2}, Commit(c, k) PROVE CallerInv'
  BY <1>6, TaskNames, AppIsNoCall
     DEF TypeOK, CallerInv, CallerOK, Commit, ownerVars, taskVars, storeVars, callVars
<1>7. ASSUME NEW c \in Calls, NEW k \in {1, 2}, NEW v \in Verdicts, Finish(c, k,
v) PROVE CallerInv'
  <2>1. <<c, k>> \in Tasks /\ stage[<<c, k>>] \in {"running", "written"} /\ UNCHANGED pc
        /\ stage' = [stage EXCEPT ![<<c, k>>] = "leaving"]
        /\ verdict' = [verdict EXCEPT ![<<c, k>>] = v]
    BY <1>7, TaskNames DEF Finish, Discard, callVars
  <2> QED
    BY <2>1, TaskNames DEF TypeOK, CallerInv, CallerOK
<1>8. ASSUME NEW c \in Calls, ReadExecutor(c) PROVE CallerInv'
  BY <1>8, TaskNames, AppIsNoCall
     DEF TypeOK, CallerInv, CallerOK, ReadExecutor, ownerVars, taskVars, storeVars, callVars
<1>9. ASSUME NEW c \in Calls, Submit(c) PROVE CallerInv'
  <2>1. ASSUME NEW d \in Calls PROVE CallerOK(d)'
    <3>1. CASE d = c
      BY <1>9, <3>1, TaskNames DEF TypeOK, CallerInv, CallerOK, Submit, Enqueue, ownerVars,
         taskVars, storeVars, callVars
    <3>2. CASE d # c
      BY <1>9, <3>2, TaskNames DEF TypeOK, CallerInv, CallerOK, Submit, Enqueue, ownerVars,
         taskVars, storeVars, callVars
    <3> QED
      BY <3>1, <3>2
  <2>2. pc'[App] = "idle" => stage'[First(App)] = "none"
    BY <1>9, TaskNames, AppIsNoCall DEF TypeOK, CallerInv, Submit, Enqueue, ownerVars,
       taskVars, storeVars, callVars
  <2> QED
    BY <2>1, <2>2 DEF CallerInv
<1>10. ASSUME NEW c \in Calls, Resubmit(c) PROVE CallerInv'
  <2>1. ASSUME NEW d \in Calls PROVE CallerOK(d)'
    <3>1. CASE d = c
      BY <1>10, <3>1, TaskNames
         DEF TypeOK, CallerInv, CallerOK, Resubmit, Enqueue, ownerVars, taskVars, storeVars,
           callVars
    <3>2. CASE d # c
      BY <1>10, <3>2, TaskNames
         DEF TypeOK, CallerInv, CallerOK, Resubmit, Enqueue, ownerVars, taskVars, storeVars,
           callVars
    <3> QED
      BY <3>1, <3>2
  <2>2. pc'[App] = "idle" => stage'[First(App)] = "none"
    BY <1>10, TaskNames, AppIsNoCall DEF TypeOK, CallerInv, Resubmit, Enqueue, ownerVars,
       taskVars, storeVars, callVars
  <2> QED
    BY <2>1, <2>2 DEF CallerInv
<1>11. ASSUME NEW c \in Calls, Refused(c) PROVE CallerInv'
  BY <1>11, TaskNames, AppIsNoCall
     DEF TypeOK, CallerInv, CallerOK, Refused, Return, ownerVars, taskVars, storeVars,
       callVars
<1>12. ASSUME NEW c \in Calls, Answer(c) PROVE CallerInv'
  <2>1. ASSUME NEW d \in Calls PROVE CallerOK(d)'
    <3>1. CASE d = c
      BY <1>12, <3>1, TaskNames
         DEF TypeOK, CallerInv, CallerOK, Answer, Return, IsTransient, ownerVars, taskVars,
           storeVars, callVars
    <3>2. CASE d # c
      BY <1>12, <3>2, TaskNames
         DEF TypeOK, CallerInv, CallerOK, Answer, Return, IsTransient, ownerVars, taskVars,
           storeVars, callVars
    <3> QED
      BY <3>1, <3>2
  <2>2. pc'[App] = "idle" => stage'[First(App)] = "none"
    BY <1>12, TaskNames, AppIsNoCall DEF TypeOK, CallerInv, Answer, Return, IsTransient,
       ownerVars, taskVars, storeVars, callVars
  <2> QED
    BY <2>1, <2>2 DEF CallerInv
<1>13. ASSUME NEW c \in Calls, TimeOut(c) PROVE CallerInv'
  BY <1>13, TaskNames, AppIsNoCall
     DEF TypeOK, CallerInv, CallerOK, TimeOut, ownerVars, taskVars, storeVars, callVars
<1>14. ASSUME NEW c \in Calls, Swap(c) PROVE CallerInv'
  BY <1>14, TaskNames, AppIsNoCall
     DEF TypeOK, CallerInv, CallerOK, Swap, ownerVars, taskVars, storeVars, callVars
<1>15. ASSUME NEW c \in Calls, ShutdownAbandoned(c) PROVE CallerInv'
  BY <1>15, TaskNames, AppIsNoCall
     DEF TypeOK, CallerInv, CallerOK, ShutdownAbandoned, Return, ownerVars, taskVars,
         storeVars, callVars
<1>16. ASSUME NEW c \in Calls, ShutdownAndJoin(c) PROVE CallerInv'
  BY <1>16, TaskNames, AppIsNoCall
     DEF TypeOK, CallerInv, CallerOK, ShutdownAndJoin, ownerVars, taskVars, storeVars,
       callVars
<1>17. ASSUME NEW c \in Calls, Rebuilt(c) PROVE CallerInv'
  <2>1. ASSUME NEW d \in Calls PROVE CallerOK(d)'
    <3>1. CASE d = c
      BY <1>17, <3>1, TaskNames DEF TypeOK, CallerInv, CallerOK, Rebuilt, Return, ownerVars,
         taskVars, storeVars, callVars
    <3>2. CASE d # c
      BY <1>17, <3>2, TaskNames DEF TypeOK, CallerInv, CallerOK, Rebuilt, Return, ownerVars,
         taskVars, storeVars, callVars
    <3> QED
      BY <3>1, <3>2
  <2>2. pc'[App] = "idle" => stage'[First(App)] = "none"
    BY <1>17, TaskNames, AppIsNoCall DEF TypeOK, CallerInv, Rebuilt, Return, ownerVars,
       taskVars, storeVars, callVars
  <2> QED
    BY <2>1, <2>2 DEF CallerInv
<1>18. ASSUME NEW c \in Calls, RetryAnswer(c) PROVE CallerInv'
  BY <1>18, TaskNames, AppIsNoCall
     DEF TypeOK, CallerInv, CallerOK, RetryAnswer, Return, ownerVars, taskVars, storeVars,
       callVars
<1>19. ASSUME NEW c \in Calls, RetryTimeOut(c) PROVE CallerInv'
  BY <1>19, TaskNames, AppIsNoCall
     DEF TypeOK, CallerInv, CallerOK, RetryTimeOut, Return, ownerVars, taskVars, storeVars,
       callVars
<1>20. ASSUME CloseLocalDb PROVE CallerInv'
  BY <1>20, TaskNames, AppIsNoCall
     DEF TypeOK, CallerInv, CallerOK, CloseLocalDb, Discard, ownerVars, taskVars, storeVars,
       callVars
<1>21. ASSUME Close PROVE CallerInv'
  BY <1>21, TaskNames, AppIsNoCall
     DEF TypeOK, CallerInv, CallerOK, Close, ownerVars, taskVars, storeVars, callVars
<1>22. ASSUME CloseShutdown PROVE CallerInv'
  BY <1>22, TaskNames, AppIsNoCall
     DEF TypeOK, CallerInv, CallerOK, CloseShutdown, ownerVars, taskVars, storeVars,
       callVars
<1>23. ASSUME Terminated PROVE CallerInv'
  BY <1>23, TaskNames, AppIsNoCall
     DEF TypeOK, CallerInv, CallerOK, Terminated, vars, ownerVars, taskVars, storeVars,
       callVars
<1>24. CASE UNCHANGED vars
  BY <1>24 DEF TypeOK, CallerInv, CallerOK, vars, ownerVars, taskVars, storeVars, callVars
<1> QED
  BY Zenon, <1>1, <1>2, <1>3, <1>4, <1>5, <1>6, <1>7, <1>8, <1>9, <1>10, <1>11, <1>12,
     <1>13, <1>14, <1>15, <1>16, <1>17, <1>18, <1>19, <1>20, <1>21, <1>22, <1>23, <1>24 DEF
     Next, Thread, Body, Caller

\* Every step keeps the verdicts truthful, also those of abandoned tasks.
LEMMA CommitStep ==
    ASSUME TypeOK, QueueInv, CallerInv, CommitInv, [Next]_vars
    PROVE  CommitInv'
<1>1. ASSUME NEW o \in Owners, Start(o) PROVE CommitInv'
  <2>1. /\ Head(queue[o]) \in Tasks /\ stage[Head(queue[o])] = "queued"
        /\ stage' = [stage EXCEPT ![Head(queue[o])] = "running"]
        /\ UNCHANGED <<pending, committed, carried, verdict>>
    BY <1>1, HeadOfQueue DEF Start, storeVars
  <2>2. stage \in [Tasks -> Stages] /\ \A p \in Owners : pending[p] \subseteq Tasks
    BY DEF TypeOK
  <2> HIDE DEF Stages
  <2>3. \A t \in Tasks : stage[t] # "queued" => stage'[t] = stage[t]
    BY <2>1, <2>2
  <2>4. \A t \in Tasks : stage'[t] \in {"leaving", "done"} => stage[t] = stage'[t]
    BY <2>1, <2>2
  <2>5. ASSUME NEW p \in Owners, NEW t \in pending'[p]
        PROVE  t # First(App) /\ stage'[t] \in {"written", "leaving", "done"}
    BY <2>1, <2>2, <2>3 DEF CommitInv
  <2> QED
    BY <2>1, <2>3, <2>4, <2>5 DEF CommitInv
<1>2. ASSUME NEW o \in Owners, Exit(o) PROVE CommitInv'
  BY <1>2, TaskNames
     DEF TypeOK, CallerInv, CallerOK, CommitInv, Exit, Discard, MayEnd, ownerVars, taskVars,
         storeVars, callVars
<1>3. ASSUME NEW t \in Tasks, Deliver(t) PROVE CommitInv'
  BY <1>3, TaskNames
     DEF TypeOK, CallerInv, CallerOK, CommitInv, Deliver, ownerVars, taskVars, storeVars,
       callVars
<1>4. ASSUME NEW c \in Calls, NEW k \in {1, 2}, Connect(c, k) PROVE CommitInv'
  BY <1>4, TaskNames
     DEF TypeOK, CallerInv, CallerOK, CommitInv, Connect, ownerVars, taskVars, storeVars,
       callVars
<1>5. ASSUME NEW c \in Calls, NEW k \in {1, 2}, Write(c, k) PROVE CommitInv'
  <2>1. <<c, k>> \in Tasks \ {First(App)} /\ exec[<<c, k>>] \in Owners
        /\ stage[<<c, k>>] = "running" /\ UNCHANGED <<verdict, committed, carried>>
        /\ stage' = [stage EXCEPT ![<<c, k>>] = "written"]
    BY <1>5, TaskNames, AppIsNoCall DEF TypeOK, Write, First
  <2>2. PICK kept \in {pending[exec[<<c, k>>]], {}} :
           pending' = [pending EXCEPT ![exec[<<c, k>>]] = kept \cup {<<c, k>>}]
    BY <1>5 DEF Write
  <2>3. \A o \in Owners : \A t \in pending'[o] : t \in pending[o] \/ t = <<c, k>>
    BY <2>1, <2>2 DEF TypeOK
  <2>4. ASSUME NEW o \in Owners, NEW t \in pending'[o]
        PROVE  t # First(App) /\ stage'[t] \in {"written", "leaving", "done"}
    <3>1. CASE t = <<c, k>>
      BY <2>1, <3>1 DEF TypeOK
    <3>2. CASE t \in pending[o]
      <4>1. t \in Tasks /\ t # First(App) /\ stage[t] \in {"written", "leaving", "done"}
        BY <3>2 DEF TypeOK, CommitInv
      <4> QED
        BY <2>1, <4>1 DEF TypeOK
    <3> QED
      BY <2>3, <3>1, <3>2
  <2>5. \A t \in Tasks : stage'[t] # stage[t] => t = <<c, k>>
    BY <2>1 DEF TypeOK
  <2> QED
    BY <2>1, <2>4, <2>5 DEF CommitInv
<1>6. ASSUME NEW c \in Calls, NEW k \in {1, 2}, Commit(c, k) PROVE CommitInv'
  <2>1. /\ <<c, k>> \in Tasks /\ exec[<<c, k>>] \in Owners
        /\ stage[<<c, k>>] = "written" /\ UNCHANGED <<stage, verdict>>
        /\ committed' = committed \cup pending[exec[<<c, k>>]]
        /\ carried' = carried \cup (pending[exec[<<c, k>>]] \ {<<c, k>>})
        /\ pending' = [pending EXCEPT ![exec[<<c, k>>]] = {}]
    BY <1>6, TaskNames DEF TypeOK, Commit
  <2>2. \A o \in Owners : pending'[o] \subseteq pending[o]
    BY <2>1 DEF TypeOK
  <2>3. \A t \in Tasks : t \in committed' /\ t \notin committed =>
            t \in pending[exec[<<c, k>>]] /\ (t \in carried' \/ t = <<c, k>>)
    BY <2>1
  <2> QED
    BY <2>1, <2>2, <2>3 DEF CommitInv
<1>7. ASSUME NEW c \in Calls, NEW k \in {1, 2}, NEW v \in Verdicts, Finish(c, k,
v) PROVE CommitInv'
  <2>1. <<c, k>> \in Tasks /\ v \in EndsAs(<<c, k>>) /\ UNCHANGED <<committed, carried>>
        /\ stage' = [stage EXCEPT ![<<c, k>>] = "leaving"]
        /\ verdict' = [verdict EXCEPT ![<<c, k>>] = v]
    BY <1>7, TaskNames DEF Finish
  <2>2. pending' = pending \/ pending' = [pending EXCEPT ![exec[<<c, k>>]] = {}]
    BY <1>7 DEF Finish, Discard
  <2>3. \A o \in Owners : pending'[o] \subseteq pending[o]
    BY <2>2 DEF TypeOK
  <2> QED
    BY <2>1, <2>3 DEF TypeOK, CommitInv, EndsAs
<1>8. ASSUME NEW c \in Calls, ReadExecutor(c) PROVE CommitInv'
  BY <1>8, TaskNames
     DEF TypeOK, CallerInv, CallerOK, CommitInv, ReadExecutor, ownerVars, taskVars,
       storeVars, callVars
<1>9. ASSUME NEW c \in Calls, Submit(c) PROVE CommitInv'
  BY <1>9, TaskNames
     DEF TypeOK, CallerInv, CallerOK, CommitInv, Submit, Enqueue, ownerVars, taskVars,
         storeVars, callVars
<1>10. ASSUME NEW c \in Calls, Resubmit(c) PROVE CommitInv'
  BY <1>10, TaskNames
     DEF TypeOK, CallerInv, CallerOK, CommitInv, Resubmit, Enqueue, ownerVars, taskVars,
       storeVars, callVars
<1>11. ASSUME NEW c \in Calls, Refused(c) PROVE CommitInv'
  BY <1>11, TaskNames
     DEF TypeOK, CallerInv, CallerOK, CommitInv, Refused, Return, ownerVars, taskVars,
         storeVars, callVars
<1>12. ASSUME NEW c \in Calls, Answer(c) PROVE CommitInv'
  BY <1>12, TaskNames
     DEF TypeOK, CallerInv, CallerOK, CommitInv, Answer, Return, IsTransient, ownerVars,
     taskVars, storeVars, callVars
<1>13. ASSUME NEW c \in Calls, TimeOut(c) PROVE CommitInv'
  BY <1>13, TaskNames
     DEF TypeOK, CallerInv, CallerOK, CommitInv, TimeOut, ownerVars, taskVars, storeVars,
       callVars
<1>14. ASSUME NEW c \in Calls, Swap(c) PROVE CommitInv'
  BY <1>14, TaskNames
     DEF TypeOK, CallerInv, CallerOK, CommitInv, Swap, ownerVars, taskVars, storeVars,
       callVars
<1>15. ASSUME NEW c \in Calls, ShutdownAbandoned(c) PROVE CommitInv'
  BY <1>15, TaskNames
     DEF TypeOK, CallerInv, CallerOK, CommitInv, ShutdownAbandoned, Return, ownerVars,
     taskVars, storeVars, callVars
<1>16. ASSUME NEW c \in Calls, ShutdownAndJoin(c) PROVE CommitInv'
  BY <1>16, TaskNames
     DEF TypeOK, CallerInv, CallerOK, CommitInv, ShutdownAndJoin, ownerVars, taskVars,
         storeVars, callVars
<1>17. ASSUME NEW c \in Calls, Rebuilt(c) PROVE CommitInv'
  BY <1>17, TaskNames
     DEF TypeOK, CallerInv, CallerOK, CommitInv, Rebuilt, Return, ownerVars, taskVars,
         storeVars, callVars
<1>18. ASSUME NEW c \in Calls, RetryAnswer(c) PROVE CommitInv'
  BY <1>18, TaskNames
     DEF TypeOK, CallerInv, CallerOK, CommitInv, RetryAnswer, Return, ownerVars, taskVars,
       storeVars, callVars
<1>19. ASSUME NEW c \in Calls, RetryTimeOut(c) PROVE CommitInv'
  BY <1>19, TaskNames
     DEF TypeOK, CallerInv, CallerOK, CommitInv, RetryTimeOut, Return, ownerVars, taskVars,
       storeVars, callVars
<1>20. ASSUME CloseLocalDb PROVE CommitInv'
  BY <1>20, TaskNames
     DEF TypeOK, CallerInv, CallerOK, CommitInv, CloseLocalDb, Discard, ownerVars, taskVars,
         storeVars, callVars
<1>21. ASSUME Close PROVE CommitInv'
  BY <1>21, TaskNames
     DEF TypeOK, CallerInv, CallerOK, CommitInv, Close, ownerVars, taskVars, storeVars,
       callVars
<1>22. ASSUME CloseShutdown PROVE CommitInv'
  BY <1>22, TaskNames
     DEF TypeOK, CallerInv, CallerOK, CommitInv, CloseShutdown, ownerVars, taskVars,
         storeVars, callVars
<1>23. ASSUME Terminated PROVE CommitInv'
  BY <1>23, TaskNames
     DEF TypeOK, CallerInv, CallerOK, CommitInv, Terminated, vars, ownerVars, taskVars,
         storeVars, callVars
<1>24. CASE UNCHANGED vars
  BY <1>24
     DEF TypeOK, CallerInv, CallerOK, CommitInv, vars, ownerVars, taskVars, storeVars,
       callVars
<1> QED
  BY Zenon, <1>1, <1>2, <1>3, <1>4, <1>5, <1>6, <1>7, <1>8, <1>9, <1>10, <1>11, <1>12,
     <1>13, <1>14, <1>15, <1>16, <1>17, <1>18, <1>19, <1>20, <1>21, <1>22, <1>23, <1>24 DEF
     Next, Thread, Body, Caller

\* Every step keeps the current executor open and new executors unknown to
\* the callers that have not created them.
LEMMA OwnerStep ==
    ASSUME TypeOK, CallerInv, OwnerInv, [Next]_vars
    PROVE  OwnerInv'
<1>1. ASSUME NEW o \in Owners, Start(o) PROVE OwnerInv'
  BY <1>1, TaskNames, AppIsNoCall
     DEF TypeOK, OwnerInv, OwnerOK, Fresh, Start, Busy, ownerVars, taskVars, storeVars,
       callVars
<1>2. ASSUME NEW o \in Owners, Exit(o) PROVE OwnerInv'
  BY <1>2, TaskNames, AppIsNoCall
     DEF TypeOK, OwnerInv, OwnerOK, Fresh, Exit, Discard, MayEnd, ownerVars, taskVars,
         storeVars, callVars
<1>3. ASSUME NEW t \in Tasks, Deliver(t) PROVE OwnerInv'
  BY <1>3, TaskNames, AppIsNoCall
     DEF TypeOK, OwnerInv, OwnerOK, Fresh, Deliver, ownerVars, taskVars, storeVars, callVars
<1>4. ASSUME NEW c \in Calls, NEW k \in {1, 2}, Connect(c, k) PROVE OwnerInv'
  BY <1>4, TaskNames, AppIsNoCall
     DEF TypeOK, OwnerInv, OwnerOK, Fresh, Connect, ownerVars, taskVars, storeVars, callVars
<1>5. ASSUME NEW c \in Calls, NEW k \in {1, 2}, Write(c, k) PROVE OwnerInv'
  <2>1. UNCHANGED <<cur, shut, exec, pc, old>>
    BY <1>5 DEF Write, ownerVars, callVars
  <2> QED
    BY <2>1 DEF OwnerInv, OwnerOK, Fresh
<1>6. ASSUME NEW c \in Calls, NEW k \in {1, 2}, Commit(c, k) PROVE OwnerInv'
  BY <1>6, TaskNames, AppIsNoCall
     DEF TypeOK, OwnerInv, OwnerOK, Fresh, Commit, ownerVars, taskVars, storeVars, callVars
<1>7. ASSUME NEW c \in Calls, NEW k \in {1, 2}, NEW v \in Verdicts, Finish(c, k,
v) PROVE OwnerInv'
  BY <1>7, TaskNames, AppIsNoCall
     DEF TypeOK, OwnerInv, OwnerOK, Fresh, Finish, Discard, ownerVars, taskVars, storeVars,
       callVars
<1>8. ASSUME NEW c \in Calls, ReadExecutor(c) PROVE OwnerInv'
  BY <1>8, TaskNames, AppIsNoCall
     DEF TypeOK, OwnerInv, OwnerOK, Fresh, ReadExecutor, ownerVars, taskVars, storeVars,
       callVars
<1>9. ASSUME NEW c \in Calls, Submit(c) PROVE OwnerInv'
  BY <1>9, TaskNames, AppIsNoCall
     DEF TypeOK, OwnerInv, OwnerOK, Fresh, Submit, Enqueue, ownerVars, taskVars, storeVars,
       callVars
<1>10. ASSUME NEW c \in Calls, Resubmit(c) PROVE OwnerInv'
  BY <1>10, TaskNames, AppIsNoCall
     DEF TypeOK, OwnerInv, OwnerOK, Fresh, Resubmit, Enqueue, ownerVars, taskVars,
       storeVars, callVars
<1>11. ASSUME NEW c \in Calls, Refused(c) PROVE OwnerInv'
  <2>1. ASSUME NEW d \in Calls PROVE OwnerOK(d)'
    <3>1. CASE d = c
      BY <1>11, <3>1, TaskNames DEF TypeOK, OwnerInv, OwnerOK, Fresh, Refused, Return,
         ownerVars, taskVars, storeVars, callVars
    <3>2. CASE d # c
      BY <1>11, <3>2, TaskNames DEF TypeOK, OwnerInv, OwnerOK, Fresh, Refused, Return,
         ownerVars, taskVars, storeVars, callVars
    <3> QED
      BY <3>1, <3>2
  <2>2. pc'[App] # "done" => cur' \notin shut'
    BY <1>11, TaskNames, AppIsNoCall DEF TypeOK, OwnerInv, OwnerOK, Fresh, Refused, Return,
       ownerVars, taskVars, storeVars, callVars
  <2> QED
    BY <2>1, <2>2 DEF OwnerInv
<1>12. ASSUME NEW c \in Calls, Answer(c) PROVE OwnerInv'
  <2>1. ASSUME NEW d \in Calls PROVE OwnerOK(d)'
    <3>1. CASE d = c
      BY <1>12, <3>1, TaskNames DEF TypeOK, OwnerInv, OwnerOK, Fresh, Answer, Return,
         IsTransient, ownerVars, taskVars, storeVars, callVars
    <3>2. CASE d # c
      BY <1>12, <3>2, TaskNames DEF TypeOK, OwnerInv, OwnerOK, Fresh, Answer, Return,
         IsTransient, ownerVars, taskVars, storeVars, callVars
    <3> QED
      BY <3>1, <3>2
  <2>2. pc'[App] # "done" => cur' \notin shut'
    BY <1>12, TaskNames, AppIsNoCall DEF TypeOK, OwnerInv, OwnerOK, Fresh, Answer, Return,
       IsTransient, ownerVars, taskVars, storeVars, callVars
  <2> QED
    BY <2>1, <2>2 DEF OwnerInv
<1>13. ASSUME NEW c \in Calls, TimeOut(c) PROVE OwnerInv'
  BY <1>13, TaskNames, AppIsNoCall
     DEF TypeOK, OwnerInv, OwnerOK, Fresh, TimeOut, ownerVars, taskVars, storeVars, callVars
<1>14. ASSUME NEW c \in Calls, Swap(c) PROVE OwnerInv'
  <2>1. ASSUME NEW d \in Calls PROVE OwnerOK(d)'
    <3>1. CASE d = c
      BY <1>14, <3>1, TaskNames DEF TypeOK, OwnerInv, OwnerOK, Fresh, Swap, ownerVars,
         taskVars, storeVars, callVars
    <3>2. CASE d # c
      BY <1>14, <3>2, TaskNames DEF TypeOK, OwnerInv, OwnerOK, Fresh, Swap, ownerVars,
         taskVars, storeVars, callVars
    <3> QED
      BY <3>1, <3>2
  <2>2. pc'[App] # "done" => cur' \notin shut'
    BY <1>14, TaskNames, AppIsNoCall DEF TypeOK, OwnerInv, OwnerOK, Fresh, Swap, ownerVars,
       taskVars, storeVars, callVars
  <2> QED
    BY <2>1, <2>2 DEF OwnerInv
<1>15. ASSUME NEW c \in Calls, ShutdownAbandoned(c) PROVE OwnerInv'
  <2>1. ASSUME NEW d \in Calls PROVE OwnerOK(d)'
    <3>1. CASE d = c
      BY <1>15, <3>1, TaskNames DEF TypeOK, OwnerInv, OwnerOK, Fresh, ShutdownAbandoned,
         Return, ownerVars, taskVars, storeVars, callVars
    <3>2. CASE d # c
      BY <1>15, <3>2, TaskNames DEF TypeOK, OwnerInv, OwnerOK, Fresh, ShutdownAbandoned,
         Return, ownerVars, taskVars, storeVars, callVars
    <3> QED
      BY <3>1, <3>2
  <2>2. pc'[App] # "done" => cur' \notin shut'
    BY <1>15, TaskNames, AppIsNoCall
       DEF TypeOK, OwnerInv, OwnerOK, Fresh, ShutdownAbandoned, Return, ownerVars, taskVars,
         storeVars, callVars
  <2> QED
    BY <2>1, <2>2 DEF OwnerInv
<1>16. ASSUME NEW c \in Calls, ShutdownAndJoin(c) PROVE OwnerInv'
  BY <1>16, TaskNames, AppIsNoCall
     DEF TypeOK, OwnerInv, OwnerOK, Fresh, ShutdownAndJoin, ownerVars, taskVars, storeVars,
       callVars
<1>17. ASSUME NEW c \in Calls, Rebuilt(c) PROVE OwnerInv'
  <2>1. ASSUME NEW d \in Calls PROVE OwnerOK(d)'
    <3>1. CASE d = c
      BY <1>17, <3>1, TaskNames DEF TypeOK, OwnerInv, OwnerOK, Fresh, Rebuilt, Return,
         ownerVars, taskVars, storeVars, callVars
    <3>2. CASE d # c
      BY <1>17, <3>2, TaskNames DEF TypeOK, OwnerInv, OwnerOK, Fresh, Rebuilt, Return,
         ownerVars, taskVars, storeVars, callVars
    <3> QED
      BY <3>1, <3>2
  <2>2. pc'[App] # "done" => cur' \notin shut'
    BY <1>17, TaskNames, AppIsNoCall DEF TypeOK, OwnerInv, OwnerOK, Fresh, Rebuilt, Return,
       ownerVars, taskVars, storeVars, callVars
  <2> QED
    BY <2>1, <2>2 DEF OwnerInv
<1>18. ASSUME NEW c \in Calls, RetryAnswer(c) PROVE OwnerInv'
  BY <1>18, TaskNames, AppIsNoCall
     DEF TypeOK, OwnerInv, OwnerOK, Fresh, RetryAnswer, Return, ownerVars, taskVars,
         storeVars, callVars
<1>19. ASSUME NEW c \in Calls, RetryTimeOut(c) PROVE OwnerInv'
  BY <1>19, TaskNames, AppIsNoCall
     DEF TypeOK, OwnerInv, OwnerOK, Fresh, RetryTimeOut, Return, ownerVars, taskVars,
         storeVars, callVars
<1>20. ASSUME CloseLocalDb PROVE OwnerInv'
  BY <1>20, TaskNames, AppIsNoCall
     DEF TypeOK, OwnerInv, OwnerOK, Fresh, CloseLocalDb, Discard, ownerVars, taskVars,
         storeVars, callVars
<1>21. ASSUME Close PROVE OwnerInv'
  BY <1>21, TaskNames, AppIsNoCall
     DEF TypeOK, OwnerInv, OwnerOK, Fresh, Close, ownerVars, taskVars, storeVars, callVars
<1>22. ASSUME CloseShutdown PROVE OwnerInv'
  BY <1>22, TaskNames, AppIsNoCall
     DEF TypeOK, OwnerInv, OwnerOK, Fresh, CloseShutdown, ownerVars, taskVars, storeVars,
       callVars
<1>23. ASSUME Terminated PROVE OwnerInv'
  BY <1>23, TaskNames, AppIsNoCall
     DEF TypeOK, OwnerInv, OwnerOK, Fresh, Terminated, vars, ownerVars, taskVars, storeVars,
       callVars
<1>24. CASE UNCHANGED vars
  BY <1>24
     DEF TypeOK, OwnerInv, OwnerOK, Fresh, vars, ownerVars, taskVars, storeVars, callVars
<1> QED
  BY Zenon, <1>1, <1>2, <1>3, <1>4, <1>5, <1>6, <1>7, <1>8, <1>9, <1>10, <1>11, <1>12,
     <1>13, <1>14, <1>15, <1>16, <1>17, <1>18, <1>19, <1>20, <1>21, <1>22, <1>23, <1>24 DEF
     Next, Thread, Body, Caller

\* Every step keeps the answers already given true.
LEMMA AnswerStep ==
    ASSUME TypeOK, QueueInv, CallerInv, CommitInv, AnswerInv, [Next]_vars
    PROVE  AnswerInv'
<1>1. ASSUME NEW o \in Owners, Start(o) PROVE AnswerInv'
  <2>1. /\ Head(queue[o]) \in Tasks /\ stage[Head(queue[o])] = "queued"
        /\ stage' = [stage EXCEPT ![Head(queue[o])] = "running"]
        /\ UNCHANGED <<committed, carried, pc, result>>
    BY <1>1, HeadOfQueue DEF Start, callVars, storeVars
  <2>2. stage \in [Tasks -> Stages]
    BY DEF TypeOK
  <2>3. \A t \in Tasks : stage[t] # "queued" => stage'[t] = stage[t]
    BY <2>1, <2>2
  <2> QED
    BY <2>1, <2>3, TaskNames DEF AnswerInv, AnswerOK
<1>2. ASSUME NEW o \in Owners, Exit(o) PROVE AnswerInv'
  BY <1>2, TaskNames, AppIsNoCall
     DEF TypeOK, AnswerInv, AnswerOK, Exit, Discard, MayEnd, ownerVars, taskVars, storeVars,
       callVars
<1>3. ASSUME NEW t \in Tasks, Deliver(t) PROVE AnswerInv'
  BY <1>3, TaskNames, AppIsNoCall
     DEF TypeOK, AnswerInv, AnswerOK, Deliver, ownerVars, taskVars, storeVars, callVars
<1>4. ASSUME NEW c \in Calls, NEW k \in {1, 2}, Connect(c, k) PROVE AnswerInv'
  BY <1>4, TaskNames, AppIsNoCall
     DEF TypeOK, AnswerInv, AnswerOK, Connect, ownerVars, taskVars, storeVars, callVars
<1>5. ASSUME NEW c \in Calls, NEW k \in {1, 2}, Write(c, k) PROVE AnswerInv'
  <2>1. <<c, k>> \in Tasks /\ stage[<<c, k>>] = "running"
        /\ UNCHANGED <<committed, carried, pc, result>>
        /\ stage' = [stage EXCEPT ![<<c, k>>] = "written"]
    BY <1>5, TaskNames DEF Write, callVars
  <2> QED
    BY <2>1, TaskNames DEF TypeOK, AnswerInv, AnswerOK
<1>6. ASSUME NEW c \in Calls, NEW k \in {1, 2}, Commit(c, k) PROVE AnswerInv'
  <2>1. <<c, k>> \in Tasks /\ stage[<<c, k>>] = "written" /\ UNCHANGED <<stage, pc, result>>
        /\ committed \subseteq committed' /\ carried \subseteq carried'
        /\ \A t \in committed' : t \in committed \/ t \in carried' \/ t = <<c, k>>
    BY <1>6, TaskNames DEF Commit, callVars
  <2> QED
    BY <2>1, TaskNames DEF AnswerInv, AnswerOK
<1>7. ASSUME NEW c \in Calls, NEW k \in {1, 2}, NEW v \in Verdicts, Finish(c, k,
v) PROVE AnswerInv'
  <2>1. <<c, k>> \in Tasks /\ UNCHANGED <<committed, carried, pc, result>>
        /\ stage' = [stage EXCEPT ![<<c, k>>] = "leaving"]
    BY <1>7, TaskNames DEF Finish, Discard, callVars
  <2> QED
    BY <2>1, TaskNames DEF TypeOK, AnswerInv, AnswerOK
<1>8. ASSUME NEW c \in Calls, ReadExecutor(c) PROVE AnswerInv'
  BY <1>8, TaskNames, AppIsNoCall
     DEF TypeOK, AnswerInv, AnswerOK, ReadExecutor, ownerVars, taskVars, storeVars, callVars
<1>9. ASSUME NEW c \in Calls, Submit(c) PROVE AnswerInv'
  <2>1. ASSUME NEW d \in Calls PROVE AnswerOK(d)'
    <3>1. CASE d = c
      BY <1>9, <3>1, TaskNames DEF TypeOK, AnswerInv, AnswerOK, CallerInv, CallerOK,
         CommitInv, Submit, Enqueue, ownerVars, taskVars, storeVars, callVars
    <3>2. CASE d # c
      BY <1>9, <3>2, TaskNames DEF TypeOK, AnswerInv, AnswerOK, Submit, Enqueue, ownerVars,
         taskVars, storeVars, callVars
    <3> QED
      BY <3>1, <3>2
  <2> QED
    BY <2>1 DEF AnswerInv
<1>10. ASSUME NEW c \in Calls, Resubmit(c) PROVE AnswerInv'
  <2>1. ASSUME NEW d \in Calls PROVE AnswerOK(d)'
    <3>1. CASE d = c
      BY <1>10, <3>1, TaskNames DEF TypeOK, AnswerInv, AnswerOK, CallerInv, CallerOK,
         CommitInv, Resubmit, Enqueue, ownerVars, taskVars, storeVars, callVars
    <3>2. CASE d # c
      BY <1>10, <3>2, TaskNames
         DEF TypeOK, AnswerInv, AnswerOK, Resubmit, Enqueue, ownerVars, taskVars, storeVars,
           callVars
    <3> QED
      BY <3>1, <3>2
  <2> QED
    BY <2>1 DEF AnswerInv
<1>11. ASSUME NEW c \in Calls, Refused(c) PROVE AnswerInv'
  <2>1. ASSUME NEW d \in Calls PROVE AnswerOK(d)'
    <3>1. CASE d = c
      BY <1>11, <3>1, TaskNames DEF TypeOK, AnswerInv, AnswerOK, CallerInv, CallerOK,
         CommitInv, Refused, Return, ownerVars, taskVars, storeVars, callVars
    <3>2. CASE d # c
      BY <1>11, <3>2, TaskNames DEF TypeOK, AnswerInv, AnswerOK, Refused, Return, ownerVars,
         taskVars, storeVars, callVars
    <3> QED
      BY <3>1, <3>2
  <2> QED
    BY <2>1 DEF AnswerInv
<1>12. ASSUME NEW c \in Calls, Answer(c) PROVE AnswerInv'
  <2>1. ASSUME NEW d \in Calls PROVE AnswerOK(d)'
    <3>1. CASE d = c
      <4>1. stage[First(c)] = "done" /\ stage[Retry(c)] = "none" /\ result[c] = "none"
            /\ UNCHANGED <<stage, committed, carried>>
        BY <1>12, TaskNames DEF TypeOK, CallerInv, CallerOK, AnswerInv, AnswerOK, Answer,
           taskVars, storeVars
      <4>2. /\ Retry(c) \notin committed
            /\ verdict[First(c)] \in {"error", "transient"} /\ First(c) \in committed
                 => First(c) \in carried
            /\ verdict[First(c)] = "ok" => First(c) \in committed
        BY <4>1, TaskNames DEF CommitInv
      <4>3. CASE UNCHANGED result
        BY <3>1, <4>1, <4>3 DEF AnswerOK
      <4>4. CASE Return(c, verdict[First(c)])
        BY <3>1, <4>1, <4>2, <4>4, TaskNames DEF TypeOK, AnswerOK, Return, Verdicts
      <4> QED
        BY <1>12, <4>3, <4>4 DEF Answer
    <3>2. CASE d # c
      BY <1>12, <3>2, TaskNames
         DEF TypeOK, AnswerInv, AnswerOK, Answer, Return, IsTransient, ownerVars, taskVars,
           storeVars, callVars
    <3> QED
      BY <3>1, <3>2
  <2> QED
    BY <2>1 DEF AnswerInv
<1>13. ASSUME NEW c \in Calls, TimeOut(c) PROVE AnswerInv'
  BY <1>13, TaskNames, AppIsNoCall
     DEF TypeOK, AnswerInv, AnswerOK, TimeOut, ownerVars, taskVars, storeVars, callVars
<1>14. ASSUME NEW c \in Calls, Swap(c) PROVE AnswerInv'
  BY <1>14, TaskNames, AppIsNoCall
     DEF TypeOK, AnswerInv, AnswerOK, Swap, ownerVars, taskVars, storeVars, callVars
<1>15. ASSUME NEW c \in Calls, ShutdownAbandoned(c) PROVE AnswerInv'
  BY <1>15, TaskNames, AppIsNoCall
     DEF TypeOK, AnswerInv, AnswerOK, ShutdownAbandoned, Return, ownerVars, taskVars,
         storeVars, callVars
<1>16. ASSUME NEW c \in Calls, ShutdownAndJoin(c) PROVE AnswerInv'
  BY <1>16, TaskNames, AppIsNoCall
     DEF TypeOK, AnswerInv, AnswerOK, ShutdownAndJoin, ownerVars, taskVars, storeVars,
       callVars
<1>17. ASSUME NEW c \in Calls, Rebuilt(c) PROVE AnswerInv'
  <2>1. ASSUME NEW d \in Calls PROVE AnswerOK(d)'
    <3>1. CASE d = c
      BY <1>17, <3>1, TaskNames DEF TypeOK, AnswerInv, AnswerOK, CallerInv, CallerOK,
         CommitInv, Rebuilt, Return, ownerVars, taskVars, storeVars, callVars
    <3>2. CASE d # c
      BY <1>17, <3>2, TaskNames DEF TypeOK, AnswerInv, AnswerOK, Rebuilt, Return, ownerVars,
         taskVars, storeVars, callVars
    <3> QED
      BY <3>1, <3>2
  <2> QED
    BY <2>1 DEF AnswerInv
<1>18. ASSUME NEW c \in Calls, RetryAnswer(c) PROVE AnswerInv'
  <2>1. ASSUME NEW d \in Calls PROVE AnswerOK(d)'
    <3>1. CASE d = c
      <4>1. /\ stage[Retry(c)] = "done" /\ stage[First(c)] = "done"
            /\ verdict[First(c)] = "transient" /\ UNCHANGED <<stage, committed, carried>>
            /\ result' = [result EXCEPT ![c] = verdict[Retry(c)]] /\ pc'[c] = "done"
        BY <1>18, TaskNames DEF TypeOK, CallerInv, CallerOK, RetryAnswer, Return, taskVars,
           storeVars
      <4>2. /\ First(c) \in committed => First(c) \in carried
            /\ verdict[Retry(c)] \in {"error", "transient"} /\ Retry(c) \in committed
                 => Retry(c) \in carried
            /\ verdict[Retry(c)] = "ok" => Retry(c) \in committed
        BY <4>1, TaskNames DEF CommitInv
      <4>3. verdict[Retry(c)] \in Verdicts /\ result \in [Calls -> Results]
        BY TaskNames DEF TypeOK
      <4> QED
        BY <3>1, <4>1, <4>2, <4>3 DEF AnswerOK, Verdicts
    <3>2. CASE d # c
      BY <1>18, <3>2, TaskNames DEF TypeOK, AnswerInv, AnswerOK, RetryAnswer, Return,
         ownerVars, taskVars, storeVars, callVars
    <3> QED
      BY <3>1, <3>2
  <2> QED
    BY <2>1 DEF AnswerInv
<1>19. ASSUME NEW c \in Calls, RetryTimeOut(c) PROVE AnswerInv'
  BY <1>19, TaskNames, AppIsNoCall
     DEF TypeOK, AnswerInv, AnswerOK, RetryTimeOut, Return, ownerVars, taskVars, storeVars,
       callVars
<1>20. ASSUME CloseLocalDb PROVE AnswerInv'
  BY <1>20, TaskNames, AppIsNoCall
     DEF TypeOK, AnswerInv, AnswerOK, CloseLocalDb, Discard, ownerVars, taskVars, storeVars,
       callVars
<1>21. ASSUME Close PROVE AnswerInv'
  BY <1>21, TaskNames, AppIsNoCall
     DEF TypeOK, AnswerInv, AnswerOK, Close, ownerVars, taskVars, storeVars, callVars
<1>22. ASSUME CloseShutdown PROVE AnswerInv'
  BY <1>22, TaskNames, AppIsNoCall
     DEF TypeOK, AnswerInv, AnswerOK, CloseShutdown, ownerVars, taskVars, storeVars,
       callVars
<1>23. ASSUME Terminated PROVE AnswerInv'
  BY <1>23, TaskNames, AppIsNoCall
     DEF TypeOK, AnswerInv, AnswerOK, Terminated, vars, ownerVars, taskVars, storeVars,
       callVars
<1>24. CASE UNCHANGED vars
  BY <1>24 DEF TypeOK, AnswerInv, AnswerOK, vars, ownerVars, taskVars, storeVars, callVars
<1> QED
  BY Zenon, <1>1, <1>2, <1>3, <1>4, <1>5, <1>6, <1>7, <1>8, <1>9, <1>10, <1>11, <1>12,
     <1>13, <1>14, <1>15, <1>16, <1>17, <1>18, <1>19, <1>20, <1>21, <1>22, <1>23, <1>24 DEF
     Next, Thread, Body, Caller

-----------------------------------------------------------------------------
(* The theorems.                                                           *)

IInv == TypeOK /\ QueueInv /\ CallerInv /\ CommitInv /\ OwnerInv /\ AnswerInv

\* The inductive invariant: DoubledOnlyByOthers and AnswerBindsOwnTasks need to know
\* how far each caller is (CallerInv), that a queued task is queued once (QueueInv)
\* and what a verdict says of the write (CommitInv); CurrentOwnerAccepts needs to
\* know which executors can still be created (OwnerInv).
LEMMA Invariance == Spec => []IInv
<1>1. Init => IInv
  <2>1. Init => TypeOK
    BY TaskNames DEF Init, TypeOK, Owners, Tasks, Stages, Verdicts, Places, Results
  <2>2. Init => QueueInv /\ CommitInv
    BY DEF Init, QueueInv, CommitInv
  <2>3. Init => CallerInv /\ OwnerInv /\ AnswerInv
    BY TaskNames, AppIsNoCall
       DEF Init, CallerInv, CallerOK, OwnerInv, OwnerOK, Fresh, AnswerInv, AnswerOK
  <2> QED
    BY <2>1, <2>2, <2>3 DEF IInv
<1>2. TypeOK' /\ IInv /\ [Next]_vars => IInv'
  BY QueueStep, CallerStep, CommitStep, OwnerStep, AnswerStep DEF IInv
<1> QED
  BY <1>1, <1>2, TypeCorrect, PTL DEF Spec

\* _run never commits a call's write a second time, for any number of calls: the
\* second submission is made only of a first one that ended without a commit of its
\* own.  Both are stored only where another call's commit stored the first.
THEOREM DoubledByAnotherCommit == Spec => []DoubledOnlyByOthers
<1>1. IInv => DoubledOnlyByOthers
  <2> SUFFICES ASSUME IInv, NEW c \in Calls, First(c) \in committed, Retry(c) \in committed
               PROVE  First(c) \in carried
    BY DEF DoubledOnlyByOthers
  <2>1. stage[Retry(c)] # "none"
    BY TaskNames DEF IInv, CommitInv
  <2>2. stage[First(c)] = "done" /\ verdict[First(c)] = "transient"
    BY <2>1 DEF IInv, CallerInv, CallerOK
  <2> QED
    BY <2>2, TaskNames DEF IInv, CommitInv
<1> QED
  BY <1>1, Invariance, PTL

\* What a request handler was told binds the tasks of its call, for any number of
\* calls and whatever an abandoned owner thread still does.
THEOREM AnswersBindTheirTasks == Spec => []AnswerBindsOwnTasks
<1>1. IInv => AnswerBindsOwnTasks
  <2> SUFFICES ASSUME IInv, NEW c \in Calls
               PROVE  /\ result[c] = "ok" => committed \cap {First(c), Retry(c)} # {}
                      /\ result[c] \in {"refused", "error", "transient"} =>
                           /\ committed \cap {First(c), Retry(c)} \subseteq carried
                           /\ \A k \in {1, 2} :
                                 stage[<<c, k>>] \notin {"queued", "running", "written"}
    BY DEF AnswerBindsOwnTasks
  <2>1. AnswerOK(c)
    BY DEF IInv, AnswerInv
  <2> QED
    BY <2>1 DEF AnswerOK, First, Retry
<1> QED
  BY <1>1, Invariance, PTL

\* Until close(), no interleaving of swaps leaves an executor in place that
\* has been shut down.
THEOREM CurrentOwnerIsOpen == Spec => []CurrentOwnerAccepts
<1>1. IInv => CurrentOwnerAccepts
  BY DEF IInv, OwnerInv, CurrentOwnerAccepts
<1> QED
  BY <1>1, Invariance, PTL

\* The `finally` of a task, a thread's end and close() never take the
\* connection away from the owner that is serving the API.
THEOREM ServingOwnerKeepsItsConnection == Spec => LiveOwnerKeepsItsConnection
<1>1. IInv /\ [Next]_vars => [\A o \in conn \ conn' : cur = o => pc[App] # "idle"]_vars
  <2> SUFFICES ASSUME IInv, Next, NEW o \in conn, o \notin conn', cur = o
               PROVE  pc[App] # "idle"
    OBVIOUS
  <2>1. ASSUME NEW p \in Owners, Exit(p) PROVE pc[App] # "idle"
    BY <2>1 DEF Exit, Discard, MayEnd, IInv, OwnerInv
  <2>2. ASSUME NEW c \in Calls, NEW k \in {1, 2}, NEW v \in Verdicts, Finish(c, k, v)
        PROVE  pc[App] # "idle"
    BY <2>2 DEF Finish, Discard, Abandoned
  <2>3. ASSUME CloseLocalDb PROVE pc[App] # "idle"
    BY <2>3 DEF CloseLocalDb, Discard, IInv, CallerInv
  <2>4. CASE UNCHANGED conn
    BY <2>4
  <2>5. CASE \E c \in Calls, k \in {1, 2} : Connect(c, k)
    BY <2>5 DEF Connect
  <2> QED
    <3>1. CASE \E p \in Owners : Start(p)
      BY <2>4, <3>1 DEF Start
    <3>2. CASE \E t \in Tasks : Deliver(t)
      BY <2>4, <3>2 DEF Deliver
    <3>3. CASE \E c \in Calls, k \in {1, 2} : Write(c, k) \/ Commit(c, k)
      BY <2>4, <3>3 DEF Write, Commit
    <3>4. CASE \E c \in Calls : ReadExecutor(c) \/ Caller(c)
      BY <2>4, <3>4
         DEF ReadExecutor, Caller, Submit, Resubmit, Refused, Answer, TimeOut, Swap,
           ShutdownAbandoned, ShutdownAndJoin, Rebuilt, RetryAnswer, RetryTimeOut, taskVars,
           storeVars
    <3>5. CASE Close \/ CloseShutdown \/ Terminated
      BY <2>4, <3>5 DEF Close, CloseShutdown, Terminated, vars, taskVars, storeVars
    <3> QED
      BY <2>1, <2>2, <2>3, <2>5, <3>1, <3>2, <3>3, <3>4, <3>5 DEF Next, Thread, Body
<1> QED
  BY <1>1, Invariance, PTL DEF Spec, LiveOwnerKeepsItsConnection

=============================================================================
