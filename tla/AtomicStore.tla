----------------------------- MODULE AtomicStore -----------------------------
(***************************************************************************)
(* What a caller of db/database.py's write methods relies on, whatever the *)
(* transport does below: a unit of work (one method call) takes effect as  *)
(* a whole or not at all, at most once unless it is written to be redone,  *)
(* and has taken effect when the call returns normally.  A call that       *)
(* raises says nothing: its unit may be applied before, after or never.    *)
(***************************************************************************)
EXTENDS Naturals

CONSTANTS Units, Redoable

VARIABLES stored,  \* per unit, how often it has taken effect (redoable: 0 or 1)
          answer   \* per unit, what its caller was told

storeVars == <<stored, answer>>

StoreInit ==
    /\ stored = [u \in Units |-> 0]
    /\ answer = [u \in Units |-> "none"]

Apply(S) ==
    /\ \A u \in S \ Redoable : stored[u] = 0
    /\ stored' = [u \in Units |-> IF u \in S THEN 1 ELSE stored[u]]

Reply(u, r) ==
    /\ answer[u] = "none"
    /\ r = "ok" => stored'[u] = 1
    /\ answer' = [answer EXCEPT ![u] = r]

\* One commit may carry several units, and may be the step that answers one.
StoreNext ==
    /\ \E S \in SUBSET Units : Apply(S)
    /\ \/ UNCHANGED answer
       \/ \E u \in Units, r \in {"ok", "error"} : Reply(u, r)

StoreSpec == StoreInit /\ [][StoreNext]_storeVars

=============================================================================
