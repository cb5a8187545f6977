----------------------------- MODULE SchemaMigrate -----------------------------
(***************************************************************************)
(* Opening the database: Database.__init__, _apply_schema() and _migrate() *)
(* of db/database.py, by several processes at once.  Each process opens    *)
(* the database as often as its program says (run_all.py: three times),    *)
(* under a migration mode: run, skip (the API), refuse (nobody said).      *)
(*                                                                         *)
(* A statement outside a transaction commits by itself.  The backfill is   *)
(* the first write: it opens the transaction, and with it takes the        *)
(* database's write lock, that commit() ends.  So the columns before it    *)
(* are added one by one, in view of every other opener, and the rest is    *)
(* added as one.  Of the tables only the missing columns matter.           *)
(***************************************************************************)
EXTENDS Naturals, Sequences

CONSTANTS Procs, Unlocked,
          Programs,         \* what each process opens, and how: [Procs -> Seq(Modes)]
          Early, Late,      \* tables in the order they are inspected, before
                            \* and after the backfill; a table is its columns
          PriceColumn,      \* parts.latest_price, one of the early columns
          Offers,           \* parts that have a price in price_log
          Rejected,         \* what quarantined_rows can hold of one (source, url)
          MaxFaults, MaxCount  \* bounds: crashes and failures; rejections counted

Columns(tables) == UNION {{tables[i][j] : j \in DOMAIN tables[i]} : i \in DOMAIN tables}
Modes   == {"run", "skip", "refuse"}

ASSUME SchemaAssumption ==
    /\ Unlocked \notin Procs
    /\ Programs \subseteq [Procs -> Seq(Modes)]
    /\ PriceColumn \in Columns(Early)
    /\ Early \in Seq(Seq(Columns(Early)))
    /\ Late \in Seq(Seq(Columns(Late))) \ {<<>>}
    /\ Columns(Early) \cap Columns(Late) = {}
    /\ Rejected \subseteq Seq(Nat)
    /\ MaxFaults \in Nat /\ MaxCount \in Nat

VARIABLES
    db,       \* committed: columns, parts without latest_price, quarantine, indexes
    lock,     \* who holds the write transaction
    draft,    \* what the holder's transaction has made of db
    remote,   \* the target is a remote libSQL database
    program,  \* modes of the opens still to come
    applied,  \* _REMOTE_SCHEMA_APPLIED of each process has the target
    step,     \* idle | inspect | alter | dedup | select | collapse | index | commit |
              \* open | failed | dead
    table,    \* the table being inspected, in Early \o Late
    found,    \* columns of it when it was inspected
    dups,     \* the rows that it has read and is to collapse
    alone,    \* history: no other process was migrating during this open
    spared,   \* history: ... or none that did was cut off, either
    torn,     \* history: the last migration went on after its transaction was lost
    outside,  \* history: a dedup has read its rows outside a transaction
    faults

schemaVars == <<db, lock, draft, remote, program, applied, step, table, found,
                dups, alone, spared, torn, outside, faults>>
opener     == <<step, table, found, dups>>

Tables == Early \o Late
Sum(s) == LET sum[i \in 0 .. Len(s)] == IF i = 0 THEN 0 ELSE sum[i - 1] + s[i]
          IN sum[Len(s)]

\* Old databases: any of the columns may be there (schema drift).  A column that
\* is new counts every row of quarantined_rows once.
SchemaInit ==
    /\ remote \in BOOLEAN
    /\ program \in Programs
    /\ \E cols \in SUBSET Columns(Tables), nulls \in SUBSET Offers, q \in Rejected :
          /\ PriceColumn \notin cols => nulls = Offers
          /\ db = [cols |-> cols, nulls |-> nulls, rejected |-> q,
                   unique |-> FALSE, count |-> Sum(q)]
    /\ draft = db /\ lock = Unlocked
    /\ applied = [p \in Procs |-> FALSE]
    /\ step = [p \in Procs |-> "idle"]
    /\ table = [p \in Procs |-> 1] /\ found = [p \in Procs |-> {}]
    /\ dups = [p \in Procs |-> <<>>]
    /\ alone = [p \in Procs |-> TRUE] /\ spared = [p \in Procs |-> TRUE]
    /\ torn = [p \in Procs |-> FALSE] /\ outside = FALSE
    /\ faults = 0

InProgress(p) ==
    step[p] \in {"inspect", "alter", "dedup", "select", "collapse", "index", "commit"}

-----------------------------------------------------------------------------
(* Who migrates: _remote_migration_mode() and the head of _apply_schema(). *)

\* Mutant: a target is done once anybody has connected to it.
MarksWhenSkipped(p) == applied' = [applied EXCEPT ![p] = TRUE]

\* "do NOT mark the target as applied": a later opt-in open still migrates.
Skips(p) == UNCHANGED applied

Decided(p, mode) ==
    IF ~remote THEN "inspect"
    ELSE IF applied[p] THEN "open"
    ELSE [run |-> "inspect", skip |-> "open", refuse |-> "failed"][mode]

Open(p) ==
    /\ step[p] = "idle" /\ program[p] # <<>>
    /\ LET next == Decided(p, Head(program[p]))
       IN /\ step' = [step EXCEPT ![p] = next]
          /\ IF next = "open" THEN Skips(p) ELSE UNCHANGED applied
          /\ IF next = "inspect"
             THEN /\ alone'  = [q \in Procs |-> IF q = p THEN \A r \in Procs : ~InProgress(r)
                                                ELSE alone[q] /\ ~InProgress(q)]
                  /\ spared' = [spared EXCEPT ![p] = TRUE]
                  /\ torn' = [torn EXCEPT ![p] = FALSE]
             ELSE UNCHANGED <<alone, spared, torn>>
    /\ table' = [table EXCEPT ![p] = 1]
    /\ UNCHANGED <<db, lock, draft, remote, program, found, dups, outside, faults>>

\* with get_db(...) as db: the block is left, or the exception is handled.
Leave(p) ==
    /\ step[p] \in {"open", "failed"}
    /\ step' = [step EXCEPT ![p] = "idle"]
    /\ program' = [program EXCEPT ![p] = Tail(@)]
    /\ found' = [found EXCEPT ![p] = {}] /\ dups' = [dups EXCEPT ![p] = <<>>]
    /\ UNCHANGED <<db, lock, draft, remote, applied, table, alone, spared, torn, outside,
                   faults>>

-----------------------------------------------------------------------------
(* _migrate().                                                             *)

Holds(p)   == lock = p
View(p)    == IF Holds(p) THEN draft ELSE db
MayWrite(p) == lock \in {Unlocked, p}

\* A write of p: into its transaction, or committed at once.
Write(p, new) ==
    IF Holds(p) THEN draft' = new /\ UNCHANGED db
                ELSE db' = new /\ draft' = new

\* An exception: the connection is closed, an open transaction is gone.
GiveUp(p) ==
    /\ step' = [step EXCEPT ![p] = "failed"]
    /\ lock' = IF Holds(p) THEN Unlocked ELSE lock
    /\ draft' = IF Holds(p) THEN db ELSE draft
    /\ UNCHANGED <<db, table, found, dups>>

\* PRAGMA table_info
Inspect(p) ==
    /\ step[p] = "inspect"
    /\ found' = [found EXCEPT ![p] = View(p).cols]
    /\ step' = [step EXCEPT ![p] = "alter"]
    /\ UNCHANGED <<db, lock, draft, table, dups>>

\* Mutant: the columns are not looked up first.
MissingAnyway(p) == {Tables[table[p]][j] : j \in DOMAIN Tables[table[p]]}

\* `if "..." not in cols`
Missing(p) == {c \in {Tables[table[p]][j] : j \in DOMAIN Tables[table[p]]} :
                   c \notin found[p]}

\* The columns of a table are added in their order.
NextMissing(p) ==
    LET t == Tables[table[p]]
    IN t[CHOOSE j \in DOMAIN t : /\ t[j] \in Missing(p)
                                 /\ \A i \in 1 .. j - 1 : t[i] \notin Missing(p)]

\* ALTER TABLE ... ADD COLUMN: refused when the column is there by now.
Alter(p) ==
    /\ step[p] = "alter" /\ Missing(p) # {} /\ MayWrite(p)
    /\ LET c == NextMissing(p)
       IN IF c \in View(p).cols
          THEN GiveUp(p)
          ELSE /\ Write(p, [View(p) EXCEPT !.cols = @ \cup {c}])
               /\ found' = [found EXCEPT ![p] = @ \cup {c}]
               /\ UNCHANGED <<lock, step, table, dups>>

NextTable(p) ==
    /\ step[p] = "alter" /\ Missing(p) = {} /\ table[p] # Len(Early)
    /\ table' = [table EXCEPT ![p] = @ + 1]
    /\ step' = [step EXCEPT ![p] = IF table[p] = Len(Tables) THEN "dedup" ELSE "inspect"]
    /\ found' = [found EXCEPT ![p] = {}]
    /\ UNCHANGED <<db, lock, draft, dups>>

\* A part gets its latest price from price_log; one without stays as it is.
NullsAfterBackfill(p) == db.nulls \ Offers

\* UPDATE parts ... WHERE latest_price IS NULL: the first write that is no DDL.
Backfill(p) ==
    /\ step[p] = "alter" /\ Missing(p) = {} /\ table[p] = Len(Early)
    /\ lock = Unlocked
    /\ lock' = p
    /\ draft' = [db EXCEPT !.nulls = NullsAfterBackfill(p)]
    /\ table' = [table EXCEPT ![p] = @ + 1]
    /\ step' = [step EXCEPT ![p] = "inspect"]
    /\ found' = [found EXCEPT ![p] = {}]
    /\ UNCHANGED <<db, dups>>

\* _migrate_quarantine_dedup(): are there rows that share (source, url)?
Dedup(p) ==
    /\ step[p] = "dedup"
    /\ step' = [step EXCEPT ![p] = IF Len(View(p).rejected) > 1 THEN "select" ELSE "index"]
    /\ UNCHANGED <<db, lock, draft, table, found, dups>>

\* It selects them.  Neither SELECT takes the lock: only as long as the transaction
\* of the backfill is open does nobody else write between them and the UPDATE.
SelectRows(p) ==
    /\ step[p] = "select"
    /\ dups' = [dups EXCEPT ![p] = View(p).rejected]
    /\ outside' = (outside \/ ~Holds(p))
    /\ step' = [step EXCEPT ![p] = "collapse"]
    /\ UNCHANGED <<db, lock, draft, table, found>>

\* Mutant: the row that is kept keeps its own count.
CollapsedToFirst(q) == IF q = <<>> THEN q ELSE <<Head(q)>>

\* One row is kept, with all the counts that were read.
Collapsed(q) == IF q = <<>> THEN q ELSE <<Sum(q)>>

\* The UPDATE of the row that is kept, which opens a transaction where there is
\* none, and the DELETE of the others in that transaction.
Collapse(p) ==
    /\ step[p] = "collapse" /\ MayWrite(p)
    /\ lock' = p
    /\ draft' = [View(p) EXCEPT !.rejected = Collapsed(dups[p])]
    /\ dups' = [dups EXCEPT ![p] = <<>>]
    /\ step' = [step EXCEPT ![p] = "index"]
    /\ UNCHANGED <<db, table, found>>

\* CREATE UNIQUE INDEX IF NOT EXISTS: refused when there are duplicates; the
\* index after it needs the columns of the quarantine, the last table.
Index(p) ==
    /\ step[p] = "index" /\ MayWrite(p)
    /\ IF \/ ~View(p).unique /\ Len(View(p).rejected) > 1
          \/ ~(Columns(<<Tables[Len(Tables)]>>) \subseteq View(p).cols)
       THEN GiveUp(p)
       ELSE /\ Write(p, [View(p) EXCEPT !.unique = TRUE])
            /\ step' = [step EXCEPT ![p] = "commit"]
            /\ UNCHANGED <<lock, table, found, dups>>

\* commit(), and only then _REMOTE_SCHEMA_APPLIED.
Commit(p) ==
    /\ step[p] = "commit"
    /\ db' = View(p)
    /\ lock' = IF Holds(p) THEN Unlocked ELSE lock
    /\ applied' = [applied EXCEPT ![p] = remote]
    /\ step' = [step EXCEPT ![p] = "open"]
    /\ UNCHANGED <<draft, remote, program, table, found, dups, alone, spared, torn, outside,
                   faults>>

-----------------------------------------------------------------------------
(* Faults.                                                                 *)

\* Cut off in the middle of an open: the others may be left with its columns.
CutOff(p) ==
    /\ faults < MaxFaults /\ InProgress(p)
    /\ faults' = faults + 1
    /\ spared' = [q \in Procs |-> spared[q] /\ (q = p \/ ~InProgress(q))]

\* A statement fails for good, or waits for the lock longer than it may.
OpenFails(p) ==
    /\ CutOff(p)
    /\ GiveUp(p)
    /\ UNCHANGED <<remote, program, applied, alone, torn, outside>>

Killed(p) ==
    /\ CutOff(p)
    /\ lock' = IF Holds(p) THEN Unlocked ELSE lock
    /\ draft' = IF Holds(p) THEN db ELSE draft
    /\ step' = [step EXCEPT ![p] = "dead"]
    /\ program' = [program EXCEPT ![p] = <<>>]
    /\ UNCHANGED <<db, table, found, dups, remote, applied, alone, torn, outside>>

\* The dedup's SELECTs are the only statements of a migration that the adapter
\* replays on a new connection: no `with` block is open, so they read nothing of
\* the transaction that the stream took with it, and hold no lock.
SelectLosesStream(p) ==
    /\ remote /\ step[p] \in {"dedup", "select"} /\ Holds(p)
    /\ CutOff(p)
    /\ lock' = Unlocked /\ draft' = db
    /\ torn' = [torn EXCEPT ![p] = TRUE]
    /\ UNCHANGED <<db, opener, remote, program, applied, alone, outside>>

-----------------------------------------------------------------------------

\* A run that has the database open rejects the product again: the row is
\* counted up where the index is there, and else the write fails and is printed.
Reject(p) ==
    /\ step[p] = "open" /\ lock = Unlocked /\ db.unique /\ db.rejected # <<>>
    /\ db.count < MaxCount
    /\ db' = [db EXCEPT !.rejected = <<Head(@) + 1>>, !.count = @ + 1]
    /\ draft' = db'
    /\ UNCHANGED <<lock, remote, program, applied, opener, alone, spared, torn, outside, faults>>

Migrate(p) ==
    /\ \/ /\ \/ Inspect(p) \/ Alter(p) \/ NextTable(p) \/ Backfill(p) \/ Dedup(p)
             \/ Collapse(p) \/ Index(p)
          /\ UNCHANGED outside
       \/ SelectRows(p)
    /\ UNCHANGED <<remote, program, applied, alone, spared, torn, faults>>

AllClosed == \A p \in Procs : step[p] \in {"idle", "dead"} /\ program[p] = <<>>

SchemaNext ==
    \/ \E p \in Procs : \/ Open(p) \/ Leave(p) \/ Migrate(p) \/ Commit(p) \/ Reject(p)
                        \/ OpenFails(p) \/ Killed(p) \/ SelectLosesStream(p)
    \/ AllClosed /\ UNCHANGED schemaVars

SchemaSpec == SchemaInit /\ [][SchemaNext]_schemaVars

-----------------------------------------------------------------------------
(* Properties.                                                             *)

Migrated == Columns(Tables) \subseteq db.cols /\ db.nulls = {} /\ db.unique

\* The open owns the schema, or found it applied by an earlier open of its process.
Owns(p) == step[p] = "open" /\ (~remote \/ applied[p])

\* Whoever was let in as an owner of the schema works on a migrated database:
\* every column, no priced part that the catalogue would not show, and the
\* dedup index, whatever crashed, raced or was skipped before.
OwnerFindsSchema == \A p \in Procs : Owns(p) /\ ~torn[p] => Migrated

\* The same without the exception of a stream lost at a SELECT of the dedup.
\* (Violated: README.)
OpenMeansMigrated == \A p \in Procs : Owns(p) => Migrated

\* Openers that race for a column do not shoot each other down: an open that is
\* refused its ALTER or its index leaves behind another that is still at it, or
\* a migrated database.  So an open on its own resumes from wherever an earlier one
\* was cut off.  (Not where a process was cut off during this very open.)
RaceHasAWinner ==
    [][\A p \in Procs :
          InProgress(p) /\ step'[p] = "failed" /\ faults' = faults /\ spared[p] /\ ~torn[p]
              => \/ Migrated
                 \/ ~alone[p] /\ \E q \in Procs \ {p} : InProgress(q)]_schemaVars

\* Every rejection stays counted, through a dedup that is cut off, redone by
\* another opener, or overlaps a run that counts one more; unless a dedup lost its
\* stream and read its rows again outside a transaction.
RejectionsAreKept == ~outside => db.count = Sum(db.rejected)

\* The same without that exception.  (Violated: README.)
EveryRejectionCounts == db.count = Sum(db.rejected)

=============================================================================
