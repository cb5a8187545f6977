------------------------------ MODULE SchemaProofs ------------------------------
(***************************************************************************)
(* Theorems about SchemaMigrate, for any number of processes, of opens, of  *)
(* tables and columns and of faults.                                       *)
(***************************************************************************)
EXTENDS SchemaMigrate, Counting, SequenceTheorems, TLAPS

-----------------------------------------------------------------------------
(* Sums.                                                                   *)

\* What Sum computes.
LEMMA SumIs ==
    ASSUME NEW s, Len(s) \in Nat
    PROVE  \E g : /\ Sum(s) = g[Len(s)]
                  /\ g[0] = 0
                  /\ \A i \in 1 .. Len(s) : g[i] = g[i - 1] + s[i]
<1> DEFINE g == CHOOSE h : IsSum(s, h, Len(s))
<1>1. IsSum(s, g, Len(s))
  BY SumsExist
<1>2. Sum(s) = g[Len(s)]
  BY DEF Sum, IsSum
<1> HIDE DEF g
<1>3. \A i \in 0 .. Len(s) : g[i] = IF i = 0 THEN 0 ELSE g[i - 1] + s[i]
  BY <1>1, SumValues
<1>4. g[0] = 0
  BY <1>3
<1>5. \A i \in 1 .. Len(s) : g[i] = g[i - 1] + s[i]
  BY <1>3
<1> QED
  BY <1>2, <1>4, <1>5

\* The count of one row, and of any rows.
LEMMA SumOfOne == ASSUME NEW x \in Nat PROVE Sum(<<x>>) = x
<1>1. PICK g : Sum(<<x>>) = g[1] /\ g[0] = 0 /\ g[1] = g[0] + x
  <2>1. Len(<<x>>) = 1 /\ <<x>>[1] = x
    OBVIOUS
  <2> QED
    BY <2>1, SumIs
<1> QED
  BY <1>1

\* The counts of any rows add up to a number.
LEMMA SumIsNat == ASSUME NEW s \in Seq(Nat) PROVE Sum(s) \in Nat
<1>1. Len(s) \in Nat /\ \A i \in 1 .. Len(s) : s[i] \in Nat
  OBVIOUS
<1>2. PICK g : /\ Sum(s) = g[Len(s)] /\ g[0] = 0
               /\ \A i \in 1 .. Len(s) : g[i] = g[i - 1] + s[i]
  BY <1>1, SumIs
<1> DEFINE T == {i \in 0 .. Len(s) : g[i] \notin Nat}
<1>3. T = {}
  <2> SUFFICES ASSUME T # {} PROVE FALSE
    OBVIOUS
  <2>1. T \subseteq Nat
    OBVIOUS
  <2>2. PICK i \in T : \A k \in T : ~(k < i)
    BY <2>1, LeastOf
  <2>3. i # 0
    BY <1>2
  <2>4. i \in 1 .. Len(s) /\ i - 1 \in 0 .. Len(s) /\ i - 1 < i
    BY <1>1, <2>3
  <2>5. g[i - 1] \in Nat
    BY <2>2, <2>4
  <2>6. g[i] \in Nat
    <3>1. g[i] = g[i - 1] + s[i] /\ s[i] \in Nat
      BY <1>1, <1>2, <2>4
    <3> QED
      BY <2>5, <3>1
  <2> QED
    BY <2>6
<1>4. Len(s) \in 0 .. Len(s)
  BY <1>1
<1> QED
  BY <1>2, <1>3, <1>4

-----------------------------------------------------------------------------
(* The inductive invariant.                                                *)

LastEarly    == Len(Early)
LastTable    == Len(Tables)
ColumnsOf(i) == {Tables[i][j] : j \in DOMAIN Tables[i]}

Steps    == {"idle", "inspect", "alter", "dedup", "select", "collapse", "index", "commit",
             "open", "failed", "dead"}
Contents == [cols : SUBSET Columns(Tables), nulls : SUBSET Offers, rejected : Seq(Nat),
             unique : BOOLEAN, count : Nat]

SchemaTyped ==
    /\ db \in Contents /\ draft \in Contents
    /\ lock \in Procs \cup {Unlocked}
    /\ remote \in BOOLEAN
    /\ program \in [Procs -> Seq(Modes)]
    /\ applied \in [Procs -> BOOLEAN]
    /\ step \in [Procs -> Steps]
    /\ table \in [Procs -> 1 .. LastTable + 1]
    /\ found \in [Procs -> SUBSET Columns(Tables)]
    /\ dups \in [Procs -> Seq(Nat)]
    /\ alone \in [Procs -> BOOLEAN] /\ spared \in [Procs -> BOOLEAN]
    /\ torn \in [Procs -> BOOLEAN]
    /\ faults \in Nat

\* Under the unique index there is one row at most.
UniqueRows(d) == d.unique => Len(d.rejected) <= 1
RowsInv       == UniqueRows(db) /\ UniqueRows(draft)

\* e is d with some of the migration done.
Later(d, e) == d.cols \subseteq e.cols /\ e.nulls \subseteq d.nulls /\ (d.unique => e.unique)

\* A transaction builds on the database, and nobody but its holder changes
\* either; it begins with the backfill, and ends before only when it is torn.
LockInv ==
    /\ Later(db, draft)
    /\ lock = Unlocked => draft = db
    /\ \A p \in Procs : lock = p => InProgress(p) /\ table[p] > LastEarly
    /\ \A p \in Procs : InProgress(p) /\ ~torn[p] /\ table[p] > LastEarly => lock = p

\* What a process has done so far, in what it sees of the database.
DoneSoFar(p) ==
    /\ \A i \in 1 .. LastTable : i < table[p] => ColumnsOf(i) \subseteq View(p).cols
    /\ table[p] > LastEarly => View(p).nulls = {}
    /\ step[p] \in {"index", "commit"} => Len(View(p).rejected) <= 1

Progress(p) ==
    /\ ~applied[p]
    /\ step[p] \in {"inspect", "alter"} <=> table[p] <= LastTable
    /\ torn[p] => table[p] > LastTable
    /\ ~torn[p] => DoneSoFar(p)
    /\ step[p] = "alter" => found[p] \subseteq View(p).cols
    /\ step[p] = "alter" /\ table[p] > LastEarly => found[p] = View(p).cols
    /\ step[p] = "commit" => View(p).unique
    /\ torn[p] /\ Holds(p) => draft.cols = db.cols
ProgressInv == \A p \in Procs : InProgress(p) => Progress(p)

\* A migration that was not torn is there to stay.
OwnersInv ==
    \A p \in Procs :
        /\ applied[p] => remote
        /\ (applied[p] \/ (step[p] = "open" /\ ~remote)) /\ ~torn[p] => Migrated

\* Among the openers that have not begun their transaction: whoever read a list
\* of columns that is old by now is refused its next ALTER ...
Behind(p) == step[p] = "alter" /\ table[p] <= LastEarly /\ found[p] # db.cols
RefusalInv == \A p \in Procs : Behind(p) /\ Missing(p) # {} => NextMissing(p) \in db.cols

\* ... and one is not behind, or has migrated the database.
Leads(q)  == InProgress(q) /\ ~torn[q] /\ ~Behind(q)
AloneInv  == \A p, q \in Procs : InProgress(p) /\ InProgress(q) /\ alone[p] => q = p
LeaderInv ==
    \A p \in Procs : Behind(p) /\ spared[p] =>
        ~alone[p] /\ (Migrated \/ \E q \in Procs \ {p} : Leads(q))

SchemaInv == /\ SchemaTyped /\ RowsInv /\ LockInv /\ ProgressInv /\ OwnersInv
             /\ RefusalInv /\ AloneInv /\ LeaderInv

\* As long as no dedup has read outside a transaction, the rows add up to what
\* was counted, and whoever is to collapse some still holds the lock it read
\* them under: they are the rows there are.
AddsUp(d) == d.count = Sum(d.rejected)
SumInv ==
    ~outside =>
        /\ AddsUp(db) /\ AddsUp(draft)
        /\ \A p \in Procs : step[p] = "collapse" => lock = p /\ dups[p] = draft.rejected

-----------------------------------------------------------------------------
(* Tables and columns.                                                     *)

\* The tables of the backfill are neither none nor all; a table is a sequence.
LEMMA TablesAre ==
    /\ LastEarly \in Nat \ {0} /\ LastTable \in Nat /\ LastEarly < LastTable
    /\ DOMAIN Tables = 1 .. LastTable
    /\ \A i \in 1 .. LastTable : Len(Tables[i]) \in Nat /\ DOMAIN Tables[i] = 1 .. Len(Tables[i])
<1> DEFINE S == Columns(Early) \cup Columns(Late)
<1>1. Early \in Seq(Seq(S)) /\ Late \in Seq(Seq(S)) /\ Late # <<>>
  <2>1. Columns(Early) \subseteq S /\ Columns(Late) \subseteq S
    OBVIOUS
  <2> HIDE DEF S
  <2>2. Early \in Seq(Seq(Columns(Early))) /\ Late \in Seq(Seq(Columns(Late))) /\ Late # <<>>
    BY SchemaAssumption
  <2>3. ASSUME NEW A, NEW t \in Seq(Seq(A)), A \subseteq S PROVE t \in Seq(Seq(S))
    <3>1. \A u \in Seq(A) : u \in Seq(S)
      BY <2>3
    <3> QED
      BY <3>1
  <2> QED
    BY <2>1, <2>2, <2>3
<1> HIDE DEF S
<1>2. Early # <<>>
  BY SchemaAssumption DEF Columns
<1>3. Tables \in Seq(Seq(S)) /\ LastTable = LastEarly + Len(Late)
  BY <1>1 DEF Tables, LastTable, LastEarly
<1>4. Len(Early) # 0 /\ Len(Late) # 0
  BY <1>1, <1>2
<1>5. LastEarly \in Nat \ {0} /\ Len(Late) \in Nat \ {0} /\ LastTable \in Nat
  BY <1>1, <1>3, <1>4 DEF LastEarly
<1>6. DOMAIN Tables = 1 .. LastTable /\ \A i \in 1 .. LastTable : Tables[i] \in Seq(S)
  BY <1>3 DEF LastTable
<1>7. \A i \in 1 .. LastTable : Len(Tables[i]) \in Nat /\ DOMAIN Tables[i] = 1 .. Len(Tables[i])
  BY <1>6
<1> QED
  BY <1>3, <1>5, <1>6, <1>7

\* Columns by table; those of the last table are what the index needs.
LEMMA ColumnsAre ==
    /\ Columns(Tables) = UNION {ColumnsOf(i) : i \in 1 .. LastTable}
    /\ \A i \in 1 .. LastTable : ColumnsOf(i) \subseteq Columns(Tables)
    /\ Columns(<<Tables[Len(Tables)]>>) = ColumnsOf(LastTable)
<1>1. Columns(Tables) = UNION {ColumnsOf(i) : i \in 1 .. LastTable}
  BY TablesAre DEF Columns, ColumnsOf
<1>2. Columns(<<Tables[Len(Tables)]>>) = ColumnsOf(LastTable)
  <2> DEFINE t == Tables[LastTable]
  <2>1. DOMAIN <<t>> = {1} /\ <<t>>[1] = t
    OBVIOUS
  <2>2. Columns(<<t>>) = {t[j] : j \in DOMAIN t}
    BY <2>1 DEF Columns
  <2> QED
    BY <2>2 DEF ColumnsOf, LastTable
<1> QED
  BY <1>1, <1>2

\* What an opener thinks is missing: the columns it did not see listed.
LEMMA MissingIs ==
    ASSUME NEW p \in Procs
    PROVE  Missing(p) = {c \in ColumnsOf(table[p]) : c \notin found[p]}
  BY DEF Missing, ColumnsOf

\* The column that is added next is the first of the table that is missing.
LEMMA NextMissingIs ==
    ASSUME NEW p \in Procs, table[p] \in 1 .. LastTable, Missing(p) # {}
    PROVE  \E j \in 1 .. Len(Tables[table[p]]) :
              /\ NextMissing(p) = Tables[table[p]][j]
              /\ NextMissing(p) \in Missing(p)
              /\ \A i \in 1 .. j - 1 : Tables[table[p]][i] \notin Missing(p)
<1> DEFINE t == Tables[table[p]]
           M == Missing(p)
<1>1. Len(t) \in Nat /\ DOMAIN t = 1 .. Len(t)
  BY TablesAre
<1>2. M \subseteq {t[j] : j \in DOMAIN t}
  BY DEF Missing
<1> DEFINE First(j) == t[j] \in M /\ \A i \in 1 .. j - 1 : t[i] \notin M
<1>3. NextMissing(p) = t[CHOOSE j \in DOMAIN t : First(j)]
  BY DEF NextMissing
<1>4. M # {}
  OBVIOUS
<1> HIDE DEF M, t
<1> DEFINE T == {j \in 1 .. Len(t) : t[j] \in M}
<1>5. T \subseteq Nat /\ T # {}
  BY <1>1, <1>2, <1>4
<1>6. PICK j \in T : \A k \in T : ~(k < j)
  BY <1>5, LeastOf
<1>7. \A i \in 1 .. j - 1 : i \in 1 .. Len(t) /\ i < j
  BY <1>1, <1>6
<1>8. j \in DOMAIN t /\ First(j)
  BY <1>1, <1>6, <1>7
<1> DEFINE k == CHOOSE i \in DOMAIN t : First(i)
<1>9. k \in DOMAIN t /\ First(k)
  BY <1>8
<1> HIDE DEF k
<1>10. k \in 1 .. Len(t) /\ NextMissing(p) = t[k] /\ t[k] \in M /\ \A i \in 1 .. k - 1 : t[i] \notin M
  BY <1>1, <1>3, <1>9 DEF k
<1> QED
  BY <1>10 DEF t, M

-----------------------------------------------------------------------------
(* What a step of one process leaves of the others.                        *)

\* p's step is p's own: of the others it changes no place, and neither their
\* transaction nor the database they see but by migrating more of it.
Apart(p) ==
    \A q \in Procs \ {p} :
        /\ step'[q] = step[q] /\ table'[q] = table[q] /\ found'[q] = found[q]
        /\ torn'[q] = torn[q] /\ applied'[q] = applied[q]
Kept(p) ==
    /\ Later(db, db')
    /\ \A q \in Procs \ {p} : /\ lock' = q <=> lock = q
                              /\ lock = q => db' = db /\ draft' = draft

\* A step of p begins and ends the migration of no other.
LEMMA OthersInProgress ==
    ASSUME NEW p \in Procs, Apart(p)
    PROVE  \A q \in Procs \ {p} : InProgress(q)' <=> InProgress(q)
  BY DEF Apart, InProgress

\* What another process sees of the database only grows.
LEMMA ViewsGrow ==
    ASSUME NEW p \in Procs, NEW q \in Procs \ {p}, Kept(p)
    PROVE  Later(View(q), View(q)')
<1>1. CASE lock = q
  <2>1. View(q) = draft /\ View(q)' = draft
    BY <1>1 DEF Kept, View, Holds
  <2> QED
    BY <2>1 DEF Later
<1>2. CASE lock # q
  <2>1. View(q) = db /\ View(q)' = db' /\ Later(db, db')
    BY <1>2 DEF Kept, View, Holds
  <2> QED
    BY <2>1
<1> QED
  BY <1>1, <1>2

\* What another process has done stays done.
LEMMA OthersProgress ==
    ASSUME SchemaInv, NEW p \in Procs, Apart(p), Kept(p),
           NEW q \in Procs \ {p}, InProgress(q)'
    PROVE  Progress(q)'
<1>1. InProgress(q) /\ Progress(q)
  BY OthersInProgress DEF SchemaInv, ProgressInv
<1>2. /\ step'[q] = step[q] /\ table'[q] = table[q] /\ found'[q] = found[q]
      /\ torn'[q] = torn[q] /\ applied'[q] = applied[q]
  BY DEF Apart
<1>3. Later(View(q), View(q)')
  BY ViewsGrow
<1>4. lock = q => /\ db' = db /\ draft' = draft /\ lock' = q
                  /\ View(q)' = draft /\ View(q) = draft
  BY DEF Kept, View, Holds
<1>5. Holds(q)' => lock = q
  BY DEF Kept, Holds
<1>6. ~torn[q] /\ table[q] > LastEarly => lock = q
  BY <1>1 DEF SchemaInv, LockInv
<1>7. table[q] \in Nat /\ LastTable \in Nat /\ LastEarly \in Nat /\ LastEarly < LastTable
  BY TablesAre DEF SchemaInv, SchemaTyped
<1>8. torn[q] => table[q] > LastTable
  BY <1>1 DEF Progress
<1>9. step[q] \in {"inspect", "alter"} <=> table[q] <= LastTable
  BY <1>1 DEF Progress
<1>10. ~torn[q] => DoneSoFar(q)'
  <2> SUFFICES ASSUME ~torn[q] PROVE DoneSoFar(q)'
    OBVIOUS
  <2>1. DoneSoFar(q)
    BY <1>1 DEF Progress
  <2>2. step[q] \in {"index", "commit"} => View(q)' = View(q)
    BY <1>4, <1>6, <1>7, <1>9
  <2>3. \A i \in 1 .. LastTable : i < table[q] => ColumnsOf(i) \subseteq View(q)'.cols
    BY <2>1, <1>3 DEF DoneSoFar, Later
  <2>4. table[q] > LastEarly => View(q)'.nulls = {}
    BY <2>1, <1>3 DEF DoneSoFar, Later
  <2>5. step[q] \in {"index", "commit"} => Len(View(q)'.rejected) <= 1
    BY <2>1, <2>2 DEF DoneSoFar
  <2> QED
    BY <2>3, <2>4, <2>5, <1>2 DEF DoneSoFar
<1>11. step[q] = "alter" => found[q] \subseteq View(q)'.cols
  BY <1>1, <1>3 DEF Progress, Later
<1>12. step[q] = "alter" /\ table[q] > LastEarly => found[q] = View(q)'.cols
  <2> SUFFICES ASSUME step[q] = "alter", table[q] > LastEarly PROVE found[q] = View(q)'.cols
    OBVIOUS
  <2>1. lock = q
    BY <1>6, <1>7, <1>8, <1>9
  <2> QED
    BY <2>1, <1>1, <1>4 DEF Progress
<1>13. step[q] = "commit" => View(q)'.unique
  BY <1>1, <1>3 DEF Progress, Later
<1>14. torn[q] /\ Holds(q)' => draft'.cols = db'.cols
  BY <1>1, <1>4, <1>5 DEF Progress, Holds
<1> QED
  BY <1>1, <1>2, <1>7, <1>8, <1>9, <1>10, <1>11, <1>12, <1>13, <1>14 DEF Progress

\* The step's own half of LockInv, ProgressInv and OwnersInv is enough.
LEMMA LockKept ==
    ASSUME SchemaInv, NEW p \in Procs, Apart(p), Kept(p),
           Later(db', draft'), lock' = Unlocked => draft' = db',
           lock' = p => InProgress(p)' /\ table'[p] > LastEarly,
           InProgress(p)' /\ ~torn'[p] /\ table'[p] > LastEarly => lock' = p
    PROVE  LockInv'
<1>1. ASSUME NEW q \in Procs \ {p}
      PROVE  /\ lock' = q => InProgress(q)' /\ table'[q] > LastEarly
             /\ InProgress(q)' /\ ~torn'[q] /\ table'[q] > LastEarly => lock' = q
  <2>1. /\ lock = q => InProgress(q) /\ table[q] > LastEarly
        /\ InProgress(q) /\ ~torn[q] /\ table[q] > LastEarly => lock = q
    BY DEF SchemaInv, LockInv
  <2>2. table'[q] = table[q] /\ torn'[q] = torn[q] /\ (lock' = q <=> lock = q)
    BY DEF Apart, Kept
  <2>3. InProgress(q)' <=> InProgress(q)
    BY OthersInProgress
  <2> QED
    BY <2>1, <2>2, <2>3
<1> QED
  BY <1>1 DEF LockInv

\* It is enough to look at the progress of the process that moves.
LEMMA ProgressKept ==
    ASSUME SchemaInv, NEW p \in Procs, Apart(p), Kept(p), InProgress(p)' => Progress(p)'
    PROVE  ProgressInv'
  BY OthersProgress DEF ProgressInv

\* A migrated database stays migrated.
LEMMA MigratedStays == ASSUME Later(db, db'), Migrated PROVE Migrated'
  BY DEF Later, Migrated

\* Who has the database open as its owner, by a migration that was not torn.
Settled(p) == (applied[p] \/ (step[p] = "open" /\ ~remote)) /\ ~torn[p]

\* Owners keep a migrated database, new ones included.
LEMMA OwnersKept ==
    ASSUME SchemaInv, NEW p \in Procs, Apart(p), Kept(p), remote' = remote,
           Settled(p)' => Settled(p) \/ Migrated', applied'[p] => remote
    PROVE  OwnersInv'
<1>1. ASSUME NEW q \in Procs PROVE Settled(q) => Migrated
  BY DEF Settled, SchemaInv, OwnersInv
<1>2. Migrated => Migrated'
  BY MigratedStays DEF Kept
<1>3. ASSUME NEW q \in Procs \ {p} PROVE (Settled(q)' => Migrated') /\ (applied'[q] => remote')
  <2>1. Settled(q)' <=> Settled(q)
    BY DEF Settled, Apart
  <2>2. applied'[q] => remote'
    BY Zenon DEF Apart, SchemaInv, OwnersInv
  <2> QED
    BY <1>1, <1>2, <2>1, <2>2
<1>4. (Settled(p)' => Migrated') /\ (applied'[p] => remote')
  BY <1>1, <1>2
<1>5. \A q \in Procs : (Settled(q)' => Migrated') /\ (applied'[q] => remote')
  BY <1>3, <1>4
<1> QED
  BY <1>5, Zenon DEF OwnersInv, Settled

-----------------------------------------------------------------------------
(* The race for the columns before the backfill.                           *)

\* A step that adds no column for all to see keeps the race as it stands, if
\* whoever leads still leads after it, or has won, or was cut off.
LEMMA RaceKept ==
    ASSUME SchemaInv, NEW p \in Procs, Apart(p), Kept(p),
           db'.cols = db.cols, ~Behind(p)',
           \A r \in Procs \ {p} : (alone'[r] => alone[r]) /\ (spared'[r] => spared[r]),
           Leads(p) => \/ Leads(p)'
                       \/ Migrated'
                       \/ \A r \in Procs \ {p} : InProgress(r) => ~spared'[r]
    PROVE  RefusalInv' /\ LeaderInv'
<1>1. ASSUME NEW r \in Procs \ {p}
      PROVE  /\ Behind(r)' <=> Behind(r)
             /\ Leads(r)' <=> Leads(r)
             /\ Missing(r)' = Missing(r) /\ NextMissing(r)' = NextMissing(r)
  <2>1. /\ step'[r] = step[r] /\ table'[r] = table[r] /\ found'[r] = found[r]
        /\ torn'[r] = torn[r]
    BY DEF Apart
  <2>2. Behind(r)' <=> Behind(r)
    BY <2>1 DEF Behind
  <2>3. Missing(r)' = Missing(r)
    BY <2>1 DEF Missing
  <2>4. NextMissing(r)' = NextMissing(r)
    BY <2>1, <2>3 DEF NextMissing
  <2>5. InProgress(r)' <=> InProgress(r)
    BY <2>1 DEF InProgress
  <2> QED
    BY <2>1, <2>2, <2>3, <2>4, <2>5 DEF Leads
<1>2. RefusalInv'
  <2> SUFFICES ASSUME NEW r \in Procs, Behind(r)', Missing(r)' # {}
               PROVE  NextMissing(r)' \in db'.cols
    BY DEF RefusalInv
  <2>1. r \in Procs \ {p}
    OBVIOUS
  <2>2. Behind(r) /\ Missing(r) # {} /\ NextMissing(r)' = NextMissing(r)
    BY <1>1, <2>1
  <2> QED
    BY <2>2 DEF SchemaInv, RefusalInv
<1>3. LeaderInv'
  <2> SUFFICES ASSUME NEW r \in Procs, Behind(r)', spared'[r]
               PROVE  ~alone'[r] /\ (Migrated' \/ \E q \in Procs \ {r} : Leads(q)')
    BY DEF LeaderInv
  <2>1. r \in Procs \ {p}
    OBVIOUS
  <2>2. Behind(r) /\ spared[r] /\ (alone'[r] => alone[r])
    BY <1>1, <2>1
  <2>3. ~alone[r] /\ (Migrated \/ \E q \in Procs \ {r} : Leads(q))
    BY <2>2 DEF SchemaInv, LeaderInv
  <2>4. Migrated => Migrated'
    BY MigratedStays DEF Kept
  <2>5. InProgress(r)
    BY <2>2 DEF Behind, InProgress
  <2>6. ASSUME NEW q \in Procs \ {r}, Leads(q)
        PROVE  Migrated' \/ Leads(q)'
    <3>1. CASE q = p
      BY <2>1, <2>5, <2>6, <3>1
    <3>2. CASE q # p
      BY <1>1, <2>6, <3>2
    <3> QED
      BY <3>1, <3>2
  <2> QED
    BY <2>2, <2>3, <2>4, <2>6
<1> QED
  BY <1>2, <1>3

\* Fewer migrations and fewer of them alone keep AloneInv.
LEMMA AloneKept ==
    ASSUME SchemaInv, \A r \in Procs : (alone'[r] => alone[r]) /\ (InProgress(r)' => InProgress(r))
    PROVE  AloneInv'
  BY DEF SchemaInv, AloneInv

\* Openers that add to the same columns stand at the same one: all before it are
\* there, it is not, and so it is the first missing one of each.
LEMMA SameColumn ==
    ASSUME SchemaInv, NEW p \in Procs, NEW r \in Procs, Missing(p) # {}, Missing(r) # {},
           step[p] = "alter", step[r] = "alter", table[p] <= LastEarly, table[r] <= LastEarly,
           lock = Unlocked, NextMissing(p) \notin db.cols, found[r] = db.cols
    PROVE  NextMissing(r) = NextMissing(p)
<1>1. /\ table[p] \in 1 .. LastTable /\ table[r] \in 1 .. LastTable
      /\ InProgress(p) /\ InProgress(r)
  BY TablesAre DEF SchemaInv, SchemaTyped, InProgress
<1>2. Unlocked \notin Procs
  BY SchemaAssumption
<1>3. View(p) = db /\ View(r) = db
  BY <1>2 DEF View, Holds
<1>4. Progress(p) /\ Progress(r)
  BY <1>1 DEF SchemaInv, ProgressInv
<1>5. ~torn[p] /\ ~torn[r]
  BY <1>1, <1>4, TablesAre DEF Progress
<1>6. \A i \in 1 .. LastTable : (i < table[p] \/ i < table[r]) => ColumnsOf(i) \subseteq db.cols
  BY <1>3, <1>4, <1>5 DEF Progress, DoneSoFar
<1>7. found[p] \subseteq db.cols
  BY <1>3, <1>4 DEF Progress
<1>8. PICK j \in 1 .. Len(Tables[table[p]]) :
          /\ NextMissing(p) = Tables[table[p]][j]
          /\ NextMissing(p) \in Missing(p)
          /\ \A i \in 1 .. j - 1 : Tables[table[p]][i] \notin Missing(p)
  BY <1>1, NextMissingIs
<1>9. PICK k \in 1 .. Len(Tables[table[r]]) :
          /\ NextMissing(r) = Tables[table[r]][k]
          /\ NextMissing(r) \in Missing(r)
          /\ \A i \in 1 .. k - 1 : Tables[table[r]][i] \notin Missing(r)
  BY <1>1, NextMissingIs
<1>10. NextMissing(p) \in ColumnsOf(table[p]) /\ NextMissing(r) \in ColumnsOf(table[r])
  BY <1>8, <1>9, MissingIs
<1>11. NextMissing(r) \notin db.cols
  BY <1>9, MissingIs
<1>12. table[p] = table[r]
  <2>1. ~(table[p] < table[r]) /\ ~(table[r] < table[p])
    BY <1>1, <1>6, <1>10, <1>11
  <2> QED
    BY <2>1, <1>1
<1> DEFINE t == Tables[table[p]]
<1>13. Len(t) \in Nat /\ \A i \in 1 .. Len(t) : t[i] \in ColumnsOf(table[p])
  BY <1>1, TablesAre DEF ColumnsOf
<1> HIDE DEF t
<1>14. /\ j \in 1 .. Len(t) /\ k \in 1 .. Len(t)
       /\ NextMissing(p) = t[j] /\ NextMissing(r) = t[k]
       /\ \A i \in 1 .. j - 1 : t[i] \notin Missing(p)
       /\ \A i \in 1 .. k - 1 : t[i] \notin Missing(r)
  BY <1>8, <1>9, <1>12 DEF t
<1>15. t[j] \in Missing(r)
  BY <1>10, <1>12, <1>14, MissingIs
<1>16. ~(j < k)
  BY <1>13, <1>14, <1>15
<1>17. t[k] \in Missing(p)
  BY <1>7, <1>10, <1>11, <1>12, <1>14, MissingIs
<1>18. ~(k < j)
  BY <1>13, <1>14, <1>17
<1>19. j = k
  BY <1>13, <1>14, <1>16, <1>18
<1> QED
  BY <1>14, <1>19

-----------------------------------------------------------------------------
(* The steps.                                                              *)

\* Databases as older versions left them satisfy the invariant.
LEMMA SchemaInitInv == SchemaInit => SchemaInv
<1> SUFFICES ASSUME SchemaInit PROVE SchemaInv
  OBVIOUS
<1>0. Unlocked \notin Procs /\ Rejected \subseteq Seq(Nat)
  BY SchemaAssumption
<1>1. PICK cols \in SUBSET Columns(Tables), nulls \in SUBSET Offers, q \in Rejected :
          db = [cols |-> cols, nulls |-> nulls, rejected |-> q, unique |-> FALSE, count |-> Sum(q)]
  BY DEF SchemaInit
<1>2. q \in Seq(Nat) /\ Sum(q) \in Nat
  BY <1>0, SumIsNat
<1>3. db \in Contents /\ draft \in Contents /\ UniqueRows(db) /\ UniqueRows(draft)
  BY <1>1, <1>2 DEF SchemaInit, Contents, UniqueRows
<1>4. 1 \in 1 .. LastTable + 1
  BY TablesAre
<1>5. SchemaTyped
  <2>1. program \in [Procs -> Seq(Modes)]
    BY SchemaAssumption DEF SchemaInit
  <2>2. applied \in [Procs -> BOOLEAN] /\ alone \in [Procs -> BOOLEAN]
        /\ spared \in [Procs -> BOOLEAN] /\ torn \in [Procs -> BOOLEAN] /\ remote \in BOOLEAN
    BY Zenon DEF SchemaInit
  <2>3. step \in [Procs -> Steps] /\ table \in [Procs -> 1 .. LastTable + 1]
        /\ found \in [Procs -> SUBSET Columns(Tables)] /\ dups \in [Procs -> Seq(Nat)]
    BY <1>4 DEF SchemaInit, Steps
  <2>4. lock \in Procs \cup {Unlocked} /\ faults \in Nat
    BY DEF SchemaInit
  <2> QED
    BY <1>3, <2>1, <2>2, <2>3, <2>4 DEF SchemaTyped
<1>6. \A p \in Procs : step[p] = "idle" /\ ~applied[p]
  BY DEF SchemaInit
<1>7. \A p \in Procs : ~InProgress(p) /\ ~Behind(p) /\ lock # p
  BY <1>0, <1>6 DEF InProgress, Behind, SchemaInit
<1>8. LockInv /\ ProgressInv /\ RefusalInv /\ AloneInv /\ LeaderInv
  BY <1>7 DEF LockInv, ProgressInv, RefusalInv, AloneInv, LeaderInv, Later, SchemaInit
<1>9. OwnersInv
  BY <1>6 DEF OwnersInv
<1> QED
  BY <1>3, <1>5, <1>8, <1>9 DEF SchemaInv, RowsInv

\* An opener that gives up or is killed leaves its open, and its transaction is
\* gone.  Only a fault makes the leader of a race do so.
LEMMA ReleaseStep ==
    ASSUME SchemaInv, NEW p \in Procs, InProgress(p), NEW x \in {"failed", "dead"},
           step' = [step EXCEPT ![p] = x],
           lock' = IF Holds(p) THEN Unlocked ELSE lock,
           draft' = IF Holds(p) THEN db ELSE draft,
           UNCHANGED <<db, table, found, dups, remote, applied, alone, torn>>,
           program' \in [Procs -> Seq(Modes)], faults' \in Nat,
           spared' \in [Procs -> BOOLEAN], \A r \in Procs : spared'[r] => spared[r],
           Leads(p) => \A r \in Procs \ {p} : InProgress(r) => ~spared'[r]
    PROVE  SchemaInv'
<1>0. Unlocked \notin Procs
  BY SchemaAssumption
<1>1. /\ db \in Contents /\ draft \in Contents /\ lock \in Procs \cup {Unlocked}
      /\ step \in [Procs -> Steps]
  BY DEF SchemaInv, SchemaTyped
<1>2. step'[p] = x /\ \A q \in Procs \ {p} : step'[q] = step[q]
  BY <1>1
<1>3. SchemaTyped'
  <2>1. step' \in [Procs -> Steps] /\ lock' \in Procs \cup {Unlocked} /\ draft' \in Contents
    BY <1>1 DEF Steps
  <2>2. /\ db' \in Contents /\ table' \in [Procs -> 1 .. LastTable + 1]
        /\ found' \in [Procs -> SUBSET Columns(Tables)] /\ dups' \in [Procs -> Seq(Nat)]
    BY DEF SchemaInv, SchemaTyped
  <2>3. /\ remote' \in BOOLEAN /\ applied' \in [Procs -> BOOLEAN]
        /\ alone' \in [Procs -> BOOLEAN] /\ torn' \in [Procs -> BOOLEAN]
    BY Zenon DEF SchemaInv, SchemaTyped
  <2> QED
    BY <2>1, <2>2, <2>3 DEF SchemaTyped
<1>4. Apart(p)
  BY <1>2 DEF Apart
<1>5. Kept(p)
  <2>1. Later(db, db')
    BY DEF Later
  <2> QED
    BY <1>0, <2>1 DEF Kept, Holds
<1>6. ~InProgress(p)' /\ ~Behind(p)'
  BY <1>2 DEF InProgress, Behind
<1>7. RowsInv'
  BY DEF SchemaInv, RowsInv, UniqueRows
<1>8. LockInv'
  <2>1. Later(db', draft') /\ (lock' = Unlocked => draft' = db')
    BY DEF SchemaInv, LockInv, Later, Holds
  <2>2. lock' # p
    BY <1>0 DEF Holds
  <2> QED
    BY <1>4, <1>5, <1>6, <2>1, <2>2, LockKept
<1>9. ProgressInv'
  BY <1>4, <1>5, <1>6, ProgressKept
<1>10. OwnersInv'
  <2>1. Settled(p)' => Settled(p)
    BY <1>2 DEF Settled
  <2>2. applied'[p] => remote
    BY Zenon DEF SchemaInv, OwnersInv
  <2> QED
    BY <1>4, <1>5, <2>1, <2>2, OwnersKept
<1>11. \A r \in Procs : (alone'[r] => alone[r]) /\ (InProgress(r)' => InProgress(r))
  BY <1>4, OthersInProgress
<1>12. RefusalInv' /\ LeaderInv'
  BY <1>4, <1>5, <1>6, <1>11, RaceKept
<1>13. AloneInv'
  BY <1>11, AloneKept
<1> QED
  BY <1>3, <1>7, <1>8, <1>9, <1>10, <1>12, <1>13 DEF SchemaInv

\* What a leader never meets: the refusal of an ALTER or of the index.
LEMMA LeaderIsNotRefused ==
    ASSUME SchemaInv, NEW p \in Procs, Leads(p)
    PROVE  /\ step[p] = "alter" /\ MayWrite(p) => View(p).cols = found[p]
           /\ step[p] = "index" => /\ Len(View(p).rejected) <= 1
                                   /\ ColumnsOf(LastTable) \subseteq View(p).cols
<1>1. InProgress(p) /\ ~torn[p] /\ ~Behind(p) /\ Progress(p)
  BY DEF Leads, SchemaInv, ProgressInv
<1>2. LastTable \in 1 .. LastTable /\ LastEarly < LastTable
      /\ LastTable \in Nat /\ LastEarly \in Nat /\ table[p] \in Nat
  BY TablesAre DEF SchemaInv, SchemaTyped
<1>3. ASSUME step[p] = "alter", MayWrite(p) PROVE View(p).cols = found[p]
  <2>1. CASE table[p] > LastEarly
    BY <1>1, <1>3, <2>1 DEF Progress
  <2>2. CASE table[p] <= LastEarly
    <3>1. lock # p
      BY <1>2, <2>2 DEF SchemaInv, LockInv
    <3> QED
      BY <1>1, <1>3, <2>2, <3>1 DEF Behind, View, Holds
  <2> QED
    BY <1>2, <2>1, <2>2
<1>4. ASSUME step[p] = "index"
      PROVE  Len(View(p).rejected) <= 1 /\ ColumnsOf(LastTable) \subseteq View(p).cols
  <2>1. table[p] > LastTable
    BY <1>1, <1>2, <1>4 DEF Progress
  <2> QED
    BY <1>1, <1>2, <1>4, <2>1 DEF Progress, DoneSoFar
<1> QED
  BY <1>3, <1>4

\* A refused statement, a failed one, and a kill.
LEMMA RefusedStep ==
    ASSUME SchemaInv, NEW p \in Procs, InProgress(p), GiveUp(p), ~Leads(p),
           UNCHANGED <<remote, program, applied, alone, spared, torn, faults>>
    PROVE  SchemaInv'
<1>1. program' \in [Procs -> Seq(Modes)] /\ faults' \in Nat
  BY DEF SchemaInv, SchemaTyped
<1>2. spared' \in [Procs -> BOOLEAN]
  BY Zenon DEF SchemaInv, SchemaTyped
<1>3. \A r \in Procs : spared'[r] => spared[r]
  OBVIOUS
<1> QED
  BY <1>1, <1>2, <1>3, ReleaseStep DEF GiveUp

\* A process that is cut off spoils the history of those it may have raced.
LEMMA CutOffIs ==
    ASSUME SchemaInv, NEW p \in Procs, CutOff(p)
    PROVE  /\ InProgress(p) /\ faults' \in Nat
           /\ spared' \in [Procs -> BOOLEAN]
           /\ \A r \in Procs : spared'[r] => spared[r]
           /\ \A r \in Procs \ {p} : InProgress(r) => ~spared'[r]
<1>1. InProgress(p) /\ faults' \in Nat
  BY DEF CutOff, SchemaInv, SchemaTyped
<1>2. \A r \in Procs : spared'[r] = (spared[r] /\ (r = p \/ ~InProgress(r)))
  BY Zenon DEF CutOff
<1>3. spared' \in [Procs -> BOOLEAN]
  BY Zenon DEF CutOff
<1>4. \A r \in Procs : spared'[r] => spared[r]
  BY <1>2, Zenon
<1>5. \A r \in Procs \ {p} : InProgress(r) => ~spared'[r]
  BY <1>2, Zenon
<1> QED
  BY <1>1, <1>3, <1>4, <1>5

\* A statement fails for good.
LEMMA OpenFailsStep ==
    ASSUME SchemaInv, NEW p \in Procs, OpenFails(p)
    PROVE  SchemaInv'
<1>1. GiveUp(p) /\ CutOff(p) /\ UNCHANGED <<remote, program, applied, alone, torn>>
  BY DEF OpenFails
<1>2. program' \in [Procs -> Seq(Modes)]
  BY <1>1 DEF SchemaInv, SchemaTyped
<1> QED
  BY <1>1, <1>2, CutOffIs, ReleaseStep DEF GiveUp

\* A process is killed.
LEMMA KilledStep ==
    ASSUME SchemaInv, NEW p \in Procs, Killed(p)
    PROVE  SchemaInv'
<1>1. /\ CutOff(p)
      /\ lock' = IF Holds(p) THEN Unlocked ELSE lock
      /\ draft' = IF Holds(p) THEN db ELSE draft
      /\ step' = [step EXCEPT ![p] = "dead"]
      /\ program' = [program EXCEPT ![p] = <<>>]
      /\ UNCHANGED <<db, table, found, dups, remote, applied, alone, torn>>
  BY DEF Killed
<1>2. program' \in [Procs -> Seq(Modes)]
  BY <1>1 DEF SchemaInv, SchemaTyped
<1> QED
  BY <1>1, <1>2, CutOffIs, ReleaseStep

\* The frame of the migration's own steps.
MigrationFrame == UNCHANGED <<remote, program, applied, alone, spared, torn, faults>>

\* Types after a step of the migration.
LEMMA FrameTyped ==
    ASSUME SchemaInv, MigrationFrame,
           db' \in Contents, draft' \in Contents, lock' \in Procs \cup {Unlocked},
           step' \in [Procs -> Steps], table' \in [Procs -> 1 .. LastTable + 1],
           found' \in [Procs -> SUBSET Columns(Tables)], dups' \in [Procs -> Seq(Nat)]
    PROVE  SchemaTyped'
<1>1. /\ remote' \in BOOLEAN /\ applied' \in [Procs -> BOOLEAN]
      /\ alone' \in [Procs -> BOOLEAN] /\ spared' \in [Procs -> BOOLEAN]
      /\ torn' \in [Procs -> BOOLEAN]
  BY Zenon DEF SchemaInv, SchemaTyped, MigrationFrame
<1>2. program' \in [Procs -> Seq(Modes)] /\ faults' \in Nat
  BY DEF SchemaInv, SchemaTyped, MigrationFrame
<1> QED
  BY <1>1, <1>2 DEF SchemaTyped

\* A step of the migration after which p goes on: what is left to show of it.
LEMMA GoOn ==
    ASSUME SchemaInv, NEW p \in Procs, MigrationFrame, InProgress(p), InProgress(p)',
           \A q \in Procs \ {p} :
              step'[q] = step[q] /\ table'[q] = table[q] /\ found'[q] = found[q],
           SchemaTyped', Kept(p), RowsInv', Progress(p)',
           Later(db', draft'), lock' = Unlocked => draft' = db',
           lock' = p => table'[p] > LastEarly,
           ~torn[p] /\ table'[p] > LastEarly => lock' = p
    PROVE  /\ Apart(p) /\ LockInv' /\ ProgressInv' /\ OwnersInv' /\ AloneInv'
           /\ db'.cols = db.cols /\ ~Behind(p)' => SchemaInv'
<1>1. Apart(p)
  BY DEF Apart, MigrationFrame
<1>2. LockInv'
  BY <1>1, LockKept DEF MigrationFrame
<1>3. ProgressInv'
  BY <1>1, ProgressKept
<1>4. OwnersInv'
  <2>1. Settled(p)' => Settled(p)
    BY DEF Settled, MigrationFrame, InProgress
  <2>2. applied'[p] => remote
    BY Zenon DEF SchemaInv, OwnersInv, MigrationFrame
  <2>3. remote' = remote
    BY DEF MigrationFrame
  <2> QED
    BY <1>1, <2>1, <2>2, <2>3, OwnersKept
<1>5. \A r \in Procs : (alone'[r] => alone[r]) /\ (InProgress(r)' => InProgress(r))
  BY <1>1, OthersInProgress DEF MigrationFrame
<1>6. AloneInv'
  BY <1>5, AloneKept
<1>7. ASSUME db'.cols = db.cols, ~Behind(p)' PROVE SchemaInv'
  <2>1. Leads(p) => Leads(p)'
    BY <1>7 DEF Leads, MigrationFrame
  <2>2. \A r \in Procs \ {p} : (alone'[r] => alone[r]) /\ (spared'[r] => spared[r])
    BY DEF MigrationFrame
  <2>3. RefusalInv' /\ LeaderInv'
    BY <1>1, <1>7, <2>1, <2>2, RaceKept
  <2> QED
    BY <1>2, <1>3, <1>4, <1>6, <2>3 DEF SchemaInv
<1> QED
  BY <1>1, <1>2, <1>3, <1>4, <1>6, <1>7

\* What is known of an opener before its step.
LEMMA PlaceIs ==
    ASSUME SchemaInv, NEW p \in Procs, InProgress(p)
    PROVE  /\ Progress(p) /\ table[p] \in 1 .. LastTable + 1
           /\ LastEarly \in Nat \ {0} /\ LastTable \in Nat /\ LastEarly < LastTable
           /\ step \in [Procs -> Steps] /\ table \in [Procs -> 1 .. LastTable + 1]
           /\ found \in [Procs -> SUBSET Columns(Tables)] /\ dups \in [Procs -> Seq(Nat)]
           /\ db \in Contents /\ draft \in Contents /\ View(p) \in Contents
           /\ lock \in Procs \cup {Unlocked} /\ Unlocked \notin Procs
           /\ lock = p => table[p] > LastEarly
           /\ ~torn[p] /\ table[p] > LastEarly => lock = p
           /\ Later(db, draft) /\ (lock = Unlocked => draft = db)
<1>1. Progress(p)
  BY DEF SchemaInv, ProgressInv
<1>2. /\ table[p] \in 1 .. LastTable + 1
      /\ step \in [Procs -> Steps] /\ table \in [Procs -> 1 .. LastTable + 1]
      /\ found \in [Procs -> SUBSET Columns(Tables)] /\ dups \in [Procs -> Seq(Nat)]
      /\ db \in Contents /\ draft \in Contents /\ lock \in Procs \cup {Unlocked}
  BY DEF SchemaInv, SchemaTyped
<1>3. View(p) \in Contents
  BY <1>2 DEF View
<1>4. /\ lock = p => table[p] > LastEarly
      /\ ~torn[p] /\ table[p] > LastEarly => lock = p
      /\ Later(db, draft) /\ (lock = Unlocked => draft = db)
  BY DEF SchemaInv, LockInv
<1> QED
  BY <1>1, <1>2, <1>3, <1>4, TablesAre, SchemaAssumption

\* Past the tables, there is nothing to inspect.
LEMMA AtItsPlace ==
    ASSUME SchemaInv, NEW p \in Procs, InProgress(p)
    PROVE  /\ Progress(p)
           /\ step[p] \notin {"inspect", "alter"} => table[p] > LastTable /\ table[p] > LastEarly
           /\ step[p] = "commit" => View(p).unique
<1>1. Progress(p) /\ table[p] \in Nat
  BY PlaceIs
<1>2. LastTable \in Nat /\ LastEarly \in Nat /\ LastEarly < LastTable
  BY TablesAre
<1> QED
  BY <1>1, <1>2 DEF Progress

\* Nothing of the database changes.
LEMMA StillKept ==
    ASSUME NEW p \in Procs, UNCHANGED <<db, lock, draft>>, SchemaInv
    PROVE  Kept(p) /\ RowsInv' /\ View(p)' = View(p) /\ Later(db', draft')
           /\ (lock' = Unlocked => draft' = db')
  BY DEF Kept, Later, SchemaInv, RowsInv, UniqueRows, LockInv, View, Holds

\* PRAGMA table_info: the process is not behind.
LEMMA InspectStep ==
    ASSUME SchemaInv, NEW p \in Procs, Inspect(p), MigrationFrame
    PROVE  SchemaInv'
<1>0. InProgress(p)
  BY DEF Inspect, InProgress
<1>1. /\ step[p] = "inspect"
      /\ found' = [found EXCEPT ![p] = View(p).cols]
      /\ step' = [step EXCEPT ![p] = "alter"]
      /\ UNCHANGED <<db, lock, draft, table, dups>>
  BY DEF Inspect
<1>2. View(p).cols \in SUBSET Columns(Tables)
  BY <1>0, PlaceIs DEF Contents
<1>3. /\ step'[p] = "alter" /\ found'[p] = View(p).cols /\ table'[p] = table[p]
      /\ \A q \in Procs \ {p} :
            step'[q] = step[q] /\ table'[q] = table[q] /\ found'[q] = found[q]
  BY <1>0, <1>1, PlaceIs
<1>4. SchemaTyped'
  BY <1>0, <1>1, <1>2, PlaceIs, FrameTyped DEF Steps
<1>5. Kept(p) /\ RowsInv' /\ View(p)' = View(p) /\ Later(db', draft')
      /\ (lock' = Unlocked => draft' = db')
  BY <1>1, StillKept
<1>6. Progress(p) /\ table[p] <= LastTable
  BY <1>0, <1>1, PlaceIs DEF Progress
<1>7. torn'[p] = torn[p] /\ applied'[p] = applied[p]
  BY DEF MigrationFrame
<1>8. InProgress(p)'
  BY <1>3 DEF InProgress
<1>9. Progress(p)'
  <2>1. ~torn[p] => DoneSoFar(p)'
    BY <1>3, <1>5, <1>6 DEF Progress, DoneSoFar
  <2> QED
    BY <1>1, <1>3, <1>5, <1>6, <1>7, <2>1 DEF Progress, Holds
<1>10. ~Behind(p)'
  <2>1. table[p] <= LastEarly => View(p) = db
    BY <1>0, PlaceIs DEF View, Holds
  <2> QED
    BY <1>1, <1>3, <2>1 DEF Behind
<1> QED
  BY <1>0, <1>1, <1>3, <1>4, <1>5, <1>8, <1>9, <1>10, PlaceIs, GoOn

\* A table is complete; the next one is inspected.
LEMMA NextTableStep ==
    ASSUME SchemaInv, NEW p \in Procs, NextTable(p), MigrationFrame
    PROVE  SchemaInv'
<1>0. InProgress(p)
  BY DEF NextTable, InProgress
<1> DEFINE next == IF table[p] = Len(Tables) THEN "dedup" ELSE "inspect"
<1>1. /\ step[p] = "alter" /\ Missing(p) = {} /\ table[p] # LastEarly
      /\ table' = [table EXCEPT ![p] = table[p] + 1]
      /\ step' = [step EXCEPT ![p] = next]
      /\ found' = [found EXCEPT ![p] = {}]
      /\ UNCHANGED <<db, lock, draft, dups>>
  BY DEF NextTable, LastEarly
<1>2. next \in {"dedup", "inspect"} /\ (next = "dedup" <=> table[p] = LastTable)
  BY DEF LastTable
<1> HIDE DEF next
<1>3. /\ step'[p] = next /\ found'[p] = {} /\ table'[p] = table[p] + 1
      /\ \A q \in Procs \ {p} :
            step'[q] = step[q] /\ table'[q] = table[q] /\ found'[q] = found[q]
  BY <1>0, <1>1, PlaceIs
<1>4. Progress(p) /\ table[p] <= LastTable
  BY <1>0, <1>1, PlaceIs DEF Progress
<1>5. table[p] + 1 \in 1 .. LastTable + 1
  BY <1>0, <1>4, PlaceIs
<1>6. SchemaTyped'
  <2>1. table' \in [Procs -> 1 .. LastTable + 1]
    BY <1>0, <1>1, <1>5, PlaceIs
  <2>2. step' \in [Procs -> Steps]
    BY <1>0, <1>1, <1>2, PlaceIs DEF Steps
  <2>3. found' \in [Procs -> SUBSET Columns(Tables)]
    BY <1>0, <1>1, PlaceIs
  <2> QED
    BY <1>0, <1>1, <2>1, <2>2, <2>3, PlaceIs, FrameTyped
<1>7. Kept(p) /\ RowsInv' /\ View(p)' = View(p) /\ Later(db', draft')
      /\ (lock' = Unlocked => draft' = db')
  BY <1>1, StillKept
<1>8. torn'[p] = torn[p] /\ applied'[p] = applied[p] /\ ~torn[p]
  BY <1>0, <1>4, PlaceIs DEF MigrationFrame, Progress
<1>9. InProgress(p)' /\ ~Behind(p)'
  BY <1>2, <1>3 DEF InProgress, Behind
<1>10. table[p] > LastEarly <=> table[p] + 1 > LastEarly
  BY <1>0, <1>1, PlaceIs
<1>11. Progress(p)'
  <2>1. ColumnsOf(table[p]) \subseteq View(p).cols
    BY <1>1, <1>4, MissingIs DEF Progress
  <2>2. \A i \in 1 .. LastTable : i < table[p] + 1 => i < table[p] \/ i = table[p]
    BY <1>0, PlaceIs
  <2>3. \A i \in 1 .. LastTable : i < table'[p] => ColumnsOf(i) \subseteq View(p)'.cols
    BY <1>3, <1>4, <1>7, <1>8, <2>1, <2>2 DEF Progress, DoneSoFar
  <2>4. DoneSoFar(p)'
    BY <1>2, <1>3, <1>4, <1>7, <1>8, <1>10, <2>3 DEF Progress, DoneSoFar
  <2>5. step'[p] \in {"inspect", "alter"} <=> table'[p] <= LastTable
    BY <1>0, <1>2, <1>3, <1>4, PlaceIs
  <2> QED
    BY <1>2, <1>3, <1>4, <1>8, <2>4, <2>5 DEF Progress
<1>12. (lock' = p => table'[p] > LastEarly) /\ (~torn[p] /\ table'[p] > LastEarly => lock' = p)
  BY <1>0, <1>1, <1>3, <1>10, PlaceIs
<1> QED
  BY <1>0, <1>1, <1>3, <1>6, <1>7, <1>9, <1>11, <1>12, GoOn

\* The backfill takes the write lock: no price is missing in its transaction.
LEMMA BackfillStep ==
    ASSUME SchemaInv, NEW p \in Procs, Backfill(p), MigrationFrame
    PROVE  SchemaInv'
<1>0. InProgress(p)
  BY DEF Backfill, InProgress
<1>1. /\ step[p] = "alter" /\ Missing(p) = {} /\ table[p] = LastEarly
      /\ lock = Unlocked /\ lock' = p
      /\ draft' = [db EXCEPT !.nulls = db.nulls \ Offers]
      /\ table' = [table EXCEPT ![p] = table[p] + 1]
      /\ step' = [step EXCEPT ![p] = "inspect"]
      /\ found' = [found EXCEPT ![p] = {}]
      /\ db' = db /\ dups' = dups
  BY DEF Backfill, NullsAfterBackfill, LastEarly
<1>2. /\ draft' \in Contents /\ draft'.cols = db.cols /\ draft'.nulls = {}
      /\ draft'.rejected = db.rejected /\ draft'.unique = db.unique /\ draft'.count = db.count
  BY <1>0, <1>1, PlaceIs DEF Contents
<1>3. /\ step'[p] = "inspect" /\ found'[p] = {} /\ table'[p] = LastEarly + 1
      /\ \A q \in Procs \ {p} :
            step'[q] = step[q] /\ table'[q] = table[q] /\ found'[q] = found[q]
  BY <1>0, <1>1, PlaceIs
<1>4. Progress(p) /\ LastEarly + 1 \in 1 .. LastTable
  BY <1>0, PlaceIs
<1>5. SchemaTyped'
  <2>1. table' \in [Procs -> 1 .. LastTable + 1]
    BY <1>0, <1>1, <1>4, PlaceIs
  <2>2. /\ step' \in [Procs -> Steps] /\ found' \in [Procs -> SUBSET Columns(Tables)]
        /\ dups' \in [Procs -> Seq(Nat)]
    BY <1>0, <1>1, PlaceIs DEF Steps
  <2> QED
    BY <1>0, <1>1, <1>2, <2>1, <2>2, PlaceIs, FrameTyped
<1>6. Kept(p)
  BY <1>0, <1>1, PlaceIs DEF Kept, Later
<1>7. RowsInv' /\ Later(db', draft')
  BY <1>1, <1>2 DEF SchemaInv, RowsInv, UniqueRows, Later
<1>8. torn'[p] = torn[p] /\ applied'[p] = applied[p] /\ ~torn[p]
  BY <1>0, <1>1, <1>4, PlaceIs DEF MigrationFrame, Progress
<1>9. InProgress(p)' /\ ~Behind(p)'
  BY <1>3 DEF InProgress, Behind
<1>10. View(p)' = draft' /\ View(p) = db
  BY <1>0, <1>1, PlaceIs DEF View, Holds
<1>11. Progress(p)'
  <2>1. ColumnsOf(table[p]) \subseteq db.cols
    BY <1>1, <1>4, <1>10, MissingIs DEF Progress
  <2>2. \A i \in 1 .. LastTable : i < LastEarly + 1 => i < table[p] \/ i = table[p]
    BY <1>0, <1>1, PlaceIs
  <2>3. \A i \in 1 .. LastTable : i < table'[p] => ColumnsOf(i) \subseteq View(p)'.cols
    BY <1>2, <1>3, <1>4, <1>8, <1>10, <2>1, <2>2 DEF Progress, DoneSoFar
  <2>4. DoneSoFar(p)'
    BY <1>2, <1>3, <1>10, <2>3 DEF DoneSoFar
  <2> QED
    BY <1>3, <1>4, <1>8, <2>4 DEF Progress
<1>12. lock' # Unlocked /\ table'[p] > LastEarly
  BY <1>0, <1>1, <1>3, PlaceIs
<1> QED
  BY <1>0, <1>1, <1>3, <1>5, <1>6, <1>7, <1>9, <1>11, <1>12, GoOn

\* Neither of the dedup's reads changes the database.
LEMMA DedupReads ==
    ASSUME SchemaInv, NEW p \in Procs, MigrationFrame, step[p] \in {"dedup", "select"},
           NEW x \in {"select", "collapse", "index"}, step' = [step EXCEPT ![p] = x],
           UNCHANGED <<db, lock, draft, table, found>>, dups' \in [Procs -> Seq(Nat)],
           x = "index" => Len(View(p).rejected) <= 1
    PROVE  SchemaInv'
<1>0. InProgress(p)
  BY DEF InProgress
<1>1. step'[p] = x /\ \A q \in Procs \ {p} : step'[q] = step[q]
  BY <1>0, PlaceIs
<1>2. Progress(p) /\ table[p] > LastTable /\ table[p] > LastEarly
  BY <1>0, PlaceIs DEF Progress
<1>3. torn'[p] = torn[p] /\ applied'[p] = applied[p]
  BY DEF MigrationFrame
<1>4. InProgress(p)' /\ ~Behind(p)'
  BY <1>1 DEF InProgress, Behind
<1>5. Kept(p) /\ RowsInv' /\ View(p)' = View(p) /\ Later(db', draft')
      /\ (lock' = Unlocked => draft' = db')
  BY StillKept
<1>6. SchemaTyped'
  <2>1. step' \in [Procs -> Steps]
    BY <1>0, PlaceIs DEF Steps
  <2> QED
    BY <1>0, <2>1, PlaceIs, FrameTyped
<1>7. Progress(p)'
  <2>1. ~torn[p] => DoneSoFar(p)'
    BY <1>1, <1>2, <1>5 DEF Progress, DoneSoFar
  <2> QED
    BY <1>1, <1>2, <1>3, <1>5, <2>1 DEF Progress, Holds
<1>8. ~torn[p] => lock = p
  BY <1>0, <1>2, PlaceIs
<1> QED
  BY <1>0, <1>1, <1>2, <1>4, <1>5, <1>6, <1>7, <1>8, GoOn

\* Are there duplicates?
LEMMA DedupStep ==
    ASSUME SchemaInv, NEW p \in Procs, Dedup(p), MigrationFrame
    PROVE  SchemaInv'
<1> DEFINE x == IF Len(View(p).rejected) > 1 THEN "select" ELSE "index"
<1>1. /\ step[p] = "dedup" /\ step' = [step EXCEPT ![p] = x]
      /\ UNCHANGED <<db, lock, draft, table, found, dups>>
  BY DEF Dedup
<1>2. InProgress(p)
  BY <1>1 DEF InProgress
<1>3. Len(View(p).rejected) \in Nat
  BY <1>2, PlaceIs DEF Contents
<1>4. x \in {"select", "collapse", "index"} /\ (x = "index" => Len(View(p).rejected) <= 1)
  BY <1>3
<1> HIDE DEF x
<1>5. dups' \in [Procs -> Seq(Nat)]
  BY <1>1, <1>2, PlaceIs
<1> QED
  BY <1>1, <1>4, <1>5, DedupReads

\* Which are they?
LEMMA SelectRowsStep ==
    ASSUME SchemaInv, NEW p \in Procs, SelectRows(p), MigrationFrame
    PROVE  SchemaInv'
<1>1. /\ step[p] = "select" /\ step' = [step EXCEPT ![p] = "collapse"]
      /\ dups' = [dups EXCEPT ![p] = View(p).rejected]
      /\ UNCHANGED <<db, lock, draft, table, found>>
  BY DEF SelectRows
<1>2. InProgress(p)
  BY <1>1 DEF InProgress
<1>3. View(p).rejected \in Seq(Nat)
  BY <1>2, PlaceIs DEF Contents
<1>4. dups' \in [Procs -> Seq(Nat)]
  BY <1>1, <1>2, <1>3, PlaceIs
<1> QED
  BY <1>1, <1>4, DedupReads

\* Of the rows that were read one is left, with their counts.
LEMMA CollapsedIs ==
    ASSUME NEW q \in Seq(Nat)
    PROVE  /\ Collapsed(q) \in Seq(Nat) /\ Len(Collapsed(q)) <= 1
           /\ Sum(Collapsed(q)) = Sum(q)
<1>1. CASE q = <<>>
  <2>1. Collapsed(q) = q /\ Len(q) <= 1
    BY <1>1 DEF Collapsed
  <2> QED
    BY <2>1
<1>2. CASE q # <<>>
  <2> DEFINE n == Sum(q)
  <2>1. n \in Nat /\ Collapsed(q) = <<n>>
    BY <1>2, SumIsNat DEF Collapsed
  <2> HIDE DEF n
  <2>2. Sum(<<n>>) = n /\ <<n>> \in Seq(Nat) /\ Len(<<n>>) = 1
    BY <2>1, SumOfOne
  <2> QED
    BY <2>1, <2>2 DEF n
<1> QED
  BY <1>1, <1>2

\* The dedup leaves one row, and takes the write lock where it had lost it.
LEMMA CollapseStep ==
    ASSUME SchemaInv, NEW p \in Procs, Collapse(p), MigrationFrame
    PROVE  SchemaInv'
<1>0. InProgress(p)
  BY DEF Collapse, InProgress
<1> DEFINE V == View(p)
           r == Collapsed(dups[p])
<1>1. /\ step[p] = "collapse" /\ lock \in {Unlocked, p} /\ lock' = p
      /\ draft' = [V EXCEPT !.rejected = r]
      /\ dups' = [dups EXCEPT ![p] = <<>>]
      /\ step' = [step EXCEPT ![p] = "index"]
      /\ UNCHANGED <<db, table, found>>
  BY DEF Collapse, MayWrite
<1>2. V \in Contents /\ (lock = p => V = draft) /\ (lock # p => V = db)
  BY <1>0, PlaceIs DEF View, Holds
<1>3. r \in Seq(Nat) /\ Len(r) <= 1
  <2>1. dups[p] \in Seq(Nat)
    BY <1>0, PlaceIs
  <2> QED
    BY <2>1, CollapsedIs
<1>4. /\ step'[p] = "index" /\ \A q \in Procs \ {p} : step'[q] = step[q]
      /\ step' \in [Procs -> Steps] /\ dups' \in [Procs -> Seq(Nat)]
  <2>1. <<>> \in Seq(Nat)
    OBVIOUS
  <2> QED
    BY <1>0, <1>1, <2>1, PlaceIs DEF Steps
<1>5. Progress(p) /\ table[p] > LastTable /\ table[p] > LastEarly
  BY <1>0, <1>1, AtItsPlace
<1>6. torn'[p] = torn[p] /\ applied'[p] = applied[p]
  BY DEF MigrationFrame
<1>7. InProgress(p)' /\ ~Behind(p)'
  BY <1>4 DEF InProgress, Behind
<1>8. ~torn[p] => /\ \A i \in 1 .. LastTable : i < table[p] => ColumnsOf(i) \subseteq V.cols
                  /\ table[p] > LastEarly => V.nulls = {}
  BY <1>5 DEF Progress, DoneSoFar
<1> HIDE DEF V, r
<1>9. /\ draft' \in Contents /\ draft'.cols = V.cols /\ draft'.nulls = V.nulls
      /\ draft'.rejected = r /\ draft'.unique = V.unique
  BY <1>1, <1>2, <1>3 DEF Contents
<1>10. UniqueRows(draft')
  BY <1>3, <1>9 DEF UniqueRows
<1>11. Later(db, V)
  BY <1>0, <1>2, PlaceIs DEF Later
<1>12. Later(db', draft')
  BY <1>1, <1>9, <1>11 DEF Later
<1>13. Kept(p)
  BY <1>0, <1>1, PlaceIs DEF Kept, Later
<1>14. RowsInv'
  BY <1>1, <1>10 DEF SchemaInv, RowsInv, UniqueRows
<1>15. SchemaTyped'
  BY <1>0, <1>1, <1>4, <1>9, PlaceIs, FrameTyped
<1>16. View(p)' = draft'
  BY <1>1 DEF View, Holds
<1>17. Progress(p)'
  <2>1. ~torn[p] => DoneSoFar(p)'
    BY <1>1, <1>3, <1>4, <1>8, <1>9, <1>16 DEF DoneSoFar
  <2>2. torn[p] => draft'.cols = db'.cols
    BY <1>1, <1>2, <1>5, <1>9 DEF Progress, Holds
  <2> QED
    BY <1>1, <1>4, <1>5, <1>6, <2>1, <2>2 DEF Progress
<1>18. lock' # Unlocked
  BY <1>0, <1>1, PlaceIs
<1> QED
  BY <1>0, <1>1, <1>4, <1>5, <1>7, <1>12, <1>13, <1>14, <1>15, <1>17, <1>18, GoOn

\* A write of p: what it is a write to, and what p sees after it.
LEMMA WriteIs ==
    ASSUME SchemaInv, NEW p \in Procs, InProgress(p), MayWrite(p), NEW new \in Contents,
           Write(p, new), UNCHANGED lock, Later(View(p), new), UniqueRows(new)
    PROVE  /\ Kept(p) /\ RowsInv' /\ View(p)' = new /\ Later(db', draft')
           /\ (lock' = Unlocked => draft' = db')
           /\ db' \in Contents /\ draft' \in Contents
           /\ lock = p => db' = db /\ draft' = new /\ View(p) = draft
           /\ lock # p => lock = Unlocked /\ db' = new /\ draft' = new /\ View(p) = db
<1>1. /\ lock = p => db' = db /\ draft' = new /\ View(p) = draft
      /\ lock # p => lock = Unlocked /\ db' = new /\ draft' = new /\ View(p) = db
  BY DEF MayWrite, Write, Holds, View
<1>2. View(p)' = new
  BY <1>1 DEF View, Holds
<1>3. UniqueRows(db) /\ UniqueRows(draft)
  BY DEF SchemaInv, RowsInv
<1>4. RowsInv'
  BY <1>1, <1>3 DEF RowsInv, UniqueRows
<1>5. Later(db, new)
  BY <1>1, PlaceIs DEF Later
<1>6. Later(db', draft') /\ Later(db, db')
  BY <1>1, <1>5 DEF Later
<1>7. Kept(p)
  BY <1>1, <1>6, PlaceIs DEF Kept
<1>8. /\ (lock' = Unlocked => draft' = db')
      /\ db' \in Contents /\ draft' \in Contents
  BY <1>1, PlaceIs
<1> QED
  BY <1>1, <1>2, <1>4, <1>6, <1>7, <1>8

\* The index is made, or refused to a process that does not lead.
LEMMA IndexStep ==
    ASSUME SchemaInv, NEW p \in Procs, Index(p), MigrationFrame
    PROVE  SchemaInv'
<1>0. InProgress(p)
  BY DEF Index, InProgress
<1> DEFINE V == View(p)
           refused == \/ ~V.unique /\ Len(V.rejected) > 1
                      \/ ~(ColumnsOf(LastTable) \subseteq V.cols)
<1>1. /\ step[p] = "index" /\ MayWrite(p)
      /\ refused => GiveUp(p)
      /\ ~refused => /\ Write(p, [V EXCEPT !.unique = TRUE])
                     /\ step' = [step EXCEPT ![p] = "commit"]
                     /\ UNCHANGED <<lock, table, found, dups>>
  BY ColumnsAre DEF Index
<1>2. V \in Contents /\ UniqueRows(V)
  BY <1>0, PlaceIs DEF View, SchemaInv, RowsInv
<1>3. V.rejected \in Seq(Nat) /\ Len(V.rejected) \in Nat
  BY <1>2 DEF Contents
<1>4. CASE refused
  <2>1. Leads(p) => ~refused
    BY <1>1, <1>3, LeaderIsNotRefused
  <2> QED
    BY <1>0, <1>1, <1>4, <2>1, RefusedStep DEF MigrationFrame
<1>5. CASE ~refused
  <2> DEFINE new == [V EXCEPT !.unique = TRUE]
  <2>1. /\ new \in Contents /\ new.cols = V.cols /\ new.nulls = V.nulls
        /\ new.rejected = V.rejected /\ new.count = V.count
    BY <1>2 DEF Contents
  <2>2. new.unique
    BY <1>2 DEF Contents
  <2>3. ~V.unique => Len(V.rejected) <= 1
    BY <1>3, <1>5
  <2>4. Len(V.rejected) <= 1
    BY <1>2, <2>3 DEF UniqueRows
  <2>5. Write(p, new)
    BY <1>1, <1>5
  <2> HIDE DEF new, refused
  <2>6. UniqueRows(new) /\ Later(V, new)
    BY <1>2, <2>1, <2>2, <2>4 DEF UniqueRows, Later
  <2>7. /\ step'[p] = "commit" /\ found' = found /\ table' = table /\ lock' = lock
        /\ dups' = dups
        /\ \A q \in Procs \ {p} : step'[q] = step[q]
    BY <1>0, <1>1, <1>5, PlaceIs
  <2>8. /\ Kept(p) /\ RowsInv' /\ View(p)' = new /\ Later(db', draft')
        /\ (lock' = Unlocked => draft' = db')
        /\ db' \in Contents /\ draft' \in Contents
        /\ lock = p => db' = db /\ draft' = new /\ V = draft
        /\ lock # p => lock = Unlocked /\ db' = new /\ draft' = new /\ V = db
    BY <1>0, <1>1, <2>1, <2>5, <2>6, <2>7, WriteIs
  <2>9. Progress(p) /\ table[p] > LastTable /\ table[p] > LastEarly
    BY <1>0, <1>1, AtItsPlace
  <2>10. torn'[p] = torn[p] /\ applied'[p] = applied[p]
    BY DEF MigrationFrame
  <2>11. InProgress(p)' /\ ~Behind(p)'
    BY <2>7 DEF InProgress, Behind
  <2>12. SchemaTyped'
    <3>1. step' \in [Procs -> Steps]
      BY <1>0, <1>1, <1>5, PlaceIs DEF Steps
    <3> QED
      BY <1>0, <2>7, <2>8, <3>1, PlaceIs, FrameTyped
  <2>13. Progress(p)'
    <3>1. ~torn[p] => DoneSoFar(p)'
      BY <2>1, <2>4, <2>7, <2>8, <2>9 DEF Progress, DoneSoFar
    <3>2. torn[p] /\ Holds(p)' => draft'.cols = db'.cols
      BY <2>1, <2>7, <2>8, <2>9 DEF Progress, Holds
    <3>3. View(p)'.unique
      BY <2>2, <2>8
    <3> QED
      BY <1>1, <2>7, <2>9, <2>10, <3>1, <3>2, <3>3 DEF Progress
  <2>14. db'.cols = db.cols
    BY <2>1, <2>8
  <2>15. (lock' = p => table'[p] > LastEarly) /\ (~torn[p] /\ table'[p] > LastEarly => lock' = p)
    BY <1>0, <2>7, PlaceIs
  <2> QED
    BY <1>0, <2>7, <2>8, <2>11, <2>12, <2>13, <2>14, <2>15, GoOn
<1> QED
  BY <1>4, <1>5

\* A column is added, or refused to a process that was behind; whoever adds one
\* leads, and everybody else has fallen behind.
LEMMA AlterStep ==
    ASSUME SchemaInv, NEW p \in Procs, Alter(p), MigrationFrame
    PROVE  SchemaInv'
<1>0. InProgress(p)
  BY DEF Alter, InProgress
<1> DEFINE V == View(p)
           c == NextMissing(p)
           new == [V EXCEPT !.cols = V.cols \cup {c}]
<1>1. /\ step[p] = "alter" /\ Missing(p) # {} /\ MayWrite(p)
      /\ c \in V.cols => GiveUp(p)
      /\ c \notin V.cols => /\ Write(p, new)
                            /\ found' = [found EXCEPT ![p] = found[p] \cup {c}]
                            /\ UNCHANGED <<lock, step, table, dups>>
  BY DEF Alter
<1>2. V \in Contents /\ UniqueRows(V)
  BY <1>0, PlaceIs DEF View, SchemaInv, RowsInv
<1>3. Progress(p) /\ table[p] \in 1 .. LastTable /\ ~torn[p]
  BY <1>0, <1>1, PlaceIs DEF Progress
<1>4. c \in Missing(p) /\ c \notin found[p] /\ c \in Columns(Tables)
  <2>1. c \in Missing(p)
    BY <1>1, <1>3, NextMissingIs
  <2> QED
    BY <1>3, <2>1, MissingIs, ColumnsAre
<1> HIDE DEF c
<1>5. CASE c \in V.cols
  <2>1. ~Leads(p)
    BY <1>1, <1>4, <1>5, LeaderIsNotRefused
  <2> QED
    BY <1>0, <1>1, <1>5, <2>1, RefusedStep DEF MigrationFrame
<1>6. CASE c \notin V.cols
  <2>1. /\ new \in Contents /\ new.cols = V.cols \cup {c} /\ new.nulls = V.nulls
        /\ new.rejected = V.rejected /\ new.count = V.count /\ new.unique = V.unique
    BY <1>2, <1>4 DEF Contents
  <2>2. Write(p, new)
    BY <1>1, <1>6
  <2> HIDE DEF new
  <2>3. UniqueRows(new) /\ Later(V, new)
    BY <1>2, <2>1 DEF UniqueRows, Later
  <2>4. /\ step' = step /\ table' = table /\ lock' = lock /\ dups' = dups
        /\ found' = [found EXCEPT ![p] = found[p] \cup {c}]
        /\ found'[p] = found[p] \cup {c}
        /\ \A q \in Procs \ {p} : found'[q] = found[q]
    BY <1>0, <1>1, <1>6, PlaceIs
  <2>5. /\ Kept(p) /\ RowsInv' /\ View(p)' = new /\ Later(db', draft')
        /\ (lock' = Unlocked => draft' = db')
        /\ db' \in Contents /\ draft' \in Contents
        /\ lock = p => db' = db /\ draft' = new /\ V = draft
        /\ lock # p => lock = Unlocked /\ db' = new /\ draft' = new /\ V = db
    BY <1>0, <1>1, <2>1, <2>2, <2>3, <2>4, WriteIs
  <2>6. torn'[p] = torn[p] /\ applied'[p] = applied[p]
    BY DEF MigrationFrame
  <2>7. InProgress(p)'
    BY <1>1, <2>4 DEF InProgress
  <2>8. SchemaTyped'
    <3>1. found[p] \in SUBSET Columns(Tables)
      BY <1>0, PlaceIs
    <3>2. found' \in [Procs -> SUBSET Columns(Tables)]
      BY <1>0, <1>4, <2>4, <3>1, PlaceIs
    <3> QED
      BY <1>0, <2>4, <2>5, <3>2, PlaceIs, FrameTyped
  <2>9. Progress(p)'
    <3>1. DoneSoFar(p)'
      BY <1>1, <1>3, <2>1, <2>4, <2>5 DEF Progress, DoneSoFar
    <3>2. found'[p] \subseteq View(p)'.cols
      BY <1>1, <1>3, <2>1, <2>4, <2>5 DEF Progress
    <3>3. table[p] > LastEarly => found'[p] = View(p)'.cols
      BY <1>1, <1>3, <2>1, <2>4, <2>5 DEF Progress
    <3> QED
      BY <1>1, <1>3, <2>4, <2>6, <3>1, <3>2, <3>3 DEF Progress
  <2>10. (lock' = p => table'[p] > LastEarly) /\ (~torn[p] /\ table'[p] > LastEarly => lock' = p)
    BY <1>0, <2>4, PlaceIs
  <2>11. /\ Apart(p) /\ LockInv' /\ ProgressInv' /\ OwnersInv' /\ AloneInv'
         /\ db'.cols = db.cols /\ ~Behind(p)' => SchemaInv'
    BY <1>0, <2>4, <2>5, <2>7, <2>8, <2>9, <2>10, GoOn
  <2>12. CASE lock = p
    <3>1. table[p] > LastEarly
      BY <1>0, <2>12, PlaceIs
    <3>2. ~(table'[p] <= LastEarly)
      BY <1>0, <2>4, <3>1, PlaceIs
    <3>3. ~Behind(p)' /\ db'.cols = db.cols
      BY <2>5, <2>12, <3>2 DEF Behind
    <3> QED
      BY <2>11, <3>3
  <2>13. CASE lock # p
    <3>1. lock = Unlocked /\ db' = new /\ V = db
      BY <2>5, <2>13
    <3>2. table[p] <= LastEarly
      BY <1>0, <1>3, <2>13, PlaceIs
    <3>3. ~Behind(p)
      BY <1>1, <1>6, <3>1 DEF SchemaInv, RefusalInv, c
    <3>4. found[p] = db.cols
      BY <1>1, <3>2, <3>3 DEF Behind
    <3>5. found'[p] = db'.cols /\ db'.cols = db.cols \cup {c}
      BY <2>1, <2>4, <3>1, <3>4
    <3>6. ~Behind(p)' /\ Leads(p)'
      BY <1>3, <2>6, <2>7, <3>5 DEF Behind, Leads
    <3>7. RefusalInv'
      <4> SUFFICES ASSUME NEW r \in Procs, Behind(r)', Missing(r)' # {}
                   PROVE  NextMissing(r)' \in db'.cols
        BY DEF RefusalInv
      <4>1. r \in Procs \ {p}
        BY <3>6
      <4>2. step[r] = "alter" /\ table[r] <= LastEarly /\ found'[r] = found[r]
        BY <2>4, <4>1 DEF Behind
      <4>3. Missing(r)' = Missing(r)
        BY <2>4, <4>2 DEF Missing
      <4>4. NextMissing(r)' = NextMissing(r)
        BY <2>4, <4>3 DEF NextMissing
      <4>5. CASE found[r] = db.cols
        <5>1. NextMissing(r) = c
          BY <1>1, <1>6, <3>1, <3>2, <4>2, <4>3, <4>5, SameColumn DEF c
        <5> QED
          BY <3>5, <4>4, <5>1
      <4>6. CASE found[r] # db.cols
        <5>1. Behind(r)
          BY <4>2, <4>6 DEF Behind
        <5>2. NextMissing(r) \in db.cols
          BY <4>3, <5>1 DEF SchemaInv, RefusalInv
        <5> QED
          BY <3>5, <4>4, <5>2
      <4> QED
        BY <4>5, <4>6
    <3>8. LeaderInv'
      <4> SUFFICES ASSUME NEW r \in Procs, Behind(r)', spared'[r]
                   PROVE  ~alone'[r] /\ (Migrated' \/ \E q \in Procs \ {r} : Leads(q)')
        BY DEF LeaderInv
      <4>1. r \in Procs \ {p}
        BY <3>6
      <4>2. InProgress(r)
        BY <2>4 DEF Behind, InProgress
      <4>3. ~alone[r]
        BY <1>0, <4>1, <4>2 DEF SchemaInv, AloneInv
      <4> QED
        BY <3>6, <4>1, <4>3 DEF MigrationFrame
    <3> QED
      BY <2>5, <2>8, <2>11, <3>7, <3>8 DEF SchemaInv
  <2> QED
    BY <2>12, <2>13
<1> QED
  BY <1>5, <1>6

\* commit() makes what was done to be seen: all of the migration, or, of a torn
\* one, no column.
LEMMA CommitStep ==
    ASSUME SchemaInv, NEW p \in Procs, Commit(p)
    PROVE  SchemaInv'
<1>0. InProgress(p)
  BY DEF Commit, InProgress
<1> DEFINE V == View(p)
<1>1. /\ step[p] = "commit" /\ db' = V
      /\ lock' = IF lock = p THEN Unlocked ELSE lock
      /\ applied' = [applied EXCEPT ![p] = remote]
      /\ step' = [step EXCEPT ![p] = "open"]
      /\ UNCHANGED <<draft, remote, program, table, found, dups, alone, spared, torn, faults>>
  BY DEF Commit, Holds
<1>2. V \in Contents /\ UniqueRows(V) /\ (lock = p => V = draft) /\ (lock # p => V = db)
  BY <1>0, PlaceIs DEF View, Holds, SchemaInv, RowsInv
<1>3. Progress(p) /\ table[p] > LastTable /\ V.unique
  BY <1>0, <1>1, AtItsPlace
<1>4. step'[p] = "open" /\ \A q \in Procs \ {p} : step'[q] = step[q]
  BY <1>0, <1>1, PlaceIs
<1>5. applied' \in [Procs -> BOOLEAN] /\ applied'[p] = remote
      /\ \A q \in Procs \ {p} : applied'[q] = applied[q]
  <2>1. applied \in [Procs -> BOOLEAN] /\ remote \in BOOLEAN
    BY Zenon DEF SchemaInv, SchemaTyped
  <2> QED
    BY <1>1, <2>1
<1> HIDE DEF V
<1>6. SchemaTyped'
  <2>1. /\ db' \in Contents /\ draft' \in Contents /\ step' \in [Procs -> Steps]
        /\ lock' \in Procs \cup {Unlocked} /\ table' \in [Procs -> 1 .. LastTable + 1]
        /\ found' \in [Procs -> SUBSET Columns(Tables)] /\ dups' \in [Procs -> Seq(Nat)]
    BY <1>0, <1>1, <1>2, PlaceIs DEF Steps
  <2>2. /\ remote' \in BOOLEAN
        /\ alone' \in [Procs -> BOOLEAN] /\ spared' \in [Procs -> BOOLEAN]
        /\ torn' \in [Procs -> BOOLEAN]
    BY <1>1, Zenon DEF SchemaInv, SchemaTyped
  <2>3. program' \in [Procs -> Seq(Modes)] /\ faults' \in Nat
    BY <1>1 DEF SchemaInv, SchemaTyped
  <2> QED
    BY <1>5, <2>1, <2>2, <2>3 DEF SchemaTyped
<1>7. Apart(p)
  BY <1>1, <1>4, <1>5 DEF Apart
<1>8. Later(db, db')
  BY <1>0, <1>1, <1>2, PlaceIs DEF Later
<1>9. Kept(p)
  BY <1>0, <1>1, <1>2, <1>8, PlaceIs DEF Kept
<1>10. ~InProgress(p)' /\ ~Behind(p)' /\ lock' # p
  BY <1>0, <1>1, <1>4, PlaceIs DEF InProgress, Behind
<1>11. RowsInv'
  BY <1>1, <1>2 DEF SchemaInv, RowsInv, UniqueRows
<1>12. LockInv'
  <2>1. Later(db', draft') /\ (lock' = Unlocked => draft' = db')
    BY <1>0, <1>1, <1>2, PlaceIs DEF Later
  <2> QED
    BY <1>7, <1>9, <1>10, <2>1, LockKept
<1>13. ProgressInv'
  BY <1>7, <1>9, <1>10, ProgressKept
<1>14. ~torn[p] => Migrated'
  <2> SUFFICES ASSUME ~torn[p] PROVE Migrated'
    OBVIOUS
  <2>1. DoneSoFar(p)
    BY <1>3 DEF Progress
  <2>2. LastTable \in Nat /\ table[p] \in Nat /\ table[p] > LastEarly
    BY <1>0, <1>3, PlaceIs
  <2>3. \A i \in 1 .. LastTable : ColumnsOf(i) \subseteq V.cols
    BY <1>3, <2>1, <2>2 DEF DoneSoFar, V
  <2>4. Columns(Tables) \subseteq V.cols
    BY <2>3, ColumnsAre
  <2>5. V.nulls = {}
    BY <2>1, <2>2 DEF DoneSoFar, V
  <2> QED
    BY <1>1, <1>3, <2>4, <2>5 DEF Migrated
<1>15. OwnersInv'
  <2>1. Settled(p)' => Migrated'
    BY <1>1, <1>14 DEF Settled
  <2> QED
    BY <1>1, <1>5, <1>7, <1>9, <2>1, OwnersKept
<1>16. \A r \in Procs : (alone'[r] => alone[r]) /\ (spared'[r] => spared[r])
                        /\ (InProgress(r)' => InProgress(r))
  BY <1>1, <1>7, <1>10, OthersInProgress
<1>17. AloneInv'
  BY <1>16, AloneKept
<1>18. CASE torn[p]
  <2>1. db'.cols = db.cols
    BY <1>1, <1>2, <1>3, <1>18 DEF Progress, Holds
  <2>2. ~Leads(p)
    BY <1>18 DEF Leads
  <2>3. RefusalInv' /\ LeaderInv'
    BY <1>7, <1>9, <1>10, <1>16, <2>1, <2>2, RaceKept
  <2> QED
    BY <1>6, <1>11, <1>12, <1>13, <1>15, <1>17, <2>3 DEF SchemaInv
<1>19. CASE ~torn[p]
  <2>1. Migrated'
    BY <1>14, <1>19
  <2>2. RefusalInv'
    <3> SUFFICES ASSUME NEW r \in Procs, Behind(r)', Missing(r)' # {}
                 PROVE  NextMissing(r)' \in db'.cols
      BY DEF RefusalInv
    <3>1. r \in Procs \ {p} /\ step[r] = "alter" /\ InProgress(r)
      BY <1>4, <1>10 DEF Behind, InProgress
    <3>2. Missing(r)' = Missing(r)
      BY <1>1 DEF Missing
    <3>3. NextMissing(r)' = NextMissing(r)
      BY <1>1, <3>2 DEF NextMissing
    <3>4. Progress(r) /\ table[r] \in 1 .. LastTable
      BY <3>1, PlaceIs DEF Progress
    <3>5. NextMissing(r) \in Missing(r)
      BY <3>2, <3>4, NextMissingIs
    <3>6. NextMissing(r) \in Columns(Tables)
      BY <3>4, <3>5, MissingIs, ColumnsAre
    <3> QED
      BY <2>1, <3>3, <3>6 DEF Migrated
  <2>3. LeaderInv'
    <3> SUFFICES ASSUME NEW r \in Procs, Behind(r)', spared'[r]
                 PROVE  ~alone'[r]
      BY <2>1 DEF LeaderInv
    <3>1. r \in Procs \ {p} /\ InProgress(r)
      BY <1>4, <1>10 DEF Behind, InProgress
    <3>2. ~alone[r]
      BY <1>0, <3>1 DEF SchemaInv, AloneInv
    <3> QED
      BY <1>16, <3>2
  <2> QED
    BY <1>6, <1>11, <1>12, <1>13, <1>15, <1>17, <2>2, <2>3 DEF SchemaInv
<1> QED
  BY <1>18, <1>19

\* The stream that is lost at the dedup's SELECT takes the transaction with it.
LEMMA SelectLosesStreamStep ==
    ASSUME SchemaInv, NEW p \in Procs, SelectLosesStream(p)
    PROVE  SchemaInv'
<1>1. /\ remote /\ step[p] \in {"dedup", "select"} /\ lock = p /\ CutOff(p)
      /\ lock' = Unlocked /\ draft' = db
      /\ torn' = [torn EXCEPT ![p] = TRUE]
      /\ UNCHANGED <<db, step, table, found, dups, remote, program, applied, alone>>
  BY DEF SelectLosesStream, Holds, opener
<1>2. InProgress(p)
  BY <1>1 DEF InProgress
<1>3. torn' \in [Procs -> BOOLEAN] /\ torn'[p] /\ \A q \in Procs \ {p} : torn'[q] = torn[q]
  <2>1. torn \in [Procs -> BOOLEAN]
    BY Zenon DEF SchemaInv, SchemaTyped
  <2> QED
    BY <1>1, <2>1
<1>4. SchemaTyped'
  <2>1. /\ db' \in Contents /\ draft' \in Contents /\ step' \in [Procs -> Steps]
        /\ lock' \in Procs \cup {Unlocked} /\ table' \in [Procs -> 1 .. LastTable + 1]
        /\ found' \in [Procs -> SUBSET Columns(Tables)] /\ dups' \in [Procs -> Seq(Nat)]
    BY <1>1, <1>2, PlaceIs
  <2>2. /\ remote' \in BOOLEAN /\ alone' \in [Procs -> BOOLEAN]
        /\ applied' \in [Procs -> BOOLEAN]
    BY <1>1, Zenon DEF SchemaInv, SchemaTyped
  <2>3. program' \in [Procs -> Seq(Modes)] /\ faults' \in Nat /\ spared' \in [Procs -> BOOLEAN]
    BY <1>1, CutOffIs DEF SchemaInv, SchemaTyped
  <2> QED
    BY <1>3, <2>1, <2>2, <2>3 DEF SchemaTyped
<1>5. Apart(p)
  BY <1>1, <1>3 DEF Apart
<1>6. Kept(p)
  BY <1>1, <1>2, PlaceIs DEF Kept, Later
<1>7. Progress(p) /\ table[p] > LastTable
  BY <1>1, <1>2, PlaceIs DEF Progress
<1>8. RowsInv'
  BY <1>1 DEF SchemaInv, RowsInv, UniqueRows
<1>9. LockInv'
  <2>1. Later(db', draft') /\ (lock' = Unlocked => draft' = db') /\ lock' # p
    BY <1>1, <1>2, PlaceIs DEF Later
  <2> QED
    BY <1>3, <1>5, <1>6, <2>1, LockKept
<1>10. ProgressInv'
  <2>1. Progress(p)'
    BY <1>1, <1>2, <1>3, <1>7, PlaceIs DEF Progress, Holds
  <2> QED
    BY <1>5, <1>6, <2>1, ProgressKept
<1>11. OwnersInv'
  <2>1. ~Settled(p)'
    BY <1>3 DEF Settled
  <2>2. applied'[p] => remote
    BY <1>1
  <2> QED
    BY <1>1, <1>5, <1>6, <2>1, <2>2, OwnersKept
<1>12. \A r \in Procs : (alone'[r] => alone[r]) /\ (InProgress(r)' => InProgress(r))
  BY <1>1, <1>2, <1>5, OthersInProgress
<1>13. AloneInv'
  BY <1>12, AloneKept
<1>14. ~Behind(p)'
  BY <1>1 DEF Behind
<1>15. RefusalInv' /\ LeaderInv'
  BY <1>1, <1>5, <1>6, <1>12, <1>14, CutOffIs, RaceKept
<1> QED
  BY <1>4, <1>8, <1>9, <1>10, <1>11, <1>13, <1>15 DEF SchemaInv

\* A step of a process that is not migrating, before it or after it.
LEMMA OutsideStep ==
    ASSUME SchemaInv, NEW p \in Procs, ~InProgress(p), ~InProgress(p)',
           SchemaTyped', Apart(p), Kept(p), RowsInv',
           Later(db', draft'), lock' = Unlocked => draft' = db', lock' = lock,
           UNCHANGED <<remote, alone, spared>>, db'.cols = db.cols,
           Settled(p)' => Settled(p), applied'[p] = applied[p]
    PROVE  SchemaInv'
<1>1. lock' # p
  BY DEF SchemaInv, LockInv
<1>2. LockInv'
  BY <1>1, LockKept
<1>3. ProgressInv'
  BY ProgressKept
<1>4. applied'[p] => remote
  BY Zenon DEF SchemaInv, OwnersInv
<1>5. OwnersInv'
  BY <1>4, OwnersKept
<1>6. \A r \in Procs : (alone'[r] => alone[r]) /\ (InProgress(r)' => InProgress(r))
  BY OthersInProgress
<1>7. AloneInv'
  BY <1>6, AloneKept
<1>8. ~Behind(p)' /\ ~Leads(p)
  BY DEF Behind, Leads, InProgress
<1>9. RefusalInv' /\ LeaderInv'
  BY <1>8, RaceKept
<1> QED
  BY <1>2, <1>3, <1>5, <1>7, <1>9 DEF SchemaInv

\* What is known of a process outside a migration.
LEMMA OutsideIs ==
    ASSUME SchemaInv
    PROVE  /\ step \in [Procs -> Steps] /\ table \in [Procs -> 1 .. LastTable + 1]
           /\ found \in [Procs -> SUBSET Columns(Tables)] /\ dups \in [Procs -> Seq(Nat)]
           /\ db \in Contents /\ draft \in Contents
           /\ lock \in Procs \cup {Unlocked} /\ Unlocked \notin Procs
           /\ Later(db, draft) /\ (lock = Unlocked => draft = db)
           /\ program \in [Procs -> Seq(Modes)] /\ faults \in Nat
           /\ 1 \in 1 .. LastTable + 1
  BY TablesAre, SchemaAssumption DEF SchemaInv, SchemaTyped, LockInv

\* An opener leaves.
LEMMA LeaveStep ==
    ASSUME SchemaInv, NEW p \in Procs, Leave(p)
    PROVE  SchemaInv'
<1>1. /\ step[p] \in {"open", "failed"}
      /\ step' = [step EXCEPT ![p] = "idle"]
      /\ program' = [program EXCEPT ![p] = Tail(program[p])]
      /\ found' = [found EXCEPT ![p] = {}] /\ dups' = [dups EXCEPT ![p] = <<>>]
      /\ UNCHANGED <<db, lock, draft, remote, applied, table, alone, spared, torn, faults>>
  BY DEF Leave
<1>2. /\ step'[p] = "idle"
      /\ \A q \in Procs \ {p} : step'[q] = step[q] /\ found'[q] = found[q]
  BY <1>1, OutsideIs
<1>3. ~InProgress(p) /\ ~InProgress(p)'
  BY <1>1, <1>2 DEF InProgress
<1>4. SchemaTyped'
  <2>1. /\ db' \in Contents /\ draft' \in Contents /\ step' \in [Procs -> Steps]
        /\ lock' \in Procs \cup {Unlocked} /\ table' \in [Procs -> 1 .. LastTable + 1]
        /\ found' \in [Procs -> SUBSET Columns(Tables)] /\ dups' \in [Procs -> Seq(Nat)]
        /\ faults' \in Nat
    BY <1>1, OutsideIs DEF Steps
  <2>2. /\ remote' \in BOOLEAN /\ applied' \in [Procs -> BOOLEAN]
        /\ alone' \in [Procs -> BOOLEAN] /\ spared' \in [Procs -> BOOLEAN]
        /\ torn' \in [Procs -> BOOLEAN]
    BY <1>1, Zenon DEF SchemaInv, SchemaTyped
  <2>3. program' \in [Procs -> Seq(Modes)]
    <3>1. ASSUME NEW s \in Seq(Modes) PROVE Tail(s) \in Seq(Modes) \/ s = <<>>
      BY <3>1
    <3>2. CASE program[p] = <<>>
      <4>1. Tail(<<>>) = <<>>
        OBVIOUS
      <4> QED
        BY <1>1, <3>2, <4>1, OutsideIs
    <3>3. CASE program[p] # <<>>
      BY <1>1, <3>1, <3>3, OutsideIs
    <3> QED
      BY <3>2, <3>3
  <2> QED
    BY <2>1, <2>2, <2>3 DEF SchemaTyped
<1>5. Apart(p)
  BY <1>1, <1>2 DEF Apart
<1>6. Kept(p) /\ RowsInv' /\ Later(db', draft') /\ (lock' = Unlocked => draft' = db')
  BY <1>1, StillKept
<1>7. Settled(p)' => Settled(p)
  BY <1>1, <1>2 DEF Settled
<1> QED
  BY <1>1, <1>3, <1>4, <1>5, <1>6, <1>7, OutsideStep

\* A list with one entry at most is empty or that entry.
LEMMA OneRow ==
    ASSUME NEW s \in Seq(Nat), Len(s) <= 1, s # <<>>
    PROVE  Head(s) \in Nat /\ s = <<Head(s)>>
<1>1. Len(s) \in Nat \ {0}
  BY EmptySeq
<1>2. Len(s) = 1
  <2> DEFINE n == Len(s)
  <2>1. n \in Nat \ {0} /\ n <= 1
    BY <1>1
  <2> HIDE DEF n
  <2>2. n = 1
    BY <2>1
  <2> QED
    BY <2>2 DEF n
<1>3. s[1] \in Nat /\ s = <<s[1]>>
  BY <1>2
<1> QED
  BY <1>3

\* One rejection more: under the index there is one row, and it counts it.
LEMMA RejectStep ==
    ASSUME SchemaInv, NEW p \in Procs, Reject(p)
    PROVE  SchemaInv'
<1> DEFINE x == Head(db.rejected)
           r == <<x + 1>>
           n == db.count + 1
<1>1. /\ step[p] = "open" /\ lock = Unlocked /\ db.unique /\ db.rejected # <<>>
      /\ db' = [db EXCEPT !.rejected = r, !.count = n]
      /\ draft' = db'
      /\ UNCHANGED <<lock, remote, program, applied, step, table, found, dups, alone, spared, torn,
                   faults>>
  BY DEF Reject, opener
<1>2. db \in Contents /\ UniqueRows(db)
  BY OutsideIs DEF SchemaInv, RowsInv
<1>3. x \in Nat /\ db.rejected = <<x>>
  <2>1. db.rejected \in Seq(Nat) /\ Len(db.rejected) <= 1
    BY <1>1, <1>2 DEF Contents, UniqueRows
  <2>2. db.rejected # <<>>
    BY <1>1
  <2> QED
    BY <2>1, <2>2, OneRow
<1> HIDE DEF x
<1>4. r \in Seq(Nat) /\ Len(r) = 1 /\ n \in Nat
  BY <1>2, <1>3 DEF Contents
<1> HIDE DEF r, n
<1>5. /\ db' \in Contents /\ db'.cols = db.cols /\ db'.nulls = db.nulls
      /\ db'.rejected = r /\ db'.unique = db.unique
  BY <1>1, <1>2, <1>4 DEF Contents
<1>6. UniqueRows(db')
  <2>1. Len(r) <= 1
    BY <1>4
  <2>2. db'.rejected = r
    BY <1>5
  <2> QED
    BY <2>1, <2>2, Zenon DEF UniqueRows
<1>7. RowsInv'
  BY <1>1, <1>6 DEF RowsInv, UniqueRows
<1>8. Later(db', draft') /\ Later(db, db')
  BY <1>1, <1>5 DEF Later
<1>9. Kept(p)
  BY <1>1, <1>8, OutsideIs DEF Kept
<1>10. Apart(p)
  BY <1>1 DEF Apart
<1>11. SchemaTyped'
  <2>1. /\ db' \in Contents /\ draft' \in Contents /\ step' \in [Procs -> Steps]
        /\ lock' \in Procs \cup {Unlocked} /\ table' \in [Procs -> 1 .. LastTable + 1]
        /\ found' \in [Procs -> SUBSET Columns(Tables)] /\ dups' \in [Procs -> Seq(Nat)]
        /\ faults' \in Nat
        /\ program' \in [Procs -> Seq(Modes)]
    BY <1>1, <1>5, OutsideIs
  <2>2. /\ remote' \in BOOLEAN /\ applied' \in [Procs -> BOOLEAN]
        /\ alone' \in [Procs -> BOOLEAN] /\ spared' \in [Procs -> BOOLEAN]
        /\ torn' \in [Procs -> BOOLEAN]
    BY <1>1, Zenon DEF SchemaInv, SchemaTyped
  <2> QED
    BY <2>1, <2>2 DEF SchemaTyped
<1>12. ~InProgress(p) /\ ~InProgress(p)'
  BY <1>1 DEF InProgress
<1>13. Settled(p)' => Settled(p)
  BY <1>1 DEF Settled
<1> QED
  BY <1>1, <1>5, <1>7, <1>8, <1>9, <1>10, <1>11, <1>12, <1>13, OutsideStep

\* An open that migrates begins at the first table; one that is let in, or
\* refused, changes nothing.
LEMMA OpenStep ==
    ASSUME SchemaInv, NEW p \in Procs, Open(p)
    PROVE  SchemaInv'
<1> DEFINE next == Decided(p, Head(program[p]))
<1>1. /\ step[p] = "idle" /\ program[p] # <<>>
      /\ step' = [step EXCEPT ![p] = next]
      /\ applied' = applied
      /\ next = "inspect" =>
            /\ alone' = [q \in Procs |-> IF q = p THEN \A r \in Procs : ~InProgress(r)
                                         ELSE alone[q] /\ ~InProgress(q)]
            /\ spared' = [spared EXCEPT ![p] = TRUE]
            /\ torn' = [torn EXCEPT ![p] = FALSE]
      /\ next # "inspect" => UNCHANGED <<alone, spared, torn>>
      /\ table' = [table EXCEPT ![p] = 1]
      /\ UNCHANGED <<db, lock, draft, remote, program, found, dups, faults>>
  BY DEF Open, Skips
<1>2. /\ next \in {"inspect", "open", "failed"}
      /\ next = "inspect" => ~remote \/ ~applied[p]
      /\ next = "open" => remote
  <2>1. program[p] \in Seq(Modes)
    BY OutsideIs
  <2>2. Head(program[p]) \in Modes
    BY <1>1, <2>1
  <2> QED
    BY <2>2 DEF Decided, Modes
<1> HIDE DEF next
<1>3. /\ step'[p] = next /\ table'[p] = 1
      /\ \A q \in Procs \ {p} : step'[q] = step[q] /\ table'[q] = table[q]
  BY <1>1, OutsideIs
<1>4. ~InProgress(p) /\ lock # p
  <2>1. ~InProgress(p)
    BY <1>1 DEF InProgress
  <2> QED
    BY <2>1 DEF SchemaInv, LockInv
<1>5. /\ alone \in [Procs -> BOOLEAN] /\ spared \in [Procs -> BOOLEAN]
      /\ torn \in [Procs -> BOOLEAN] /\ remote \in BOOLEAN /\ applied \in [Procs -> BOOLEAN]
  BY Zenon DEF SchemaInv, SchemaTyped
<1>6. alone' \in [Procs -> BOOLEAN] /\ spared' \in [Procs -> BOOLEAN] /\ torn' \in [Procs -> BOOLEAN]
  <2>1. CASE next = "inspect"
    <3>1. /\ spared' = [spared EXCEPT ![p] = TRUE] /\ torn' = [torn EXCEPT ![p] = FALSE]
      BY <1>1, <2>1
    <3>2. spared' \in [Procs -> BOOLEAN] /\ torn' \in [Procs -> BOOLEAN]
      BY <1>5, <3>1
    <3>3. alone' = [q \in Procs |-> IF q = p THEN \A r \in Procs : ~InProgress(r)
                                    ELSE alone[q] /\ ~InProgress(q)]
      BY <1>1, <2>1
    <3>4. alone' \in [Procs -> BOOLEAN]
      BY <3>3, Zenon
    <3> QED
      BY <3>2, <3>4
  <2>2. CASE next # "inspect"
    BY <1>1, <1>5, <2>2
  <2> QED
    BY <2>1, <2>2
<1>7. SchemaTyped'
  <2>1. /\ db' \in Contents /\ draft' \in Contents /\ step' \in [Procs -> Steps]
        /\ lock' \in Procs \cup {Unlocked} /\ table' \in [Procs -> 1 .. LastTable + 1]
        /\ found' \in [Procs -> SUBSET Columns(Tables)] /\ dups' \in [Procs -> Seq(Nat)]
        /\ faults' \in Nat
        /\ program' \in [Procs -> Seq(Modes)]
    BY <1>1, <1>2, OutsideIs DEF Steps
  <2>2. remote' \in BOOLEAN /\ applied' \in [Procs -> BOOLEAN]
    BY <1>1, <1>5
  <2> QED
    BY <1>6, <2>1, <2>2 DEF SchemaTyped
<1>8. /\ \A q \in Procs \ {p} : torn'[q] = torn[q] /\ (spared'[q] => spared[q])
                                /\ (alone'[q] => alone[q])
      /\ next = "inspect" => ~torn'[p]
  <2>1. CASE next = "inspect"
    <3>1. \A q \in Procs \ {p} : torn'[q] = torn[q] /\ spared'[q] = spared[q]
      BY <1>1, <1>5, <2>1
    <3>2. \A q \in Procs \ {p} : alone'[q] = (alone[q] /\ ~InProgress(q))
      <4>1. alone' = [q \in Procs |-> IF q = p THEN \A r \in Procs : ~InProgress(r)
                                      ELSE alone[q] /\ ~InProgress(q)]
        BY <1>1, <2>1
      <4> QED
        BY <4>1, Zenon
    <3>3. ~torn'[p]
      BY <1>1, <1>5, <2>1
    <3> QED
      BY <3>1, <3>2, <3>3, Zenon
  <2>2. CASE next # "inspect"
    BY <1>1, <2>2
  <2> QED
    BY <2>1, <2>2
<1>9. Apart(p)
  BY <1>1, <1>3, <1>8 DEF Apart
<1>10. Kept(p) /\ RowsInv' /\ Later(db', draft') /\ (lock' = Unlocked => draft' = db')
       /\ View(p)' = View(p)
  BY <1>1, StillKept
<1>11. CASE next # "inspect"
  <2>1. ~InProgress(p)'
    BY <1>2, <1>3, <1>11 DEF InProgress
  <2>2. Settled(p)' => Settled(p)
    BY <1>1, <1>2, <1>3, <1>11 DEF Settled
  <2> QED
    BY <1>1, <1>4, <1>7, <1>9, <1>10, <1>11, <2>1, <2>2, OutsideStep
<1>12. CASE next = "inspect"
  <2>1. ~applied[p]
    BY <1>2, <1>12, Zenon DEF SchemaInv, OwnersInv
  <2>2. LastEarly \in Nat \ {0} /\ LastTable \in Nat /\ LastEarly < LastTable
    BY TablesAre
  <2>3. DoneSoFar(p)'
    BY <1>3, <1>12, <2>2 DEF DoneSoFar
  <2>4. Progress(p)'
    BY <1>1, <1>3, <1>8, <1>12, <2>1, <2>2, <2>3 DEF Progress
  <2>5. ProgressInv'
    BY <1>9, <1>10, <2>4, ProgressKept
  <2>6. LockInv'
    BY <1>1, <1>3, <1>4, <1>9, <1>10, <2>2, LockKept
  <2>7. OwnersInv'
    <3>1. ~Settled(p)' /\ ~applied'[p]
      BY <1>1, <1>3, <1>12, <2>1 DEF Settled
    <3> QED
      BY <1>1, <1>9, <1>10, <3>1, OwnersKept
  <2>8. ~Behind(p)' /\ ~Leads(p)
    BY <1>3, <1>4, <1>12 DEF Behind, Leads
  <2>9. RefusalInv' /\ LeaderInv'
    BY <1>1, <1>8, <1>9, <1>10, <2>8, RaceKept
  <2>10. AloneInv'
    <3>1. alone' = [q \in Procs |-> IF q = p THEN \A r \in Procs : ~InProgress(r)
                                    ELSE alone[q] /\ ~InProgress(q)]
      BY <1>1, <1>12
    <3>2. alone'[p] = (\A r \in Procs : ~InProgress(r))
      BY <3>1, Zenon
    <3>3. \A q \in Procs \ {p} : alone'[q] = (alone[q] /\ ~InProgress(q))
      BY <3>1, Zenon
    <3>4. \A q \in Procs \ {p} : InProgress(q)' <=> InProgress(q)
      BY <1>9, OthersInProgress
    <3>5. ASSUME NEW q \in Procs, NEW r \in Procs, InProgress(q)', InProgress(r)', alone'[q]
          PROVE  r = q
      <4>1. q = p
        BY <3>3, <3>4, <3>5, Zenon
      <4>2. r = p
        BY <3>2, <3>4, <3>5, <4>1, Zenon
      <4> QED
        BY <4>1, <4>2
    <3> QED
      BY <3>5 DEF AloneInv
  <2> QED
    BY <1>7, <1>10, <2>5, <2>6, <2>7, <2>9, <2>10 DEF SchemaInv
<1> QED
  BY <1>11, <1>12

\* Every step keeps the invariant.
LEMMA SchemaStepInv == SchemaInv /\ [SchemaNext]_schemaVars => SchemaInv'
<1> SUFFICES ASSUME SchemaInv, [SchemaNext]_schemaVars PROVE SchemaInv'
  OBVIOUS
<1>1. ASSUME NEW p \in Procs, Migrate(p) PROVE SchemaInv'
  <2>1. MigrationFrame
    BY <1>1 DEF Migrate, MigrationFrame
  <2>2. \/ Inspect(p) \/ Alter(p) \/ NextTable(p) \/ Backfill(p) \/ Dedup(p)
      \/ SelectRows(p) \/ Collapse(p) \/ Index(p)
    BY <1>1 DEF Migrate
  <2> QED
    BY <2>1, <2>2, InspectStep, AlterStep, NextTableStep, BackfillStep, DedupStep,
       SelectRowsStep, CollapseStep, IndexStep
<1>2. ASSUME NEW p \in Procs,
             \/ Open(p) \/ Leave(p) \/ Commit(p) \/ Reject(p)
             \/ OpenFails(p) \/ Killed(p) \/ SelectLosesStream(p)
      PROVE  SchemaInv'
  BY <1>2, OpenStep, LeaveStep, CommitStep, RejectStep, OpenFailsStep, KilledStep,
     SelectLosesStreamStep
<1>3. CASE UNCHANGED schemaVars
  <2>1. /\ db' = db /\ lock' = lock /\ draft' = draft /\ remote' = remote
        /\ program' = program /\ applied' = applied /\ step' = step /\ table' = table
        /\ found' = found /\ dups' = dups /\ alone' = alone /\ spared' = spared /\ torn' = torn
        /\ faults' = faults
    BY <1>3 DEF schemaVars
  <2>2. SchemaTyped'
    BY <2>1, Zenon DEF SchemaInv, SchemaTyped
  <2>3. RowsInv' /\ LockInv'
    BY <2>1 DEF SchemaInv, RowsInv, UniqueRows, LockInv, Later, InProgress
  <2>4. \A p \in Procs : View(p)' = View(p) /\ (InProgress(p)' <=> InProgress(p))
                         /\ (Holds(p)' <=> Holds(p)) /\ (Behind(p)' <=> Behind(p))
                         /\ (Leads(p)' <=> Leads(p)) /\ (Migrated' <=> Migrated)
                         /\ Missing(p)' = Missing(p)
    BY <2>1 DEF View, InProgress, Holds, Behind, Leads, Migrated, Missing
  <2>5. \A p \in Procs : NextMissing(p)' = NextMissing(p)
    BY <2>1, <2>4 DEF NextMissing
  <2>6. ProgressInv'
    BY <2>1, <2>4 DEF SchemaInv, ProgressInv, Progress, DoneSoFar
  <2>7. OwnersInv' /\ RefusalInv' /\ AloneInv' /\ LeaderInv'
    BY <2>1, <2>4, <2>5 DEF SchemaInv, OwnersInv, RefusalInv, AloneInv, LeaderInv
  <2> QED
    BY <2>2, <2>3, <2>6, <2>7 DEF SchemaInv
<1> QED
  BY <1>1, <1>2, <1>3 DEF SchemaNext

-----------------------------------------------------------------------------
(* The rejections.                                                         *)

\* No row and no count changes, and nobody begins to collapse some.
SameRows(d, e) == d.rejected = e.rejected /\ d.count = e.count
Unchanging(p) ==
    /\ SameRows(db', db) \/ (lock = p /\ SameRows(db', draft))
    /\ SameRows(draft', draft) \/ (lock \in {Unlocked, p} /\ SameRows(draft', db))
    /\ step'[p] # "collapse"
    /\ \A q \in Procs \ {p} : step'[q] = step[q] /\ dups'[q] = dups[q]
    /\ lock' = lock \/ lock \in {Unlocked, p}
    /\ outside' = outside
    /\ lock \notin {Unlocked, p} => draft' = draft

\* What an unchanging step keeps.
LEMMA UnchangingKeepsSums ==
    ASSUME SumInv, NEW p \in Procs, Unchanging(p)
    PROVE  SumInv'
<1> SUFFICES ASSUME ~outside
             PROVE  /\ AddsUp(db') /\ AddsUp(draft')
                    /\ \A q \in Procs : step'[q] = "collapse" =>
                          lock' = q /\ dups'[q] = draft'.rejected
  BY DEF SumInv, Unchanging, AddsUp
<1>1. AddsUp(db) /\ AddsUp(draft)
  BY DEF SumInv
<1>2. AddsUp(db')
  BY <1>1 DEF AddsUp, Unchanging, SameRows
<1>3. AddsUp(draft')
  BY <1>1 DEF AddsUp, Unchanging, SameRows
<1>4. ASSUME NEW q \in Procs, step'[q] = "collapse"
      PROVE  lock' = q /\ dups'[q] = draft'.rejected
  <2>1. q # p
    BY <1>4 DEF Unchanging
  <2>2. step[q] = "collapse" /\ dups'[q] = dups[q]
    BY <1>4, <2>1 DEF Unchanging
  <2>3. lock = q /\ dups[q] = draft.rejected
    BY <2>2 DEF SumInv
  <2>4. lock \notin {Unlocked, p}
    BY <2>1, <2>3, SchemaAssumption
  <2> QED
    BY <2>2, <2>3, <2>4 DEF Unchanging
<1> QED
  BY <1>2, <1>3, <1>4

\* Opening, closing and giving up leave the rows as they are.
LEMMA LeavingIsUnchanging ==
    ASSUME SchemaInv, NEW p \in Procs,
           \/ Open(p) \/ Leave(p) \/ Commit(p) \/ OpenFails(p) \/ Killed(p)
           \/ SelectLosesStream(p)
    PROVE  Unchanging(p)
<1>0. /\ step \in [Procs -> Steps] /\ dups \in [Procs -> Seq(Nat)]
      /\ lock \in Procs \cup {Unlocked}
      /\ program \in [Procs -> Seq(Modes)]
  BY OutsideIs
<1>1. CASE Open(p)
  <2> DEFINE next == Decided(p, Head(program[p]))
  <2>1. /\ program[p] # <<>> /\ step' = [step EXCEPT ![p] = next]
        /\ UNCHANGED <<db, lock, draft, dups, outside>>
    BY <1>1 DEF Open
  <2>2. Head(program[p]) \in Modes
    <3>1. program[p] \in Seq(Modes)
      BY <1>0
    <3> QED
      BY <2>1, <3>1
  <2>3. next # "collapse"
    BY <2>2 DEF Decided, Modes
  <2> HIDE DEF next
  <2> QED
    BY <1>0, <2>1, <2>3 DEF Unchanging, SameRows
<1>2. CASE Leave(p)
  <2>1. /\ step' = [step EXCEPT ![p] = "idle"] /\ dups' = [dups EXCEPT ![p] = <<>>]
        /\ UNCHANGED <<db, lock, draft, outside>>
    BY <1>2 DEF Leave
  <2> QED
    BY <1>0, <2>1 DEF Unchanging, SameRows
<1>3. CASE Commit(p)
  <2>1. /\ step' = [step EXCEPT ![p] = "open"] /\ UNCHANGED <<draft, dups, outside>>
        /\ db' = IF lock = p THEN draft ELSE db
        /\ lock' = IF lock = p THEN Unlocked ELSE lock
    BY <1>3 DEF Commit, View, Holds
  <2> QED
    BY <1>0, <2>1 DEF Unchanging, SameRows
<1>4. CASE OpenFails(p) \/ Killed(p)
  <2>1. PICK x \in {"failed", "dead"} :
           /\ step' = [step EXCEPT ![p] = x] /\ UNCHANGED <<db, dups, outside>>
           /\ draft' = IF lock = p THEN db ELSE draft
           /\ lock' = IF lock = p THEN Unlocked ELSE lock
    BY <1>4 DEF OpenFails, Killed, GiveUp, Holds
  <2> QED
    BY <1>0, <2>1 DEF Unchanging, SameRows
<1>5. CASE SelectLosesStream(p)
  <2>1. /\ step[p] \in {"dedup", "select"} /\ lock = p
        /\ lock' = Unlocked /\ draft' = db /\ UNCHANGED <<db, step, dups, outside>>
    BY <1>5 DEF SelectLosesStream, Holds, opener
  <2> QED
    BY <1>0, <2>1 DEF Unchanging, SameRows
<1> QED
  BY <1>1, <1>2, <1>3, <1>4, <1>5

\* So do the steps of a migration but those of the dedup that follow its first look.
LEMMA MigratingIsUnchanging ==
    ASSUME SchemaInv, NEW p \in Procs, outside' = outside,
           Inspect(p) \/ Alter(p) \/ NextTable(p) \/ Backfill(p) \/ Dedup(p) \/ Index(p)
    PROVE  Unchanging(p)
<1>0. /\ step \in [Procs -> Steps] /\ dups \in [Procs -> Seq(Nat)]
      /\ lock \in Procs \cup {Unlocked} /\ db \in Contents /\ draft \in Contents
  BY OutsideIs
<1>1. CASE Inspect(p) \/ NextTable(p) \/ Dedup(p)
  <2>1. PICK x \in {"alter", "inspect", "dedup", "select", "index"} :
           step' = [step EXCEPT ![p] = x] /\ UNCHANGED <<db, lock, draft, dups>>
    BY <1>1 DEF Inspect, NextTable, Dedup
  <2> QED
    BY <1>0, <2>1 DEF Unchanging, SameRows
<1>2. CASE Backfill(p)
  <2>1. /\ step' = [step EXCEPT ![p] = "inspect"] /\ UNCHANGED <<db, dups>>
        /\ lock = Unlocked /\ SameRows(draft', db)
    BY <1>0, <1>2 DEF Backfill, SameRows, Contents
  <2> QED
    BY <1>0, <2>1 DEF Unchanging, SameRows
<1>3. ASSUME GiveUp(p) PROVE Unchanging(p)
  <2>1. /\ step' = [step EXCEPT ![p] = "failed"] /\ UNCHANGED <<db, dups>>
        /\ draft' = IF lock = p THEN db ELSE draft
        /\ lock' = IF lock = p THEN Unlocked ELSE lock
    BY <1>3 DEF GiveUp, Holds
  <2> QED
    BY <1>0, <2>1 DEF Unchanging, SameRows
<1>4. ASSUME NEW new, MayWrite(p), Write(p, new), SameRows(new, View(p)),
             lock' = lock, dups' = dups,
             step'[p] # "collapse" /\ \A q \in Procs \ {p} : step'[q] = step[q]
      PROVE  Unchanging(p)
  <2>1. lock \in {Unlocked, p}
    BY <1>4 DEF MayWrite
  <2>2. CASE lock = p
    <3>1. draft' = new /\ db' = db /\ SameRows(new, draft)
      BY <1>4, <2>2 DEF Write, View, Holds
    <3> QED
      BY <1>4, <2>1, <3>1 DEF Unchanging, SameRows
  <2>3. CASE lock # p
    <3>1. draft' = new /\ db' = new /\ SameRows(new, db)
      BY <1>4, <2>3 DEF Write, View, Holds
    <3> QED
      BY <1>4, <2>1, <3>1 DEF Unchanging, SameRows
  <2> QED
    BY <2>2, <2>3
<1>5. View(p) \in Contents
  BY <1>0 DEF View
<1>6. CASE Alter(p)
  <2> DEFINE V == View(p)
             c == NextMissing(p)
             new == [V EXCEPT !.cols = V.cols \cup {c}]
  <2>1. CASE GiveUp(p)
    BY <1>3, <2>1
  <2>2. CASE ~GiveUp(p)
    <3>1. MayWrite(p) /\ Write(p, new) /\ UNCHANGED <<lock, step, dups>> /\ step[p] = "alter"
      BY <1>6, <2>2 DEF Alter
    <3>2. SameRows(new, V)
      BY <1>5 DEF SameRows, Contents
    <3> HIDE DEF new
    <3> QED
      BY <1>4, <3>1, <3>2
  <2> QED
    BY <2>1, <2>2
<1>7. CASE Index(p)
  <2> DEFINE V == View(p)
             new == [V EXCEPT !.unique = TRUE]
  <2>1. CASE GiveUp(p)
    BY <1>3, <2>1
  <2>2. CASE ~GiveUp(p)
    <3>1. /\ MayWrite(p) /\ Write(p, new) /\ step' = [step EXCEPT ![p] = "commit"]
          /\ UNCHANGED <<lock, dups>>
      BY <1>7, <2>2 DEF Index
    <3>2. SameRows(new, V)
      BY <1>5 DEF SameRows, Contents
    <3>3. step'[p] # "collapse" /\ \A q \in Procs \ {p} : step'[q] = step[q]
      BY <1>0, <3>1
    <3> HIDE DEF new
    <3> QED
      BY <1>4, <3>1, <3>2, <3>3
  <2> QED
    BY <2>1, <2>2
<1> QED
  BY <1>1, <1>2, <1>6, <1>7

\* The rows are read under the lock, unless that is told.
LEMMA SelectRowsKeepsSums ==
    ASSUME SchemaInv, SumInv, NEW p \in Procs, SelectRows(p)
    PROVE  SumInv'
<1>1. /\ dups' = [dups EXCEPT ![p] = View(p).rejected] /\ outside' = (outside \/ lock # p)
      /\ step' = [step EXCEPT ![p] = "collapse"] /\ UNCHANGED <<db, lock, draft>>
  BY DEF SelectRows, Holds
<1> SUFFICES ASSUME ~outside, lock = p
             PROVE  /\ AddsUp(db') /\ AddsUp(draft')
                    /\ \A q \in Procs : step'[q] = "collapse" =>
                          lock' = q /\ dups'[q] = draft'.rejected
  BY <1>1, Zenon DEF SumInv, AddsUp
<1>2. AddsUp(db') /\ AddsUp(draft')
  BY <1>1 DEF SumInv, AddsUp
<1>3. ASSUME NEW q \in Procs, step'[q] = "collapse"
      PROVE  lock' = q /\ dups'[q] = draft'.rejected
  <2>1. step \in [Procs -> Steps] /\ dups \in [Procs -> Seq(Nat)]
    BY OutsideIs
  <2>2. CASE q = p
    BY <1>1, <2>1, <2>2 DEF View, Holds
  <2>3. CASE q # p
    <3>1. step[q] = "collapse"
      BY <1>1, <1>3, <2>1, <2>3
    <3> QED
      BY <2>3, <3>1 DEF SumInv
  <2> QED
    BY <2>2, <2>3
<1> QED
  BY <1>2, <1>3

\* The rows that are collapsed are the rows there are, and keep their sum.
LEMMA CollapseKeepsSums ==
    ASSUME SchemaInv, SumInv, NEW p \in Procs, Collapse(p), outside' = outside
    PROVE  SumInv'
<1> SUFFICES ASSUME ~outside
             PROVE  /\ AddsUp(db') /\ AddsUp(draft')
                    /\ \A q \in Procs : step'[q] # "collapse"
  BY DEF SumInv, AddsUp
<1> DEFINE r == Collapsed(dups[p])
<1>1. /\ step[p] = "collapse" /\ draft' = [View(p) EXCEPT !.rejected = r]
      /\ step' = [step EXCEPT ![p] = "index"] /\ db' = db
  BY DEF Collapse
<1>2. lock = p /\ dups[p] = draft.rejected /\ AddsUp(db) /\ AddsUp(draft)
  BY <1>1 DEF SumInv
<1>3. /\ step \in [Procs -> Steps] /\ draft \in Contents /\ dups[p] \in Seq(Nat)
  BY OutsideIs
<1>4. Sum(r) = Sum(dups[p])
  BY <1>3, CollapsedIs
<1> HIDE DEF r
<1>5. View(p) = draft
  BY <1>2 DEF View, Holds
<1>6. draft'.rejected = r /\ draft'.count = draft.count
  BY <1>1, <1>3, <1>5 DEF Contents
<1>7. AddsUp(draft')
  BY <1>2, <1>4, <1>6 DEF AddsUp
<1>8. AddsUp(db')
  BY <1>1, <1>2 DEF AddsUp
<1>9. ASSUME NEW q \in Procs PROVE step'[q] # "collapse"
  <2>1. CASE q = p
    BY <1>1, <1>3, <2>1
  <2>2. CASE q # p
    <3>1. step[q] # "collapse"
      BY <1>2, <2>2 DEF SumInv
    <3> QED
      BY <1>1, <1>3, <2>2, <3>1
  <2> QED
    BY <2>1, <2>2
<1> QED
  BY <1>7, <1>8, <1>9

\* One rejection more is one more in the one row.
LEMMA RejectKeepsSums ==
    ASSUME SchemaInv, SumInv, NEW p \in Procs, Reject(p)
    PROVE  SumInv'
<1> SUFFICES ASSUME ~outside
             PROVE  /\ AddsUp(db') /\ AddsUp(draft')
                    /\ \A q \in Procs : step'[q] = "collapse" =>
                          lock' = q /\ dups'[q] = draft'.rejected
  BY DEF SumInv, AddsUp, Reject
<1> DEFINE x == Head(db.rejected)
           r == <<x + 1>>
           n == db.count + 1
<1>1. /\ lock = Unlocked /\ db.unique /\ db.rejected # <<>>
      /\ db' = [db EXCEPT !.rejected = r, !.count = n]
      /\ draft' = db' /\ step' = step
  BY DEF Reject, opener
<1>2. db \in Contents /\ UniqueRows(db) /\ AddsUp(db) /\ Unlocked \notin Procs
  BY OutsideIs DEF SchemaInv, RowsInv, SumInv
<1>3. x \in Nat /\ db.rejected = <<x>>
  <2>1. db.rejected \in Seq(Nat) /\ Len(db.rejected) <= 1
    BY <1>1, <1>2 DEF Contents, UniqueRows
  <2> QED
    BY <1>1, <2>1, OneRow
<1> HIDE DEF x
<1>4. Sum(r) = n
  <2>1. x + 1 \in Nat
    BY <1>3
  <2>2. Sum(r) = x + 1
    BY <2>1, SumOfOne
  <2>3. db.count = x
    BY <1>2, <1>3, SumOfOne DEF AddsUp
  <2> QED
    BY <2>2, <2>3
<1> HIDE DEF r, n
<1>5. db'.rejected = r /\ db'.count = n
  BY <1>1, <1>2 DEF Contents
<1>6. AddsUp(db') /\ AddsUp(draft')
  BY <1>1, <1>4, <1>5 DEF AddsUp
<1>7. \A q \in Procs : step'[q] # "collapse"
  BY <1>1, <1>2 DEF SumInv
<1> QED
  BY <1>6, <1>7

\* Every step keeps the sums.
LEMMA SumStepInv == SchemaInv /\ SumInv /\ [SchemaNext]_schemaVars => SumInv'
<1> SUFFICES ASSUME SchemaInv, SumInv, [SchemaNext]_schemaVars PROVE SumInv'
  OBVIOUS
<1>1. ASSUME NEW p \in Procs, Migrate(p) PROVE SumInv'
  <2>1. CASE SelectRows(p)
    BY <2>1, SelectRowsKeepsSums
  <2>2. CASE ~SelectRows(p)
    <3>1. /\ outside' = outside
          /\ \/ Inspect(p) \/ Alter(p) \/ NextTable(p) \/ Backfill(p) \/ Dedup(p)
             \/ Collapse(p) \/ Index(p)
      BY <1>1, <2>2 DEF Migrate
    <3>2. CASE Collapse(p)
      BY <3>1, <3>2, CollapseKeepsSums
    <3>3. CASE ~Collapse(p)
      BY <3>1, <3>3, MigratingIsUnchanging, UnchangingKeepsSums
    <3> QED
      BY <3>2, <3>3
  <2> QED
    BY <2>1, <2>2
<1>2. ASSUME NEW p \in Procs,
             \/ Open(p) \/ Leave(p) \/ Commit(p) \/ OpenFails(p) \/ Killed(p)
             \/ SelectLosesStream(p)
      PROVE  SumInv'
  BY <1>2, LeavingIsUnchanging, UnchangingKeepsSums
<1>3. ASSUME NEW p \in Procs, Reject(p) PROVE SumInv'
  BY <1>3, RejectKeepsSums
<1>4. CASE UNCHANGED schemaVars
  <2>1. UNCHANGED <<db, draft, lock, step, dups, outside>>
    BY <1>4 DEF schemaVars
  <2> QED
    BY <2>1, Zenon DEF SumInv, AddsUp
<1> QED
  BY <1>1, <1>2, <1>3, <1>4 DEF SchemaNext

-----------------------------------------------------------------------------
(* What opening the database promises.                                     *)

\* The invariant holds of every behaviour, for any processes and any databases
\* that older versions of the code left.
THEOREM SchemaInvariant == SchemaSpec => []SchemaInv
  BY SchemaInitInv, SchemaStepInv, PTL DEF SchemaSpec

\* Whoever was let in as an owner of the schema works on a migrated database,
\* unless its own migration lost its stream at the dedup's SELECT.
THEOREM OwnersFindTheSchema == SchemaSpec => []OwnerFindsSchema
<1>1. SchemaInv => OwnerFindsSchema
  BY DEF SchemaInv, OwnersInv, OwnerFindsSchema, Owns
<1> QED
  BY <1>1, SchemaInvariant, PTL

\* No rejection is lost or counted twice by a dedup, however it is cut off,
\* redone or overlapped, as long as none has read its rows outside a transaction.
THEOREM RejectionsCount == SchemaSpec => []RejectionsAreKept
<1>1. SchemaInit => SumInv
  <2> SUFFICES ASSUME SchemaInit PROVE SumInv
    OBVIOUS
  <2>1. AddsUp(db) /\ draft = db
    BY DEF SchemaInit, AddsUp
  <2>2. \A p \in Procs : step[p] # "collapse"
    BY DEF SchemaInit
  <2> QED
    BY <2>1, <2>2 DEF SumInv
<1>2. SumInv => RejectionsAreKept
  BY DEF SumInv, AddsUp, RejectionsAreKept
<1> QED
  BY <1>1, <1>2, SumStepInv, SchemaInvariant, PTL DEF SchemaSpec

\* Only an ALTER or the index is refused, and never to a leader.
LEMMA RefusedIsNotLeading ==
    ASSUME SchemaInv, SchemaNext, NEW p \in Procs,
           InProgress(p), step'[p] = "failed", faults' = faults
    PROVE  ~Leads(p)
<1>1. step \in [Procs -> Steps] /\ faults \in Nat /\ step[p] # "failed"
  BY DEF SchemaInv, SchemaTyped, InProgress
<1>2. PICK q \in Procs : \/ Open(q) \/ Leave(q) \/ Migrate(q) \/ Commit(q) \/ Reject(q)
                         \/ OpenFails(q) \/ Killed(q) \/ SelectLosesStream(q)
  BY <1>1 DEF SchemaNext, schemaVars
<1>3. ~CutOff(q)
  BY <1>1 DEF CutOff
<1>4. ~OpenFails(q) /\ ~Killed(q) /\ ~SelectLosesStream(q)
  BY <1>3 DEF OpenFails, Killed, SelectLosesStream
<1>5. ~Open(q) /\ ~Leave(q) /\ ~Commit(q) /\ ~Reject(q)
  <2>1. ASSUME Open(q) PROVE FALSE
    <3>1. q # p
      BY <2>1 DEF Open, InProgress
    <3>2. step'[p] = step[p]
      BY <1>1, <2>1, <3>1 DEF Open
    <3> QED
      BY <1>1, <3>2
  <2>2. ~Leave(q) /\ ~Commit(q) /\ ~Reject(q)
    BY <1>1 DEF Leave, Commit, Reject, opener
  <2> QED
    BY <2>1, <2>2
<1>6. \/ Inspect(q) \/ Alter(q) \/ NextTable(q) \/ Backfill(q) \/ Dedup(q)
      \/ SelectRows(q) \/ Collapse(q) \/ Index(q)
  BY <1>2, <1>4, <1>5 DEF Migrate
<1>7. /\ ~Inspect(q) /\ ~NextTable(q) /\ ~Backfill(q)
      /\ ~Dedup(q) /\ ~SelectRows(q) /\ ~Collapse(q)
  <2>1. ~Inspect(q) /\ ~Backfill(q) /\ ~SelectRows(q) /\ ~Collapse(q)
    BY <1>1 DEF Inspect, Backfill, SelectRows, Collapse
  <2>3. ~Dedup(q)
    BY <1>1 DEF Dedup
  <2>2. ~NextTable(q)
    BY <1>1 DEF NextTable
  <2> QED
    BY <2>1, <2>2, <2>3
<1>8. ASSUME Leads(p), Alter(q) PROVE FALSE
  <2> DEFINE c == NextMissing(q)
  <2>1. /\ step[q] = "alter" /\ Missing(q) # {} /\ MayWrite(q)
        /\ c \in View(q).cols => GiveUp(q)
        /\ c \notin View(q).cols => step' = step
    BY <1>8 DEF Alter
  <2>2. c \in View(q).cols /\ GiveUp(q)
    BY <1>1, <2>1
  <2>3. q = p
    BY <1>1, <2>2 DEF GiveUp
  <2>4. c \in Missing(p)
    <3>1. Progress(p) /\ table[p] \in 1 .. LastTable
      BY <2>1, <2>3, PlaceIs DEF Progress
    <3> QED
      BY <2>1, <2>3, <3>1, NextMissingIs
  <2>5. c \notin found[p]
    BY <2>4, MissingIs
  <2> QED
    BY <1>8, <2>1, <2>2, <2>3, <2>5, LeaderIsNotRefused
<1>9. ASSUME Leads(p), Index(q) PROVE FALSE
  <2> DEFINE V == View(q)
             refused == \/ ~V.unique /\ Len(V.rejected) > 1
                        \/ ~(ColumnsOf(LastTable) \subseteq V.cols)
  <2>1. /\ step[q] = "index"
        /\ refused => GiveUp(q)
        /\ ~refused => step' = [step EXCEPT ![q] = "commit"]
    BY <1>9, ColumnsAre DEF Index
  <2>2. refused /\ GiveUp(q)
    BY <1>1, <2>1
  <2>3. q = p
    BY <1>1, <2>2 DEF GiveUp
  <2>4. Len(V.rejected) \in Nat
    <3>1. db.rejected \in Seq(Nat) /\ draft.rejected \in Seq(Nat)
      BY PlaceIs DEF Contents
    <3> QED
      BY <3>1 DEF View
  <2> QED
    BY <1>9, <2>1, <2>2, <2>3, <2>4, LeaderIsNotRefused
<1> QED
  BY <1>6, <1>7, <1>8, <1>9

\* Openers that race for a column do not shoot each other down: whoever is
\* refused was behind, and then another one leads or has migrated the database.
THEOREM RacesHaveAWinner == SchemaSpec => RaceHasAWinner
<1>1. SchemaInv /\ [SchemaNext]_schemaVars =>
        [\A p \in Procs :
           InProgress(p) /\ step'[p] = "failed" /\ faults' = faults /\ spared[p] /\ ~torn[p]
               => \/ Migrated
                  \/ ~alone[p] /\ \E q \in Procs \ {p} : InProgress(q)]_schemaVars
  <2> SUFFICES ASSUME SchemaInv, SchemaNext, NEW p \in Procs, InProgress(p),
                      step'[p] = "failed", faults' = faults, spared[p], ~torn[p]
               PROVE  \/ Migrated
                      \/ ~alone[p] /\ \E q \in Procs \ {p} : InProgress(q)
    OBVIOUS
  <2>1. ~Leads(p)
    BY RefusedIsNotLeading
  <2>2. Behind(p)
    BY <2>1 DEF Leads
  <2>3. ~alone[p] /\ (Migrated \/ \E q \in Procs \ {p} : Leads(q))
    BY <2>2 DEF SchemaInv, LeaderInv
  <2> QED
    BY <2>3 DEF Leads
<1> QED
  BY <1>1, SchemaInvariant, PTL DEF SchemaSpec, RaceHasAWinner

=============================================================================
