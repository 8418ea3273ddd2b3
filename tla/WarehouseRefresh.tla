-------------------------- MODULE WarehouseRefresh --------------------------
(***************************************************************************)
(* The serving tables of one domain in PostgreSQL: how a load replaces     *)
(* them (src/warehouse/load_gold.py and the loaders of the other domains)  *)
(* and what the transactions that read them see meanwhile: the warehouse   *)
(* quality gate (src/quality/warehouse.py) and the anomaly metrics         *)
(* (src/quality/anomaly_sources.py).                                       *)
(*                                                                         *)
(* A load stages and validates its tables, then publishes them one after   *)
(* the other in one transaction: it renames the staging table where none   *)
(* exists and truncates and refills the table otherwise.  The gate reads   *)
(* all tables in one REPEATABLE READ transaction, in the loaders' order;   *)
(* the metrics are one READ COMMITTED transaction with an order of its     *)
(* own.                                                                    *)
(*                                                                         *)
(* Of PostgreSQL, the module has the table locks (a rewriting statement    *)
(* excludes all others, each lock lasts as long as its transaction), their *)
(* queues, the deadlock detector, and that TRUNCATE is not versioned: a    *)
(* transaction whose snapshot is older than a committed TRUNCATE sees an   *)
(* empty table.                                                            *)
(***************************************************************************)
EXTENDS Naturals, Sequences, FiniteSets, SequencesExt

CONSTANTS
    Published,    \* the tables in the order of the loaders' TABLE_SPECS
    MetricsOrder, \* the tables load_metric_series reads, in its order
    Loader, Gate, Metrics,
    None,         \* nobody, nothing
    MaxLoads      \* bound: loads started; each brings a version of its own

Table == Range(Published)
Reader == Gate \cup Metrics
Process == Loader \cup Reader

ASSUME RefreshAssumption ==
    /\ Published \in Seq(Table) /\ IsInjective(Published) /\ Published # <<>>
    /\ MetricsOrder \in Seq(Table) /\ MetricsOrder # <<>>
    /\ Loader \cap Reader = {} /\ Gate \cap Metrics = {} /\ None \notin Process
    /\ MaxLoads \in Nat

VARIABLES
    served,  \* per table: the version the last committed load gave it, 0 for no table
    loads,   \* loads started so far
    pc,      \* per process: what its transaction does next
    at,      \* per process: the position in its list of tables
    version, \* per loader: the version it loads
    action,  \* per loader: how it will publish its next table
    snapshot,\* per gate: the served versions its transaction sees
    seen,    \* per reader: the contents read, 0 for an empty table
    holders, \* per table: the transactions with a lock on it
    queue    \* per table: the transactions waiting for one, in turn

locks == <<holders, queue>>
vars == <<served, loads, pc, at, version, action, snapshot, seen, locks>>

TypeOK ==
    /\ served \in [Table -> 0 .. loads]
    /\ pc \in [Process -> {"idle", "stage", "look", "publish", "commit", "read"}]
    /\ at \in [Process -> 1 .. Len(Published) + 1]
    /\ version \in [Loader -> 0 .. loads]
    /\ holders \in [Table -> SUBSET Process]
    /\ \A t \in Table : Range(queue[t]) \subseteq Process /\ IsInjective(queue[t])
    \* a loader holds its table alone, and no lock or request outlives its transaction
    /\ \A t \in Table : holders[t] \cap Loader # {} => Cardinality(holders[t]) = 1
    /\ \A t \in Table : \A p \in holders[t] \cup Range(queue[t]) : pc[p] # "idle"

Init ==
    /\ served \in {[t \in Table |-> v] : v \in {0, 1}}
    /\ loads = 1
    /\ pc = [p \in Process |-> "idle"] /\ at = [p \in Process |-> 1]
    /\ version = [l \in Loader |-> 0] /\ action = [l \in Loader |-> None]
    /\ snapshot = [g \in Gate |-> None] /\ seen = [r \in Reader |-> <<>>]
    /\ holders = [t \in Table |-> {}] /\ queue = [t \in Table |-> <<>>]

Goto(p, label) == pc' = [pc EXCEPT ![p] = label]

\* Plausible fault: the gate visits the tables in the reverse order.
TablesReversed(p) == IF p \in Gate THEN Reverse(Published)
                     ELSE IF p \in Metrics THEN MetricsOrder ELSE Published

Tables(p) == IF p \in Metrics THEN MetricsOrder ELSE Published

Current(p) == Tables(p)[at[p]]

\* The next statement of p locks its current table.
Locks(p) == pc[p] = "publish" \/ (pc[p] = "read" /\ served[Current(p)] # 0)

\* Those whose request for the table came before that of p.
Ahead(p) ==
    LET q == queue[Current(p)] IN
    {q[i] : i \in {j \in DOMAIN q : \A k \in 1 .. j : q[k] # p}}

\* The transactions the next statement of p waits for: those that hold, or
\* asked before for, a lock that excludes its own.
Blockers(p) ==
    IF Locks(p)
    THEN {q \in (holders[Current(p)] \cup Ahead(p)) \ {p} : {p, q} \cap Loader # {}}
    ELSE {}

Waiting(p) == \E t \in Table : p \in Range(queue[t])

Wait(p) ==
    /\ Blockers(p) # {} /\ ~Waiting(p)
    /\ queue' = [queue EXCEPT ![Current(p)] = Append(@, p)]
    /\ UNCHANGED <<served, loads, pc, at, version, action, snapshot, seen, holders>>

Dequeued(p) == [t \in Table |-> RemoveFirst(queue[t], p)]

\* Plausible fault: the connection is reused without COMMIT or ROLLBACK.
EndKeepsLocks(p) ==
    /\ Goto(p, "idle")
    /\ at' = [at EXCEPT ![p] = 1]
    /\ queue' = Dequeued(p)
    /\ snapshot' = [g \in Gate |-> IF g = p THEN None ELSE snapshot[g]]
    /\ seen' = [r \in Reader |-> IF r = p THEN <<>> ELSE seen[r]]
    /\ action' = [l \in Loader |-> IF l = p THEN None ELSE action[l]]
    /\ UNCHANGED holders

\* COMMIT or ROLLBACK releases every lock of the transaction.
End(p) ==
    /\ Goto(p, "idle")
    /\ at' = [at EXCEPT ![p] = 1]
    /\ holders' = [t \in Table |-> holders[t] \ {p}]
    /\ queue' = Dequeued(p)
    /\ snapshot' = [g \in Gate |-> IF g = p THEN None ELSE snapshot[g]]
    /\ seen' = [r \in Reader |-> IF r = p THEN <<>> ELSE seen[r]]
    /\ action' = [l \in Loader |-> IF l = p THEN None ELSE action[l]]

Abort(p) == End(p) /\ UNCHANGED <<served, loads, version>>

-----------------------------------------------------------------------------
(* A load.                                                                  *)

\* The Gold tables are read before the transaction begins.
StartLoad(l) ==
    /\ pc[l] = "idle" /\ loads < MaxLoads
    /\ loads' = loads + 1
    /\ version' = [version EXCEPT ![l] = loads + 1]
    /\ Goto(l, "stage")
    /\ UNCHANGED <<served, at, action, snapshot, seen, locks>>

\* Every staging table is created, filled and validated; validation may raise.
Stage(l) ==
    /\ pc[l] = "stage"
    /\ Goto(l, "look")
    /\ UNCHANGED <<served, loads, at, version, action, snapshot, seen, locks>>

\* to_regclass: whether a committed table of the name exists.
Look(l) ==
    /\ pc[l] = "look"
    /\ action' = [action EXCEPT ![l] = IF served[Current(l)] = 0 THEN "rename" ELSE "refill"]
    /\ Goto(l, "publish")
    /\ UNCHANGED <<served, loads, at, version, snapshot, seen, locks>>

\* RENAME of the staging table, or TRUNCATE and INSERT.
Publish(l) ==
    /\ pc[l] = "publish" /\ Blockers(l) = {}
    /\ action[l] = "rename" => served[Current(l)] = 0
    /\ holders' = [holders EXCEPT ![Current(l)] = @ \cup {l}]
    /\ queue' = Dequeued(l)
    /\ at' = [at EXCEPT ![l] = @ + 1]
    /\ Goto(l, IF at[l] = Len(Published) THEN "commit" ELSE "look")
    /\ UNCHANGED <<served, loads, version, action, snapshot, seen>>

\* Another first load took the name in the meantime.
NameTaken(l) ==
    /\ pc[l] = "publish" /\ Blockers(l) = {}
    /\ action[l] = "rename" /\ served[Current(l)] # 0
    /\ Abort(l)

\* Plausible fault: each table is committed as soon as it is published.
CommitLoadPerTable(l) ==
    /\ pc[l] \in {"look", "commit"}
    /\ served' = [t \in Table |-> IF l \in holders[t] THEN version[l] ELSE served[t]]
    /\ IF pc[l] = "commit" THEN End(l)
       ELSE /\ holders' = [t \in Table |-> holders[t] \ {l}]
            /\ UNCHANGED <<pc, at, action, snapshot, seen, queue>>
    /\ UNCHANGED <<loads, version>>

CommitLoad(l) ==
    /\ pc[l] = "commit"
    /\ served' = [t \in Table |-> version[l]]
    /\ End(l)
    /\ UNCHANGED <<loads, version>>

-----------------------------------------------------------------------------
(* The readers.                                                             *)

\* The gate's first statement fixes its snapshot; the metrics have none.
StartReading(r) ==
    /\ pc[r] = "idle"
    /\ snapshot' = [g \in Gate |-> IF g = r THEN served ELSE snapshot[g]]
    /\ Goto(r, "read")
    /\ UNCHANGED <<served, loads, at, version, action, seen, locks>>

\* Plausible fault: every statement is a transaction of its own (autocommit).
ContentReleased(r, t) == [read |-> served[t], keep |-> FALSE]

\* What a statement of r sees of a table, and whether its lock is kept.
Content(r, t) ==
    [read |-> IF r \in Gate /\ snapshot[r][t] # served[t] THEN 0 ELSE served[t],
     keep |-> TRUE]

ReadTable(r) ==
    LET t == Current(r) IN
    /\ pc[r] = "read" /\ served[t] # 0 /\ Blockers(r) = {}
    /\ r \in Gate => snapshot[r][t] # 0
    /\ seen' = [seen EXCEPT ![r] = Append(@, Content(r, t).read)]
    /\ holders' = IF Content(r, t).keep THEN [holders EXCEPT ![t] = @ \cup {r}] ELSE holders
    /\ queue' = Dequeued(r)
    /\ at' = [at EXCEPT ![r] = @ + 1]
    /\ Goto(r, IF at[r] = Len(Tables(r)) THEN "commit" ELSE "read")
    /\ UNCHANGED <<served, loads, version, action, snapshot>>

\* The table does not exist, now or in the gate's snapshot.
TableMissing(r) ==
    /\ pc[r] = "read"
    /\ served[Current(r)] = 0 \/ (r \in Gate /\ snapshot[r][Current(r)] = 0)
    /\ Abort(r)

EndReading(r) == pc[r] = "commit" /\ Abort(r)

-----------------------------------------------------------------------------
\* Transactions that wait for one another in a ring.
Deadlocked(S) ==
    /\ S # {}
    /\ \A p \in S : Waiting(p)
    /\ UNION {Blockers(p) : p \in S} = S

BreakDeadlock(S) == Deadlocked(S) /\ \E p \in S : Abort(p)

\* Any other error, or a lost connection.
Fail(p) == pc[p] # "idle" /\ Abort(p)

LoaderStep(l) ==
    Stage(l) \/ Look(l) \/ Wait(l) \/ Publish(l) \/ NameTaken(l) \/ CommitLoad(l)

ReaderStep(r) == Wait(r) \/ ReadTable(r) \/ TableMissing(r) \/ EndReading(r)

Next ==
    \/ \E l \in Loader : StartLoad(l) \/ LoaderStep(l)
    \/ \E r \in Reader : StartReading(r) \/ ReaderStep(r)
    \/ \E p \in Process : Fail(p)
    \/ \E S \in SUBSET Process : BreakDeadlock(S)

Spec == Init /\ [][Next]_vars

-----------------------------------------------------------------------------
(* Correctness.                                                             *)

\* The committed tables of a domain always come from one and the same load, or
\* none exists: a load that fails, deadlocks or races with another leaves the
\* previous serving snapshot available as a whole. Refinement, below, includes it.
ServedIsOneLoad == \A t, u \in Table : served[t] = served[u]

\* What one transaction reads never mixes two loads, nor a load with nothing.
\* The metrics' statements each see what is committed when they run, but no load
\* can commit between two of them, since it must rewrite a table they have read.
\* A gate may read every table as empty, though it was served at its snapshot,
\* when a load commits before it has read the first; it never reads just some so.
ReadersSeeOneLoad ==
    \A r \in Reader : \A i, j \in DOMAIN seen[r] : seen[r][i] = seen[r][j]

\* The tables together are what ServedSnapshot promises. It says more than the two
\* invariants: what a transaction has read is still what is served when it ends, and
\* tables are found empty only when a load committed after a gate began and before it
\* read the first.
Snapshot == INSTANCE ServedSnapshot WITH
                content <- Range(served),
                base <- [g \in Gate |-> IF pc[g] = "idle" THEN {} ELSE Range(snapshot[g])],
                view <- [r \in Reader |-> Range(seen[r])]
Refinement == Snapshot!Spec

\* Loads and gates never wait for one another in a ring, for they visit the
\* tables in the same order; only the metrics, with their own, can complete one.
RingsNeedMetrics ==
    \A S \in SUBSET Process : Deadlocked(S) => S \cap Metrics # {}

=============================================================================
