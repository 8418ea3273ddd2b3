-------------------------- MODULE AlertTransactions --------------------------
(***************************************************************************)
(* The transactions behind the atomic steps of AlertLifecycle, with the    *)
(* locks PostgreSQL takes for them under READ COMMITTED:                   *)
(*                                                                         *)
(*  - a recorder (persist_quality_run, persist_anomalies) visits its       *)
(*    incidents in a fixed order, takes each incident's advisory lock,     *)
(*    then reads and locks the alert row, and writes when it commits;      *)
(*  - an operator (change_status) takes the incident's advisory lock and   *)
(*    the row, validates the transition and commits;                       *)
(*  - the janitor (apply_retention) locks the rows of every expired alert, *)
(*    without the incidents' locks, and deletes them.                      *)
(*                                                                         *)
(* A statement reads what is committed.  Locks are held to the end of the  *)
(* transaction.  A transaction that raises, or that PostgreSQL picks to    *)
(* break a deadlock, is rolled back.                                       *)
(***************************************************************************)
EXTENDS Integers, FiniteSets, Sequences, FiniteSetsExt

CONSTANTS
  Incident, Instance, Execution, Attempt, None, RetentionDays, Horizon,
  Recorder,    \* processes that persist quality runs and anomalies
  Operator,    \* processes that acknowledge and resolve
  Janitor,     \* processes that apply retention
  Runs         \* the runs persisted: execution, attempt, findings by incident

\* Incidents are numbered in the order in which recorders sort them.
ASSUME IncidentAssumption == Incident \subseteq Nat
ASSUME ExecutionAssumption == IsFiniteSet(Execution)
ASSUME RetentionAssumption == RetentionDays \in Nat

VARIABLES
  alerts, receipts, history, now, ledger,  \* the committed tables
  pc,      \* where each transaction stands
  job,     \* what it was called with
  todo,    \* incidents (recorder) or rows (janitor) it has not locked yet
  target,  \* the row it is about to lock
  plan,    \* recorder: what it writes for each incident it has visited
  lock     \* the holder of each lock

tables == <<alerts, receipts, history, now, ledger>>
transactions == <<pc, job, todo, target, plan, lock>>
vars == <<tables, transactions>>

Lifecycle == INSTANCE AlertLifecycle

Process == Recorder \cup Operator \cup Janitor

ASSUME ProcessAssumption ==
  /\ Recorder \cap Operator = {}
  /\ Recorder \cap Janitor = {}
  /\ Operator \cap Janitor = {}
ASSUME NoneAssumption == None \notin Instance /\ None \notin Process
ASSUME RunsAssumption == \A run \in Runs :
  /\ run.x \in Execution
  /\ run.attempt \in Attempt
  /\ DOMAIN run.findings \subseteq Incident
  /\ run.findings \in [DOMAIN run.findings -> [severity : Lifecycle!Severity, seen : Nat]]

Alert == Incident \X Instance

\* The advisory locks of the incidents, the row locks, and RETENTION_LOCK.
KeyLock(k) == <<"key", k>>
RowLock(a) == <<"row", a[1], a[2]>>
RetentionLock == <<"retention">>

Lock == {KeyLock(k) : k \in Incident} \cup {RowLock(a) : a \in Alert}
          \cup {RetentionLock}

StatusOf(a) == alerts[a[1]][a[2]].status

Expired(at) == {a \in Alert : Lifecycle!Expired(a[1], a[2], at)}

-----------------------------------------------------------------------------
\* Plausible fault: each run visits its incidents in an order of its own.
NextKeyUnsorted(w) ==
  IF job[w].x = (CHOOSE x \in Execution : TRUE) THEN Max(todo[w]) ELSE Min(todo[w])

\* The incident a recorder visits next.
NextKey(w) == Min(todo[w])

\* Plausible faults: record_alert skips the incident's lock; retention skips its own;
\* record_alert reads the row without FOR UPDATE.
WantsNoKey(w) ==
  CASE pc[w] = "key" -> {KeyLock(target[w][1])}
    [] pc[w] \in {"row", "sweep"} -> {RowLock(target[w])}
    [] pc[w] = "retention" -> {RetentionLock}
    [] OTHER -> {}

WantsNoRetention(w) ==
  CASE pc[w] = "visit" /\ todo[w] # {} -> {KeyLock(NextKey(w))}
    [] pc[w] = "key" -> {KeyLock(target[w][1])}
    [] pc[w] \in {"row", "sweep"} -> {RowLock(target[w])}
    [] OTHER -> {}

\* The lock that a transaction's next statement takes.
Wants(w) ==
  CASE pc[w] = "visit" /\ todo[w] # {} -> {KeyLock(NextKey(w))}
    [] pc[w] = "key" -> {KeyLock(target[w][1])}
    [] pc[w] \in {"row", "sweep"} -> {RowLock(target[w])}
    [] pc[w] = "retention" -> {RetentionLock}
    [] OTHER -> {}

BlockedBy(w) == {lock[l] : l \in Wants(w)} \ {None, w}

Take(w) ==
  /\ BlockedBy(w) = {}
  /\ lock' = [l \in Lock |-> IF l \in Wants(w) THEN w ELSE lock[l]]

Goto(w, label) == pc' = [pc EXCEPT ![w] = label]

\* Plausible fault: session locks, which outlive the transaction.
EndKeepsLocks(w) ==
  /\ Goto(w, "idle")
  /\ job' = [job EXCEPT ![w] = None]
  /\ todo' = [todo EXCEPT ![w] = {}]
  /\ target' = [target EXCEPT ![w] = None]
  /\ plan' = [plan EXCEPT ![w] = << >>]
  /\ UNCHANGED lock

\* COMMIT or ROLLBACK.
End(w) ==
  /\ Goto(w, "idle")
  /\ job' = [job EXCEPT ![w] = None]
  /\ todo' = [todo EXCEPT ![w] = {}]
  /\ target' = [target EXCEPT ![w] = None]
  /\ plan' = [plan EXCEPT ![w] = << >>]
  /\ lock' = [l \in Lock |-> IF lock[l] = w THEN None ELSE lock[l]]

Abort(w) == End(w) /\ UNCHANGED tables

-----------------------------------------------------------------------------
\* persist_quality_run, persist_anomalies: of what was observed before.
StartRun(w, run) ==
  /\ pc[w] = "idle"
  /\ \A k \in DOMAIN run.findings : run.findings[k].seen <= now
  /\ Goto(w, "visit")
  /\ job' = [job EXCEPT ![w] = run]
  /\ todo' = [todo EXCEPT ![w] = DOMAIN run.findings]
  /\ UNCHANGED <<tables, target, plan, lock>>

Planned(w, k, act) ==
  /\ plan' = [plan EXCEPT ![w] =
       [l \in DOMAIN @ \cup {k} |-> IF l = k THEN act ELSE @[l]]]
  /\ todo' = [todo EXCEPT ![w] = @ \ {k}]

\* record_alert: with the incident's lock, read the receipt, else the active
\* alert; with neither, plan an insert.
Visit(w) ==
  /\ pc[w] = "visit" /\ todo[w] # {}
  /\ Take(w)
  /\ LET k == NextKey(w)
         found == IF Lifecycle!Known(job[w].x, k) THEN {receipts[job[w].x][k].instance}
                  ELSE Lifecycle!Active(k)
     IN \/ /\ found = {} /\ Lifecycle!Unused(k) # {}
           /\ Planned(w, k, [do |-> "insert"])
           /\ UNCHANGED <<pc, target>>
        \/ \E i \in found :
             /\ target' = [target EXCEPT ![w] = <<k, i>>]
             /\ Goto(w, "row")
             /\ UNCHANGED <<plan, todo>>
  /\ UNCHANGED <<tables, job>>

\* Bound: the model has no identity left for the alert to insert.
Exhausted(w) ==
  /\ pc[w] = "visit" /\ todo[w] # {}
  /\ BlockedBy(w) = {}
  /\ ~Lifecycle!IdentityLeft(job[w].x, NextKey(w))
  /\ Abort(w)

\* Plausible fault: the status of a replayed alert is not looked at.
ActReplayed(w) == [do |-> "update", i |-> target[w][2]]

\* What record_alert writes for the row it has locked.
Act(w) ==
  [do |-> IF StatusOf(target[w]) = "RESOLVED" THEN "keep" ELSE "update",
   i |-> target[w][2]]

\* Plausible fault: a row that retention has deleted is not noticed.
LockRowUnchecked(w) ==
  /\ pc[w] = "row" /\ w \in Recorder
  /\ Take(w)
  /\ Planned(w, target[w][1], Act(w))
  /\ target' = [target EXCEPT ![w] = None]
  /\ Goto(w, "visit")
  /\ UNCHANGED <<tables, job>>

\* The row lock, and the status under it; a row that retention has deleted
\* raises.
LockRow(w) ==
  /\ pc[w] = "row" /\ w \in Recorder
  /\ StatusOf(target[w]) # "PURGED"
  /\ Take(w)
  /\ Planned(w, target[w][1], Act(w))
  /\ target' = [target EXCEPT ![w] = None]
  /\ Goto(w, "visit")
  /\ UNCHANGED <<tables, job>>

MissRow(w) ==
  /\ pc[w] = "row" /\ BlockedBy(w) = {} /\ StatusOf(target[w]) = "PURGED"
  /\ Abort(w)

Inserts(w) == {k \in DOMAIN plan[w] : plan[w][k].do = "insert"}

\* The partial unique index refuses a second active alert.
Refused(w) == \E k \in Inserts(w) : Lifecycle!Active(k) # {}

WriteRun(w) ==
  LET x == job[w].x
      f == job[w].findings
      Identity(k) == IF k \in Inserts(w) THEN CHOOSE i \in Lifecycle!Unused(k) : TRUE
                     ELSE plan[w][k].i
      New == {k \in DOMAIN plan[w] : ~Lifecycle!Known(x, k)}
      Written(k, i) ==
        CASE plan[w][k].do = "insert" -> Lifecycle!Opened(f[k], <<x, job[w].attempt>>)
          [] plan[w][k].do = "update" ->
               Lifecycle!Updated(alerts[k][i], f[k], <<x, job[w].attempt>>,
                                 IF k \in New THEN 1 ELSE 0)
          [] OTHER -> alerts[k][i]
  IN /\ alerts' = [k \in Incident |-> [i \in Instance |->
          IF k \in DOMAIN plan[w] /\ i = Identity(k) THEN Written(k, i) ELSE alerts[k][i]]]
     /\ receipts' = [receipts EXCEPT ![x] = [k \in Incident |->
          IF k \in New
          THEN [instance |-> Identity(k), seen |-> f[k].seen, severity |-> f[k].severity]
          ELSE @[k]]]
     /\ history' = [k \in Incident |-> [i \in Instance |->
          IF k \in Inserts(w) /\ i = Identity(k) THEN <<"OPEN">> ELSE history[k][i]]]
     /\ ledger' = ledger \cup {<<x, k, Identity(k)>> : k \in New}
     /\ UNCHANGED now

CommitRun(w) ==
  /\ pc[w] = "visit" /\ todo[w] = {}
  /\ IF Refused(w) THEN UNCHANGED tables ELSE WriteRun(w)
  /\ End(w)

-----------------------------------------------------------------------------
\* change_status: the incident key of an alert is read before the locks.
StartChange(w, a, status) ==
  /\ pc[w] = "idle"
  /\ StatusOf(a) \notin {"UNUSED", "PURGED"}
  /\ Goto(w, "key")
  /\ job' = [job EXCEPT ![w] = status]
  /\ target' = [target EXCEPT ![w] = a]
  /\ UNCHANGED <<tables, todo, plan, lock>>

LockKey(w) ==
  /\ pc[w] = "key"
  /\ Take(w)
  /\ Goto(w, "row")
  /\ UNCHANGED <<tables, job, todo, target, plan>>

ChangeRow(w) ==
  /\ pc[w] = "row" /\ w \in Operator
  /\ BlockedBy(w) = {}
  /\ Lifecycle!ChangeStatus(target[w][1], target[w][2], job[w])
  /\ End(w)

RefuseChange(w) ==
  /\ pc[w] = "row" /\ w \in Operator
  /\ BlockedBy(w) = {}
  /\ StatusOf(target[w]) # "PURGED"
  /\ ~Lifecycle!ValidTransition(StatusOf(target[w]), job[w])
  /\ Abort(w)

-----------------------------------------------------------------------------
\* apply_retention: the cutoff is computed first.
StartRetention(w) ==
  /\ pc[w] = "idle"
  /\ Goto(w, "retention")
  /\ job' = [job EXCEPT ![w] = now]
  /\ UNCHANGED <<tables, todo, target, plan, lock>>

\* The next of the rows; their order, that of random identities, is any order.
SweepNext(w, rows) ==
  IF rows = {}
  THEN Goto(w, "delete") /\ target' = [target EXCEPT ![w] = None]
  ELSE \E a \in rows : Goto(w, "sweep") /\ target' = [target EXCEPT ![w] = a]

LockRetention(w) ==
  /\ pc[w] = "retention"
  /\ Take(w)
  /\ todo' = [todo EXCEPT ![w] = Expired(job[w])]
  /\ SweepNext(w, Expired(job[w]))
  /\ UNCHANGED <<tables, job, plan>>

Sweep(w) ==
  /\ pc[w] = "sweep"
  /\ Take(w)
  /\ todo' = [todo EXCEPT ![w] = @ \ {target[w]}]
  /\ SweepNext(w, todo[w] \ {target[w]})
  /\ UNCHANGED <<tables, job, plan>>

Delete(w) == pc[w] = "delete" /\ Lifecycle!PurgeAlerts(job[w]) /\ End(w)

-----------------------------------------------------------------------------
\* Transactions that wait for one another in a ring.
Deadlocked(S) ==
  /\ S # {}
  /\ \A w \in S : BlockedBy(w) # {}
  /\ UNION {BlockedBy(w) : w \in S} = S

\* PostgreSQL aborts a transaction of the ring.
BreakDeadlock(S) == Deadlocked(S) /\ \E w \in S : Abort(w)

\* Any other error, or a lost connection.
Fail(w) == pc[w] # "idle" /\ Abort(w)

Tick == Lifecycle!Tick /\ UNCHANGED transactions

Init ==
  /\ Lifecycle!Init
  /\ pc = [w \in Process |-> "idle"]
  /\ job = [w \in Process |-> None]
  /\ todo = [w \in Process |-> {}]
  /\ target = [w \in Process |-> None]
  /\ plan = [w \in Process |-> << >>]
  /\ lock = [l \in Lock |-> None]

Proceed(w) ==
  \/ Visit(w) \/ Exhausted(w) \/ LockRow(w) \/ MissRow(w) \/ CommitRun(w)
  \/ LockKey(w) \/ ChangeRow(w) \/ RefuseChange(w)
  \/ LockRetention(w) \/ Sweep(w) \/ Delete(w)

Next ==
  \/ \E w \in Recorder, run \in Runs : StartRun(w, run)
  \/ \E w \in Operator, a \in Alert, status \in {"ACKNOWLEDGED", "RESOLVED"} :
       StartChange(w, a, status)
  \/ \E w \in Janitor : StartRetention(w)
  \/ \E w \in Process : Proceed(w) \/ Fail(w)
  \/ \E S \in SUBSET Process : BreakDeadlock(S)
  \/ Tick

Spec == Init /\ [][Next]_vars

\* A transaction proceeds, lock queues are served in turn, and the deadlock
\* detector runs.
Fairness ==
  /\ \A w \in Process : SF_vars(Proceed(w))
  /\ WF_vars(\E S \in SUBSET Process : BreakDeadlock(S))

FairSpec == Spec /\ Fairness

-----------------------------------------------------------------------------
\* The tables keep their types, and a transaction holds locks only while it runs.
TypeOK ==
  /\ Lifecycle!TypeOK
  /\ pc \in [Process -> {"idle", "visit", "row", "key", "retention", "sweep", "delete"}]
  /\ lock \in [Lock -> Process \cup {None}]
  /\ \A l \in Lock : lock[l] = None \/ pc[lock[l]] # "idle"

\* Every transaction is atomic: each commit is one step of AlertLifecycle, the
\* rest changes nothing.
Refinement == Lifecycle!Spec

\* What record_alert read for one incident is still true when the transaction
\* commits after visiting the others.
PlanStaysCurrent ==
  \A w \in Recorder : \A k \in DOMAIN plan[w] :
    CASE plan[w][k].do = "insert" ->
           ~Lifecycle!Known(job[w].x, k) /\ Lifecycle!Active(k) = {}
      [] plan[w][k].do = "update" -> plan[w][k].i \in Lifecycle!Active(k)
      [] OTHER -> StatusOf(<<k, plan[w][k].i>>) = "RESOLVED"

\* Sorted visits: recorders and operators never deadlock among themselves; only
\* retention, which takes row locks in another order, can complete a ring.
RingsNeedRetention ==
  \A S \in SUBSET Process : Deadlocked(S) => S \cap Janitor # {}

\* apply_retention deletes exactly the rows it locked, so that its comparison of
\* counted and deleted rows holds.
EligibilityStable ==
  \A w \in Janitor : pc[w] \in {"sweep", "delete"} =>
    todo[w] \cup {a \in Alert : lock[RowLock(a)] = w} = Expired(job[w])

\* Every transaction ends, through a deadlock if need be.
TransactionsEnd == \A w \in Process : pc[w] # "idle" ~> pc[w] = "idle"

=============================================================================
