--------------------------- MODULE AlertLifecycle ---------------------------
(***************************************************************************)
(* The alert lifecycle kept in the monitoring database by alert_service.py *)
(* and emptied by retention.py.                                            *)
(*                                                                         *)
(* An incident key names a quality check of a dataset or a metric series.  *)
(* An occurrence identity is derived from an execution and what incident   *)
(* keys are derived from, and leaves out the attempt; here it is the pair  *)
(* of an execution and an incident.                                        *)
(*                                                                         *)
(* Every action is one committed transaction.  AlertTransactions models    *)
(* the locks that make the transactions atomic; a transaction that raises  *)
(* is rolled back, a stuttering step here.                                 *)
(***************************************************************************)
EXTENDS Integers, FiniteSets, Sequences

CONSTANTS
  Incident,       \* incident keys
  Instance,       \* identities (uuid4) of the alerts of one incident
  Execution,      \* logical executions of the quality and anomaly runners
  Attempt,        \* attempt numbers of an execution
  None,           \* no alert
  RetentionDays,  \* MONITORING_RETENTION_DAYS
  Horizon         \* bound on the clock

ASSUME ExecutionAssumption == IsFiniteSet(Execution)
ASSUME NoneAssumption == None \notin Instance
ASSUME RetentionAssumption == RetentionDays \in Nat

VARIABLES
  alerts,    \* alert_events, by incident and instance
  receipts,  \* alert_occurrences, by execution and incident
  history,   \* alert_event_history: the successive statuses of an alert
  now,       \* the clock, in days
  ledger     \* auxiliary: each <<execution, incident, instance>> ever counted

vars == <<alerts, receipts, history, now, ledger>>

-----------------------------------------------------------------------------
Severity == {"WARNING", "CRITICAL"}

ActiveStatus == {"OPEN", "ACKNOWLEDGED"}

KeptStatus == ActiveStatus \cup {"RESOLVED"}

\* A purged row is gone, and its identity is never drawn again.
Row == [status : KeptStatus \cup {"UNUSED", "PURGED"}, severity : Severity,
        count : Nat, first : Nat, last : Nat,
        source : Execution \X Attempt \cup {<< >>}, resolved : Nat]

NoRow == [status |-> "UNUSED", severity |-> "WARNING", count |-> 0,
          first |-> 0, last |-> 0, source |-> << >>, resolved |-> 0]

PurgedRow == [NoRow EXCEPT !.status = "PURGED"]

Receipt == [instance : Instance \cup {None}, seen : Nat, severity : Severity]

NoReceipt == [instance |-> None, seen |-> 0, severity |-> "WARNING"]

\* What a persisted run raises for one incident.
Finding == [severity : Severity, seen : 0..now]

-----------------------------------------------------------------------------
\* Plausible fault: only receipts of active alerts are looked up.
KnownWhileActive(x, k) ==
  receipts[x][k].instance # None
  /\ alerts[k][receipts[x][k].instance].status \in ActiveStatus

Known(x, k) == receipts[x][k].instance # None

CountedIn(k, i) == {x \in Execution : receipts[x][k].instance = i}

Active(k) == {i \in Instance : alerts[k][i].status \in ActiveStatus}

Unused(k) == {i \in Instance : alerts[k][i].status = "UNUSED"}

\* Plausible faults of Target: look for OPEN alerts only; open a new alert for the replay
\* of a resolved one.
TargetOpenOnly(x, k) ==
  LET Open == {i \in Instance : alerts[k][i].status = "OPEN"}
  IN CASE Known(x, k) -> receipts[x][k].instance
       [] ~Known(x, k) /\ Open = {} /\ Unused(k) # {} -> CHOOSE i \in Unused(k) : TRUE
       [] OTHER -> CHOOSE i \in Active(k) : TRUE

TargetReopens(x, k) ==
  CASE Active(k) # {} -> CHOOSE i \in Active(k) : TRUE
    [] Active(k) = {} /\ Unused(k) # {} -> CHOOSE i \in Unused(k) : TRUE
    [] OTHER -> receipts[x][k].instance

\* The alert of the receipt, else the active one, else a new one.
Target(x, k) ==
  IF Known(x, k) THEN receipts[x][k].instance
  ELSE IF Active(k) # {} THEN CHOOSE i \in Active(k) : TRUE
  ELSE CHOOSE i \in Unused(k) : TRUE

\* Bound: the model has an identity left whenever uuid4 would draw one.
IdentityLeft(x, k) == Known(x, k) \/ Active(k) # {} \/ Unused(k) # {}

\* Plausible faults: the latest severity wins; an offset instead of the least.
WorstIsLatest(s, t) == t

LeastAsOffset(m, n) == m - n

Worst(s, t) == IF "CRITICAL" \in {s, t} THEN "CRITICAL" ELSE "WARNING"

Least(m, n) == IF m <= n THEN m ELSE n

Greatest(m, n) == IF m <= n THEN n ELSE m

Opened(f, source) ==
  [status |-> "OPEN", severity |-> f.severity, count |-> 1, first |-> f.seen,
   last |-> f.seen, source |-> source, resolved |-> 0]

\* Evidence follows observation time.
Updated(row, f, source, weight) ==
  [status |-> row.status,
   severity |-> Worst(row.severity, f.severity),
   count |-> row.count + weight,
   first |-> Least(row.first, f.seen),
   last |-> Greatest(row.last, f.seen),
   source |-> IF f.seen >= row.last THEN source ELSE row.source,
   resolved |-> row.resolved]

\* Plausible fault: a replay counts.
WeightOfReplay(x, k) == 1

\* A replay is not counted again.
Weight(x, k) == IF Known(x, k) THEN 0 ELSE 1

\* Plausible fault: the replay of a resolved alert updates it.
RecordedResolved(row, f, source, weight) ==
  IF row.status = "UNUSED" THEN Opened(f, source) ELSE Updated(row, f, source, weight)

\* record_alert on the row it targets; the replay of a resolved alert returns.
Recorded(row, f, source, weight) ==
  IF row.status = "UNUSED" THEN Opened(f, source)
  ELSE IF row.status = "RESOLVED" THEN row
  ELSE Updated(row, f, source, weight)

\* An attempt of an execution persists its findings, one record_alert for each
\* incident in DOMAIN findings, all in one transaction.
RecordAlerts(x, attempt, findings) ==
  /\ \A k \in DOMAIN findings : IdentityLeft(x, k)
  /\ alerts' = [k \in Incident |-> [i \in Instance |->
       IF k \in DOMAIN findings /\ i = Target(x, k)
       THEN Recorded(alerts[k][i], findings[k], <<x, attempt>>, Weight(x, k))
       ELSE alerts[k][i]]]
  /\ receipts' = [receipts EXCEPT ![x] = [k \in Incident |->
       IF k \in DOMAIN findings /\ ~Known(x, k)
       THEN [instance |-> Target(x, k), seen |-> findings[k].seen,
             severity |-> findings[k].severity]
       ELSE receipts[x][k]]]
  /\ history' = [k \in Incident |-> [i \in Instance |->
       IF k \in DOMAIN findings /\ i = Target(x, k) /\ alerts[k][i].status = "UNUSED"
       THEN <<"OPEN">>
       ELSE history[k][i]]]
  /\ ledger' = ledger \cup
       {<<x, k, Target(x, k)>> : k \in {k \in DOMAIN findings : ~Known(x, k)}}
  /\ UNCHANGED now

-----------------------------------------------------------------------------
ValidTransition(previous, target) ==
  <<previous, target>> \in {<<"OPEN", "ACKNOWLEDGED">>, <<"OPEN", "RESOLVED">>,
                            <<"ACKNOWLEDGED", "RESOLVED">>}

Moved(row, target) ==
  [status |-> target, severity |-> row.severity, count |-> row.count,
   first |-> row.first, last |-> row.last, source |-> row.source,
   resolved |-> IF target = "RESOLVED" THEN now ELSE row.resolved]

\* Plausible fault: an acknowledgement is not audited.
ChangeStatusUnaudited(k, i, target) ==
  /\ ValidTransition(alerts[k][i].status, target)
  /\ alerts' = [alerts EXCEPT ![k][i] = Moved(alerts[k][i], target)]
  /\ history' = IF target = "RESOLVED"
                THEN [history EXCEPT ![k][i] = Append(@, target)] ELSE history
  /\ UNCHANGED <<receipts, now, ledger>>

\* acknowledge_alert and resolve_alert
ChangeStatus(k, i, target) ==
  /\ ValidTransition(alerts[k][i].status, target)
  /\ alerts' = [alerts EXCEPT ![k][i] = Moved(alerts[k][i], target)]
  /\ history' = [history EXCEPT ![k][i] = Append(@, target)]
  /\ UNCHANGED <<receipts, now, ledger>>

\* Resolved alerts older than the cutoff of a retention that started at "at".
Expired(k, i, at) ==
  alerts[k][i].status = "RESOLVED" /\ alerts[k][i].resolved < at - RetentionDays

\* apply_retention deletes them with their history and receipts.
PurgeAlerts(at) ==
  /\ alerts' = [k \in Incident |-> [i \in Instance |->
       IF Expired(k, i, at) THEN PurgedRow ELSE alerts[k][i]]]
  /\ history' = [k \in Incident |-> [i \in Instance |->
       IF Expired(k, i, at) THEN << >> ELSE history[k][i]]]
  /\ receipts' = [x \in Execution |-> [k \in Incident |->
       IF Known(x, k) /\ Expired(k, receipts[x][k].instance, at)
       THEN NoReceipt ELSE receipts[x][k]]]
  /\ UNCHANGED <<now, ledger>>

Tick ==
  /\ now < Horizon
  /\ now' = now + 1
  /\ UNCHANGED <<alerts, receipts, history, ledger>>

Init ==
  /\ alerts = [k \in Incident |-> [i \in Instance |-> NoRow]]
  /\ receipts = [x \in Execution |-> [k \in Incident |-> NoReceipt]]
  /\ history = [k \in Incident |-> [i \in Instance |-> << >>]]
  /\ now = 0
  /\ ledger = {}

Next ==
  \/ \E x \in Execution, attempt \in Attempt, K \in SUBSET Incident :
       \E findings \in [K -> Finding] : RecordAlerts(x, attempt, findings)
  \/ \E k \in Incident, i \in Instance, target \in {"ACKNOWLEDGED", "RESOLVED"} :
       ChangeStatus(k, i, target)
  \/ \E at \in 0..now : PurgeAlerts(at)
  \/ Tick

Spec == Init /\ [][Next]_vars

-----------------------------------------------------------------------------
\* The tables have their column types.
TypeOK ==
  /\ alerts \in [Incident -> [Instance -> Row]]
  /\ receipts \in [Execution -> [Incident -> Receipt]]
  /\ history \in [Incident -> [Instance -> Seq(KeptStatus)]]
  /\ now \in Nat
  /\ ledger \in SUBSET (Execution \X Incident \X Instance)

\* An incident has at most one OPEN or ACKNOWLEDGED alert, which is what the
\* partial unique index of alert_migration.py demands of record_alert.
OneActiveAlert ==
  \A k \in Incident : \A i, j \in Active(k) : i = j

\* occurrence_count is the number of distinct executions counted in an alert,
\* however often they were replayed.
CountsExecutions ==
  \A k \in Incident, i \in Instance :
    alerts[k][i].count = Cardinality(CountedIn(k, i))

\* Every receipt belongs to a kept alert that is at least as severe and whose
\* first and last sighting enclose the receipt's observation.
ReceiptsWithinAlert ==
  \A x \in Execution, k \in Incident : Known(x, k) =>
    LET row == alerts[k][receipts[x][k].instance]
    IN /\ row.status \in KeptStatus
       /\ row.severity = Worst(row.severity, receipts[x][k].severity)
       /\ row.first <= receipts[x][k].seen
       /\ receipts[x][k].seen <= row.last

\* The audit of a kept alert is a chain of valid transitions from OPEN to its
\* current status; no other alert has one.
AuditIsChain ==
  \A k \in Incident, i \in Instance :
    LET audit == history[k][i]
    IN IF alerts[k][i].status \in KeptStatus
       THEN /\ audit # << >>
            /\ audit[1] = "OPEN"
            /\ audit[Len(audit)] = alerts[k][i].status
            /\ \A n \in 1..(Len(audit) - 1) : ValidTransition(audit[n], audit[n + 1])
       ELSE audit = << >>

\* An execution counted in several alerts of an incident was counted again only
\* after retention purged the earlier ones.
CountedAgainOnlyAfterPurge ==
  \A e \in ledger :
    \/ receipts[e[1]][e[2]].instance = e[3]
    \/ alerts[e[2]][e[3]].status = "PURGED"

ResolvedRowKept ==
  \A k \in Incident, i \in Instance : alerts[k][i].status = "RESOLVED" =>
    alerts'[k][i] \in {alerts[k][i], PurgedRow}

\* Neither a replay nor a late observation changes a resolved alert.
ResolvedIsFrozen == [][ResolvedRowKept]_vars

OpenedByNewExecution ==
  \A k \in Incident, i \in Instance :
    alerts[k][i].status = "UNUSED" /\ alerts'[k][i].status # "UNUSED" =>
      \E x \in Execution : ~Known(x, k) /\ receipts'[x][k].instance = i

\* An alert is opened only by an execution that has no receipt for its incident.
OpensForNewExecution == [][OpenedByNewExecution]_vars

=============================================================================
