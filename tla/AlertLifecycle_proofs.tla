------------------------ MODULE AlertLifecycle_proofs ------------------------
(* What AlertLifecycle guarantees for every set of incidents, alert          *)
(* identities, executions and attempts, every clock and retention period.    *)
EXTENDS AlertLifecycle, FiniteSetTheorems, TLAPS

\* The inductive invariant: a count is 0 exactly where no receipt points, so an
\* unused identity is uncounted, and a receipt never points at a purged alert.
IInv ==
  /\ TypeOK
  /\ OneActiveAlert
  /\ CountsExecutions
  /\ ReceiptsWithinAlert
  /\ CountedAgainOnlyAfterPurge

-----------------------------------------------------------------------------
\* The alert record_alert writes to exists; it is a kept one for a replay, and
\* otherwise the active alert or, when there is none, an unused identity.
LEMMA TargetRow ==
  ASSUME TypeOK, ReceiptsWithinAlert,
         NEW x \in Execution, NEW k \in Incident, IdentityLeft(x, k)
  PROVE  /\ Target(x, k) \in Instance
         /\ Known(x, k) => alerts[k][Target(x, k)].status \in KeptStatus
         /\ ~Known(x, k) =>
              \/ Target(x, k) \in Active(k)
              \/ Active(k) = {} /\ alerts[k][Target(x, k)].status = "UNUSED"
<1>1. CASE Known(x, k)
  <2>1. receipts[x][k].instance \in Instance
    BY <1>1 DEF TypeOK, Receipt, Known
  <2>2. Target(x, k) = receipts[x][k].instance
    BY <1>1 DEF Target
  <2>3. QED
    BY <1>1, <2>1, <2>2 DEF ReceiptsWithinAlert
<1>2. CASE ~Known(x, k) /\ Active(k) # {}
  BY <1>2 DEF Target, Active
<1>3. CASE ~Known(x, k) /\ Active(k) = {}
  <2>1. Unused(k) # {}
    BY <1>3 DEF IdentityLeft
  <2>2. Target(x, k) \in Unused(k)
    BY <1>3, <2>1 DEF Target
  <2>3. QED
    BY <1>3, <2>2 DEF Unused
<1>4. QED
  BY <1>1, <1>2, <1>3

\* The rows record_alert writes are rows.
LEMMA RecordedRow ==
  ASSUME TypeOK, NEW row \in Row, NEW f \in Finding, NEW weight \in {0, 1},
         NEW source \in Execution \X Attempt
  PROVE  /\ Recorded(row, f, source, weight) \in Row
         /\ Opened(f, source) \in Row
         /\ Updated(row, f, source, weight) \in Row
<1>1. f.severity \in Severity /\ f.seen \in Nat
  BY DEF Finding, TypeOK
<1>2. Opened(f, source) \in Row
  BY <1>1 DEF Opened, Row, KeptStatus, ActiveStatus
<1>3. Updated(row, f, source, weight) \in Row
  <2>1. /\ Worst(row.severity, f.severity) \in Severity
        /\ Least(row.first, f.seen) \in Nat
        /\ Greatest(row.last, f.seen) \in Nat
        /\ row.count + weight \in Nat
    BY <1>1 DEF Worst, Least, Greatest, Severity, Row
  <2>2. QED
    BY <2>1 DEF Updated, Row
<1>4. QED
  BY <1>2, <1>3 DEF Recorded

-----------------------------------------------------------------------------
Untouched(k, i) ==
  alerts'[k][i] = alerts[k][i] /\ CountedIn(k, i)' = CountedIn(k, i)

OpenedBy(x, k, i, f, source) ==
  /\ ~Known(x, k)
  /\ Active(k) = {}
  /\ alerts[k][i].status = "UNUSED"
  /\ alerts'[k][i] = Opened(f, source)
  /\ CountedIn(k, i)' = CountedIn(k, i) \cup {x}

CountedBy(x, k, i, f, source) ==
  /\ ~Known(x, k)
  /\ alerts[k][i].status \in ActiveStatus
  /\ alerts'[k][i] = Updated(alerts[k][i], f, source, 1)
  /\ CountedIn(k, i)' = CountedIn(k, i) \cup {x}

ReplayedBy(x, k, i, f, source) ==
  /\ alerts[k][i].status \in ActiveStatus
  /\ alerts'[k][i] = Updated(alerts[k][i], f, source, 0)
  /\ CountedIn(k, i)' = CountedIn(k, i)

\* What one transaction does to one alert: nothing, or exactly one of opening
\* it, counting a new execution in it and refreshing it for a replay.
LEMMA RecordCases ==
  ASSUME TypeOK, ReceiptsWithinAlert,
         NEW x \in Execution, NEW attempt \in Attempt, NEW K \in SUBSET Incident,
         NEW findings \in [K -> Finding], RecordAlerts(x, attempt, findings),
         NEW k \in Incident, NEW i \in Instance
  PROVE  \/ Untouched(k, i)
         \/ /\ k \in K
            /\ i = Target(x, k)
            /\ \/ OpenedBy(x, k, i, findings[k], <<x, attempt>>)
               \/ CountedBy(x, k, i, findings[k], <<x, attempt>>)
               \/ ReplayedBy(x, k, i, findings[k], <<x, attempt>>)
<1> DEFINE source == <<x, attempt>>
<1>1. DOMAIN findings = K
  OBVIOUS
<1>2. alerts'[k][i] = IF k \in K /\ i = Target(x, k)
                      THEN Recorded(alerts[k][i], findings[k], source, Weight(x, k))
                      ELSE alerts[k][i]
  BY <1>1 DEF RecordAlerts
<1>3. \A y \in Execution :
        receipts'[y][k].instance = IF y = x /\ k \in K /\ ~Known(x, k)
                                   THEN Target(x, k) ELSE receipts[y][k].instance
  BY <1>1 DEF RecordAlerts, TypeOK
<1>4. CASE ~(k \in K /\ i = Target(x, k))
  <2>1. receipts[x][k].instance # i \/ ~(k \in K /\ ~Known(x, k))
    BY NoneAssumption DEF Known
  <2>2. CountedIn(k, i)' = CountedIn(k, i)
    BY <1>3, <1>4, <2>1 DEF CountedIn
  <2>3. QED
    BY <1>2, <1>4, <2>2 DEF Untouched
<1>5. CASE k \in K /\ i = Target(x, k) /\ Known(x, k)
  <2>1. CountedIn(k, i)' = CountedIn(k, i)
    BY <1>3, <1>5 DEF CountedIn
  <2>2. IdentityLeft(x, k)
    BY <1>5 DEF IdentityLeft
  <2>3. alerts[k][i].status \in KeptStatus
    BY <1>5, <2>2, TargetRow
  <2>4. CASE alerts[k][i].status = "RESOLVED"
    <3>1. alerts'[k][i] = alerts[k][i]
      BY <1>2, <1>5, <2>4 DEF Recorded
    <3>2. QED
      BY <2>1, <3>1 DEF Untouched
  <2>5. CASE alerts[k][i].status \in ActiveStatus
    <3>1. alerts'[k][i] = Updated(alerts[k][i], findings[k], source, 0)
      BY <1>2, <1>5, <2>5 DEF Recorded, ActiveStatus, Weight
    <3>2. QED
      BY <1>5, <2>1, <2>5, <3>1 DEF ReplayedBy
  <2>6. QED
    BY <2>3, <2>4, <2>5 DEF KeptStatus
<1>6. CASE k \in K /\ i = Target(x, k) /\ ~Known(x, k)
  <2>1. CountedIn(k, i)' = CountedIn(k, i) \cup {x}
    BY <1>3, <1>6 DEF CountedIn
  <2>2. IdentityLeft(x, k)
    BY <1>1, <1>6 DEF RecordAlerts
  <2>3. i \in Active(k) \/ (Active(k) = {} /\ alerts[k][i].status = "UNUSED")
    BY <1>6, <2>2, TargetRow
  <2>4. CASE i \in Active(k)
    <3>1. alerts'[k][i] = Updated(alerts[k][i], findings[k], source, 1)
      BY <1>2, <1>6, <2>4 DEF Recorded, ActiveStatus, Active, Weight
    <3>2. QED
      BY <1>6, <2>1, <2>4, <3>1 DEF CountedBy, Active
  <2>5. CASE Active(k) = {} /\ alerts[k][i].status = "UNUSED"
    <3>1. alerts'[k][i] = Opened(findings[k], source)
      BY <1>2, <1>6, <2>5 DEF Recorded
    <3>2. QED
      BY <1>6, <2>1, <2>5, <3>1 DEF OpenedBy
  <2>6. QED
    BY <2>3, <2>4, <2>5
<1>7. QED
  BY <1>4, <1>5, <1>6

-----------------------------------------------------------------------------
\* CountedIn is a finite set, and one execution more raises its size by one.
LEMMA CountedFinite ==
  ASSUME NEW k \in Incident, NEW i \in Instance
  PROVE  /\ IsFiniteSet(CountedIn(k, i))
         /\ Cardinality(CountedIn(k, i)) \in Nat
         /\ Cardinality(CountedIn(k, i)) = 0 <=> CountedIn(k, i) = {}
         /\ \A x : x \notin CountedIn(k, i) =>
              Cardinality(CountedIn(k, i) \cup {x}) = Cardinality(CountedIn(k, i)) + 1
<1>1. CountedIn(k, i) \in SUBSET Execution
  BY DEF CountedIn
<1>2. IsFiniteSet(CountedIn(k, i))
  BY <1>1, ExecutionAssumption, FS_Subset
<1>3. QED
  BY <1>2, FS_CardinalityType, FS_EmptySet, FS_AddElement

\* record_alert keeps the number counted equal to the number of executions.
LEMMA RecordKeepsCounts ==
  ASSUME IInv, NEW x \in Execution, NEW attempt \in Attempt, NEW K \in SUBSET Incident,
         NEW findings \in [K -> Finding], RecordAlerts(x, attempt, findings)
  PROVE  CountsExecutions'
<1> USE DEF IInv
<1> SUFFICES ASSUME NEW k \in Incident, NEW i \in Instance
             PROVE  alerts'[k][i].count = Cardinality(CountedIn(k, i)')
  BY DEF CountsExecutions
<1> DEFINE source == <<x, attempt>>
<1>1. alerts[k][i].count = Cardinality(CountedIn(k, i))
  BY DEF CountsExecutions
<1>2. ~Known(x, k) => x \notin CountedIn(k, i)
  BY NoneAssumption DEF Known, CountedIn
<1>3. CASE Untouched(k, i)
  BY <1>1, <1>3 DEF Untouched
<1>4. CASE k \in K /\ OpenedBy(x, k, i, findings[k], source)
  <2>1. CountedIn(k, i) = {}
    <3>1. ASSUME NEW y \in CountedIn(k, i) PROVE FALSE
      <4>1. Known(y, k) /\ receipts[y][k].instance = i /\ y \in Execution
        BY <3>1, NoneAssumption DEF Known, CountedIn
      <4>2. alerts[k][i].status \in KeptStatus
        BY <4>1 DEF ReceiptsWithinAlert
      <4>3. QED
        BY <1>4, <4>2 DEF OpenedBy, KeptStatus, ActiveStatus
    <3>2. QED
      BY <3>1
  <2>2. Cardinality(CountedIn(k, i)) = 0
    BY <2>1, FS_EmptySet
  <2>3. Cardinality(CountedIn(k, i)') = 1
    BY <1>2, <1>4, <2>2, CountedFinite DEF OpenedBy
  <2>4. QED
    BY <1>4, <2>3 DEF OpenedBy, Opened
<1>5. CASE k \in K /\ CountedBy(x, k, i, findings[k], source)
  <2>1. Cardinality(CountedIn(k, i)') = Cardinality(CountedIn(k, i)) + 1
    BY <1>2, <1>5, CountedFinite DEF CountedBy
  <2>2. QED
    BY <1>1, <1>5, <2>1 DEF CountedBy, Updated
<1>6. CASE k \in K /\ ReplayedBy(x, k, i, findings[k], source)
  <2>1. alerts[k][i].count \in Nat
    BY DEF TypeOK, Row
  <2>2. QED
    BY <1>1, <1>6, <2>1 DEF ReplayedBy, Updated
<1>7. QED
  BY <1>3, <1>4, <1>5, <1>6, RecordCases

\* record_alert writes well-formed rows, receipts and audit entries.
LEMMA RecordKeepsTypes ==
  ASSUME IInv, NEW x \in Execution, NEW attempt \in Attempt, NEW K \in SUBSET Incident,
         NEW findings \in [K -> Finding], RecordAlerts(x, attempt, findings)
  PROVE  TypeOK'
<1> USE DEF IInv
<1>1. DOMAIN findings = K
  OBVIOUS
<1>2. \A k \in K : findings[k].seen \in Nat /\ findings[k].severity \in Severity
  BY DEF Finding, TypeOK
<1>3. \A k \in K : Target(x, k) \in Instance
  BY <1>1, TargetRow DEF RecordAlerts
<1>4. alerts' \in [Incident -> [Instance -> Row]]
  <2>1. ASSUME NEW k \in Incident, NEW i \in Instance, k \in K
        PROVE  Recorded(alerts[k][i], findings[k], <<x, attempt>>, Weight(x, k)) \in Row
    <3>1. alerts[k][i] \in Row
      BY DEF TypeOK
    <3>2. QED
      BY <2>1, <3>1, RecordedRow DEF Weight
  <2>2. \A k \in Incident, i \in Instance : alerts[k][i] \in Row
    BY DEF TypeOK
  <2>3. QED
    BY <1>1, <2>1, <2>2 DEF RecordAlerts
<1>5. receipts' \in [Execution -> [Incident -> Receipt]]
  <2>1. \A k \in K : [instance |-> Target(x, k), seen |-> findings[k].seen,
                       severity |-> findings[k].severity] \in Receipt
    BY <1>2, <1>3 DEF Receipt
  <2>2. \A k \in Incident : receipts[x][k] \in Receipt
    BY DEF TypeOK
  <2>3. [k \in Incident |->
           IF k \in DOMAIN findings /\ ~Known(x, k)
           THEN [instance |-> Target(x, k), seen |-> findings[k].seen,
                 severity |-> findings[k].severity]
           ELSE receipts[x][k]] \in [Incident -> Receipt]
    BY <1>1, <2>1, <2>2
  <2>4. QED
    BY <2>3 DEF RecordAlerts, TypeOK
<1>6. history' \in [Incident -> [Instance -> Seq(KeptStatus)]]
  <2>1. <<"OPEN">> \in Seq(KeptStatus)
    BY DEF KeptStatus, ActiveStatus
  <2>2. \A k \in Incident, i \in Instance : history[k][i] \in Seq(KeptStatus)
    BY DEF TypeOK
  <2>3. QED
    BY <2>1, <2>2 DEF RecordAlerts
<1>7. ledger' \in SUBSET (Execution \X Incident \X Instance)
  BY <1>1, <1>3 DEF RecordAlerts, TypeOK
<1>8. QED
  BY <1>4, <1>5, <1>6, <1>7 DEF TypeOK, RecordAlerts

\* A new alert is opened only for an incident without an active one.
LEMMA RecordKeepsOneActive ==
  ASSUME IInv, NEW x \in Execution, NEW attempt \in Attempt, NEW K \in SUBSET Incident,
         NEW findings \in [K -> Finding], RecordAlerts(x, attempt, findings)
  PROVE  OneActiveAlert'
<1> USE DEF IInv
<1> SUFFICES ASSUME NEW k \in Incident, NEW i \in Active(k)', NEW j \in Active(k)'
             PROVE  i = j
  BY DEF OneActiveAlert
<1>1. \A m \in Instance :
        m \in Active(k)' => m \in Active(k) \/ (Active(k) = {} /\ m = Target(x, k))
  <2> SUFFICES ASSUME NEW m \in Instance, m \in Active(k)', m \notin Active(k)
               PROVE  Active(k) = {} /\ m = Target(x, k)
    OBVIOUS
  <2>1. ~Untouched(k, m)
    BY DEF Untouched, Active
  <2>2. m = Target(x, k) /\ OpenedBy(x, k, m, findings[k], <<x, attempt>>)
    BY <2>1, RecordCases DEF CountedBy, ReplayedBy, Active
  <2>3. QED
    BY <2>2 DEF OpenedBy
<1>2. i \in Instance /\ j \in Instance
  BY DEF Active
<1>3. QED
  BY <1>1, <1>2 DEF OneActiveAlert

\* record_alert widens the alert a receipt points at and never shrinks it.
LEMMA RecordKeepsReceipts ==
  ASSUME IInv, NEW x \in Execution, NEW attempt \in Attempt, NEW K \in SUBSET Incident,
         NEW findings \in [K -> Finding], RecordAlerts(x, attempt, findings)
  PROVE  ReceiptsWithinAlert'
<1> USE DEF IInv
<1> SUFFICES ASSUME NEW y \in Execution, NEW k \in Incident, Known(y, k)'
             PROVE  LET row == alerts'[k][receipts'[y][k].instance]
                    IN /\ row.status \in KeptStatus
                       /\ row.severity = Worst(row.severity, receipts'[y][k].severity)
                       /\ row.first <= receipts'[y][k].seen
                       /\ receipts'[y][k].seen <= row.last
  BY DEF ReceiptsWithinAlert
<1>1. DOMAIN findings = K
  OBVIOUS
<1>2. \A m \in K : findings[m].seen \in Nat /\ findings[m].severity \in Severity
  BY DEF Finding, TypeOK
<1>3. CASE Known(y, k)
  <2>0. PICK i \in Instance : i = receipts[y][k].instance
    BY <1>3 DEF TypeOK, Receipt, Known
  <2> DEFINE row == alerts[k][i]
  <2>1. receipts'[y][k] = receipts[y][k]
    BY <1>1, <1>3 DEF RecordAlerts, TypeOK
  <2>2. row \in Row
    BY DEF TypeOK
  <2>3. receipts[y][k].seen \in Nat /\ receipts[y][k].severity \in Severity
    BY DEF TypeOK, Receipt
  <2>4. /\ row.status \in KeptStatus
        /\ row.severity = Worst(row.severity, receipts[y][k].severity)
        /\ row.first <= receipts[y][k].seen
        /\ receipts[y][k].seen <= row.last
    BY <1>3, <2>0 DEF ReceiptsWithinAlert
  <2>5. CASE Untouched(k, i)
    BY <2>0, <2>1, <2>4, <2>5 DEF Untouched
  <2>6. CASE k \in K /\ (\/ CountedBy(x, k, i, findings[k], <<x, attempt>>)
                         \/ ReplayedBy(x, k, i, findings[k], <<x, attempt>>))
    <3>1. PICK weight \in {0, 1} :
            alerts'[k][i] = Updated(row, findings[k], <<x, attempt>>, weight)
      BY <2>6 DEF CountedBy, ReplayedBy
    <3>2. row.first \in Nat /\ row.last \in Nat /\ row.severity \in Severity
      BY <2>2 DEF Row
    <3>3. /\ row'.first <= row.first /\ row.last <= row'.last /\ row'.status = row.status
          /\ row'.severity = Worst(row.severity, findings[k].severity)
      BY <1>2, <2>6, <3>1, <3>2 DEF Updated, Least, Greatest
    <3>4. row'.severity = Worst(row'.severity, receipts[y][k].severity)
      BY <1>2, <2>3, <2>4, <2>6, <3>2, <3>3 DEF Worst, Severity
    <3>5. row'.first \in Nat /\ row'.last \in Nat
      BY <1>2, <2>6, <3>1, <3>2 DEF Updated, Least, Greatest
    <3>6. row.last \in Nat
      BY <2>2 DEF Row
    <3>7. row'.first <= receipts[y][k].seen /\ receipts[y][k].seen <= row'.last
      BY <2>3, <2>4, <3>2, <3>3, <3>5, <3>6
    <3>8. row'.status \in KeptStatus
      BY <2>4, <3>3
    <3>9. receipts'[y][k].instance = i
      BY <2>0, <2>1
    <3>10. QED
      BY <2>1, <3>4, <3>7, <3>8, <3>9
  <2>7. ~OpenedBy(x, k, i, findings[k], <<x, attempt>>)
    BY <2>4 DEF OpenedBy, KeptStatus, ActiveStatus
  <2>8. QED
    BY <2>5, <2>6, <2>7, RecordCases
<1>4. CASE ~Known(y, k)
  <2>1. y = x /\ k \in K
    BY <1>1, <1>4 DEF RecordAlerts, Known, TypeOK
  <2>2. PICK i \in Instance : i = Target(x, k)
    BY <1>1, <2>1, TargetRow DEF RecordAlerts
  <2> DEFINE row == alerts[k][i]
  <2>3. receipts'[y][k] = [instance |-> i, seen |-> findings[k].seen,
                           severity |-> findings[k].severity]
    BY <1>1, <1>4, <2>1, <2>2 DEF RecordAlerts, TypeOK
  <2>4. CountedIn(k, i)' # CountedIn(k, i)
    <3>1. y \in CountedIn(k, i)'
      BY <2>3 DEF CountedIn
    <3>2. y \notin CountedIn(k, i)
      BY <1>4, <2>2, NoneAssumption DEF CountedIn, Known
    <3>3. QED
      BY <3>1, <3>2
  <2>5. CASE OpenedBy(x, k, i, findings[k], <<x, attempt>>)
    BY <1>2, <2>1, <2>2, <2>3, <2>5
    DEF OpenedBy, Opened, Worst, KeptStatus, ActiveStatus, Severity
  <2>6. CASE CountedBy(x, k, i, findings[k], <<x, attempt>>)
    <3>1. row \in Row
      BY DEF TypeOK
    <3>2. row.first \in Nat /\ row.last \in Nat /\ row.severity \in Severity
      BY <3>1 DEF Row
    <3>3. QED
      BY <1>2, <2>1, <2>2, <2>3, <2>6, <3>2
      DEF CountedBy, Updated, Worst, Least, Greatest, Severity, KeptStatus
  <2>7. ~Untouched(k, i) /\ ~ReplayedBy(x, k, i, findings[k], <<x, attempt>>)
    BY <2>4 DEF Untouched, ReplayedBy
  <2>8. QED
    BY <2>1, <2>2, <2>5, <2>6, <2>7, RecordCases
<1>5. QED
  BY <1>3, <1>4

\* What record_alert adds to the ledger is what its receipts say.
LEMMA RecordKeepsLedger ==
  ASSUME IInv, NEW x \in Execution, NEW attempt \in Attempt, NEW K \in SUBSET Incident,
         NEW findings \in [K -> Finding], RecordAlerts(x, attempt, findings)
  PROVE  CountedAgainOnlyAfterPurge'
<1> USE DEF IInv
<1> SUFFICES ASSUME NEW y \in Execution, NEW k \in Incident, NEW i \in Instance,
                    <<y, k, i>> \in ledger'
             PROVE  receipts'[y][k].instance = i \/ alerts'[k][i].status = "PURGED"
  <2>1. ledger' \in SUBSET (Execution \X Incident \X Instance)
    BY RecordKeepsTypes DEF TypeOK
  <2>2. ASSUME NEW e \in ledger'
        PROVE  receipts'[e[1]][e[2]].instance = e[3] \/ alerts'[e[2]][e[3]].status = "PURGED"
    <3>1. PICK y \in Execution, k \in Incident, i \in Instance : e = <<y, k, i>>
      BY <2>1, <2>2
    <3>2. QED
      BY <2>2, <3>1
  <2>3. QED
    BY <2>2 DEF CountedAgainOnlyAfterPurge
<1>1. DOMAIN findings = K
  OBVIOUS
<1>2. CASE <<y, k, i>> \in ledger
  <2>1. receipts[y][k].instance = i \/ alerts[k][i].status = "PURGED"
    BY <1>2 DEF CountedAgainOnlyAfterPurge
  <2>2. CASE receipts[y][k].instance = i
    <3>1. Known(y, k)
      BY <2>2, NoneAssumption DEF Known
    <3>2. receipts'[y][k] = receipts[y][k]
      BY <1>1, <3>1 DEF RecordAlerts, TypeOK
    <3>3. QED
      BY <2>2, <3>2
  <2>3. CASE alerts[k][i].status = "PURGED"
    <3>1. Untouched(k, i)
      BY <2>3, RecordCases DEF OpenedBy, CountedBy, ReplayedBy, ActiveStatus
    <3>2. QED
      BY <2>3, <3>1 DEF Untouched
  <2>4. QED
    BY <2>1, <2>2, <2>3
<1>3. CASE <<y, k, i>> \notin ledger
  <2>1. y = x /\ k \in K /\ ~Known(x, k) /\ i = Target(x, k)
    BY <1>1, <1>3 DEF RecordAlerts
  <2>2. QED
    BY <1>1, <2>1 DEF RecordAlerts, TypeOK
<1>4. QED
  BY <1>2, <1>3

-----------------------------------------------------------------------------
\* The operators' transitions keep the invariant.
LEMMA ChangeStatusKeepsIInv ==
  ASSUME IInv, NEW k \in Incident, NEW i \in Instance,
         NEW target \in {"ACKNOWLEDGED", "RESOLVED"}, ChangeStatus(k, i, target)
  PROVE  IInv'
<1> USE DEF IInv
<1>1. alerts[k][i].status \in ActiveStatus /\ alerts[k][i] \in Row
  BY DEF ChangeStatus, ValidTransition, ActiveStatus, TypeOK
<1>2. \A m \in Incident, j \in Instance :
        alerts'[m][j] = IF m = k /\ j = i THEN Moved(alerts[k][i], target) ELSE alerts[m][j]
  BY DEF ChangeStatus, TypeOK
<1>3. Moved(alerts[k][i], target) \in Row
  BY <1>1 DEF Moved, Row, KeptStatus, ActiveStatus, TypeOK
<1>4. \A m \in Incident, j \in Instance :
        /\ alerts'[m][j].severity = alerts[m][j].severity
        /\ alerts'[m][j].count = alerts[m][j].count
        /\ alerts'[m][j].first = alerts[m][j].first
        /\ alerts'[m][j].last = alerts[m][j].last
        /\ alerts[m][j].status = "PURGED" => alerts'[m][j].status = "PURGED"
        /\ alerts[m][j].status \in KeptStatus => alerts'[m][j].status \in KeptStatus
        /\ alerts'[m][j].status \in ActiveStatus => alerts[m][j].status \in ActiveStatus
  BY <1>1, <1>2 DEF Moved, KeptStatus, ActiveStatus
<1>5. TypeOK'
  <2>1. alerts' \in [Incident -> [Instance -> Row]]
    BY <1>3 DEF ChangeStatus, TypeOK
  <2>2. Append(history[k][i], target) \in Seq(KeptStatus)
    <3>1. history[k][i] \in Seq(KeptStatus) /\ target \in KeptStatus
      BY DEF TypeOK, KeptStatus, ActiveStatus
    <3>2. QED
      BY <3>1
  <2>3. history' \in [Incident -> [Instance -> Seq(KeptStatus)]]
    BY <2>2 DEF ChangeStatus, TypeOK
  <2>4. QED
    BY <2>1, <2>3 DEF ChangeStatus, TypeOK
<1>6. OneActiveAlert'
  BY <1>4 DEF OneActiveAlert, Active
<1>7. CountsExecutions'
  <2>1. \A m \in Incident, j \in Instance : CountedIn(m, j)' = CountedIn(m, j)
    BY DEF ChangeStatus, CountedIn
  <2>2. QED
    BY <1>4, <2>1 DEF CountsExecutions
<1>8. ReceiptsWithinAlert'
  <2>1. \A x \in Execution, m \in Incident :
          Known(x, m) => receipts[x][m].instance \in Instance
    BY DEF Known, TypeOK, Receipt
  <2>2. receipts' = receipts
    BY DEF ChangeStatus
  <2>3. QED
    BY <1>4, <2>1, <2>2 DEF ReceiptsWithinAlert, Known
<1>9. CountedAgainOnlyAfterPurge'
  BY <1>4 DEF CountedAgainOnlyAfterPurge, ChangeStatus, TypeOK
<1>10. QED
  BY <1>5, <1>6, <1>7, <1>8, <1>9

\* Retention keeps the invariant: it removes an alert with all its receipts.
LEMMA PurgeKeepsIInv ==
  ASSUME IInv, NEW at \in Int, PurgeAlerts(at)
  PROVE  IInv'
<1> USE DEF IInv
<1>1. \A k \in Incident, i \in Instance :
        alerts'[k][i] = IF Expired(k, i, at) THEN PurgedRow ELSE alerts[k][i]
  BY DEF PurgeAlerts
<1>2. \A x \in Execution, k \in Incident :
        receipts'[x][k] = IF Known(x, k) /\ Expired(k, receipts[x][k].instance, at)
                          THEN NoReceipt ELSE receipts[x][k]
  BY DEF PurgeAlerts
<1>3. PurgedRow = [status |-> "PURGED", severity |-> "WARNING", count |-> 0,
                   first |-> 0, last |-> 0, source |-> << >>, resolved |-> 0]
  BY DEF PurgedRow, NoRow
<1>4. TypeOK'
  <2>1. PurgedRow \in Row
    BY <1>3 DEF Row, Severity
  <2>2. alerts' \in [Incident -> [Instance -> Row]]
    BY <2>1 DEF PurgeAlerts, TypeOK
  <2>3. NoReceipt \in Receipt
    BY DEF NoReceipt, Receipt, Severity
  <2>4. receipts' \in [Execution -> [Incident -> Receipt]]
    BY <2>3 DEF PurgeAlerts, TypeOK
  <2>5. history' \in [Incident -> [Instance -> Seq(KeptStatus)]]
    <3>1. << >> \in Seq(KeptStatus)
      OBVIOUS
    <3>2. \A k \in Incident, i \in Instance : history[k][i] \in Seq(KeptStatus)
      BY DEF TypeOK
    <3>3. QED
      BY <3>1, <3>2 DEF PurgeAlerts
  <2>6. QED
    BY <2>2, <2>4, <2>5 DEF PurgeAlerts, TypeOK
<1>5. OneActiveAlert'
  <2>1. \A k \in Incident, i \in Instance : i \in Active(k)' => i \in Active(k)
    BY <1>1, <1>3 DEF Active, ActiveStatus
  <2>2. QED
    BY <2>1 DEF OneActiveAlert, Active
<1>6. CountsExecutions'
  <2> SUFFICES ASSUME NEW k \in Incident, NEW i \in Instance
               PROVE  alerts'[k][i].count = Cardinality(CountedIn(k, i)')
    BY DEF CountsExecutions
  <2>1. CASE Expired(k, i, at)
    <3>1. CountedIn(k, i)' = {}
      <4>1. ASSUME NEW x \in Execution, receipts'[x][k].instance = i PROVE FALSE
        BY <1>2, <2>1, <4>1, NoneAssumption DEF NoReceipt, Known
      <4>2. QED
        BY <4>1 DEF CountedIn
    <3>2. QED
      BY <1>1, <1>3, <2>1, <3>1, FS_EmptySet
  <2>2. CASE ~Expired(k, i, at)
    <3>1. \A x \in Execution : receipts'[x][k].instance = i <=> receipts[x][k].instance = i
      BY <1>2, <2>2, NoneAssumption DEF NoReceipt, Known
    <3>2. CountedIn(k, i)' = CountedIn(k, i)
      BY <3>1 DEF CountedIn
    <3>3. QED
      BY <1>1, <2>2, <3>2 DEF CountsExecutions
  <2>3. QED
    BY <2>1, <2>2
<1>7. ReceiptsWithinAlert'
  <2> SUFFICES ASSUME NEW x \in Execution, NEW k \in Incident, Known(x, k)'
               PROVE  /\ receipts'[x][k] = receipts[x][k]
                      /\ alerts'[k][receipts[x][k].instance] = alerts[k][receipts[x][k].instance]
                      /\ Known(x, k)
    BY DEF ReceiptsWithinAlert
  <2>1. Known(x, k) /\ ~Expired(k, receipts[x][k].instance, at)
    BY <1>2 DEF Known, NoReceipt
  <2>2. receipts[x][k].instance \in Instance
    BY <2>1 DEF Known, TypeOK, Receipt
  <2>3. QED
    BY <1>1, <1>2, <2>1, <2>2
<1>8. CountedAgainOnlyAfterPurge'
  <2>1. ASSUME NEW x \in Execution, NEW k \in Incident, NEW i \in Instance,
               \/ receipts[x][k].instance = i
               \/ alerts[k][i].status = "PURGED"
        PROVE  \/ receipts'[x][k].instance = i
               \/ alerts'[k][i].status = "PURGED"
    BY <1>1, <1>2, <1>3, <2>1
  <2>2. ledger' = ledger /\ ledger \in SUBSET (Execution \X Incident \X Instance)
    BY DEF PurgeAlerts, TypeOK
  <2>3. QED
    BY <2>1, <2>2 DEF CountedAgainOnlyAfterPurge
<1>9. QED
  BY <1>4, <1>5, <1>6, <1>7, <1>8

\* A step that changes no table keeps the invariant.
LEMMA IdleKeepsIInv ==
  ASSUME IInv, UNCHANGED <<alerts, receipts, history, ledger>>, now' \in Nat
  PROVE  IInv'
<1>1. TypeOK'
  BY DEF IInv, TypeOK
<1>2. OneActiveAlert'
  BY DEF IInv, OneActiveAlert, Active
<1>3. CountsExecutions'
  BY DEF IInv, CountsExecutions, CountedIn
<1>4. ReceiptsWithinAlert'
  BY DEF IInv, ReceiptsWithinAlert, Known
<1>5. CountedAgainOnlyAfterPurge'
  BY DEF IInv, CountedAgainOnlyAfterPurge
<1>6. QED
  BY <1>1, <1>2, <1>3, <1>4, <1>5 DEF IInv

-----------------------------------------------------------------------------
\* The tables start empty, which is consistent.
LEMMA InitIInv == Init => IInv
<1> SUFFICES ASSUME Init PROVE IInv
  OBVIOUS
<1>1. TypeOK
  <2>1. NoRow \in Row /\ NoReceipt \in Receipt /\ << >> \in Seq(KeptStatus)
    BY DEF NoRow, Row, NoReceipt, Receipt, Severity
  <2>2. QED
    BY <2>1 DEF Init, TypeOK
<1>2. \A x \in Execution, k \in Incident : ~Known(x, k)
  BY DEF Init, Known, NoReceipt
<1>3. \A k \in Incident : Active(k) = {}
  BY DEF Init, Active, NoRow, ActiveStatus
<1>4. CountsExecutions
  <2>1. ASSUME NEW k \in Incident, NEW i \in Instance PROVE CountedIn(k, i) = {}
    BY <1>2, NoneAssumption DEF CountedIn, Known
  <2>2. QED
    BY <2>1, FS_EmptySet DEF CountsExecutions, Init, NoRow
<1>5. QED
  BY <1>1, <1>2, <1>3, <1>4
  DEF IInv, OneActiveAlert, ReceiptsWithinAlert, CountedAgainOnlyAfterPurge, Init

\* Every step of the monitoring database keeps the invariant.
LEMMA NextIInv == IInv /\ [Next]_vars => IInv'
<1> SUFFICES ASSUME IInv, [Next]_vars PROVE IInv'
  OBVIOUS
<1>1. ASSUME NEW x \in Execution, NEW attempt \in Attempt, NEW K \in SUBSET Incident,
             NEW findings \in [K -> Finding], RecordAlerts(x, attempt, findings)
      PROVE  IInv'
  BY <1>1, RecordKeepsTypes, RecordKeepsOneActive, RecordKeepsCounts,
     RecordKeepsReceipts, RecordKeepsLedger DEF IInv
<1>2. ASSUME NEW k \in Incident, NEW i \in Instance,
             NEW target \in {"ACKNOWLEDGED", "RESOLVED"}, ChangeStatus(k, i, target)
      PROVE  IInv'
  BY <1>2, ChangeStatusKeepsIInv
<1>3. ASSUME NEW at \in 0..now, PurgeAlerts(at)
      PROVE  IInv'
  BY <1>3, PurgeKeepsIInv DEF IInv, TypeOK
<1>4. CASE Tick
  BY <1>4, IdleKeepsIInv DEF Tick, IInv, TypeOK
<1>5. CASE UNCHANGED vars
  BY <1>5, IdleKeepsIInv DEF vars, IInv, TypeOK
<1>6. QED
  BY <1>1, <1>2, <1>3, <1>4, <1>5 DEF Next

LEMMA SpecIInv == Spec => []IInv
<1>1. QED
  BY InitIInv, NextIInv, PTL DEF Spec

\* The monitoring tables always have their types.
THEOREM TypeCorrect == Spec => []TypeOK
<1>1. IInv => TypeOK
  BY DEF IInv
<1>2. QED
  BY <1>1, SpecIInv, PTL

\* No interleaving of executions, replays, operators and retention gives an
\* incident two active alerts: the unique index never refuses record_alert.
THEOREM OneActive == Spec => []OneActiveAlert
<1>1. IInv => OneActiveAlert
  BY DEF IInv
<1>2. QED
  BY <1>1, SpecIInv, PTL

\* occurrence_count is exactly the number of distinct executions counted.
THEOREM CountsAreExecutions == Spec => []CountsExecutions
<1>1. IInv => CountsExecutions
  BY DEF IInv
<1>2. QED
  BY <1>1, SpecIInv, PTL

\* No receipt outlives its alert, and an alert encloses what its receipts saw.
THEOREM ReceiptsAreEnclosed == Spec => []ReceiptsWithinAlert
<1>1. IInv => ReceiptsWithinAlert
  BY DEF IInv
<1>2. QED
  BY <1>1, SpecIInv, PTL

\* Only retention lets an execution be counted in a second alert.
THEOREM CountedAgainNeedsPurge == Spec => []CountedAgainOnlyAfterPurge
<1>1. IInv => CountedAgainOnlyAfterPurge
  BY DEF IInv
<1>2. QED
  BY <1>1, SpecIInv, PTL

-----------------------------------------------------------------------------
\* What AuditIsChain says of one alert.
IsAudit(status, audit) ==
  IF status \in KeptStatus
  THEN /\ audit # << >> /\ audit[1] = "OPEN" /\ audit[Len(audit)] = status
       /\ \A n \in 1..(Len(audit) - 1) : ValidTransition(audit[n], audit[n + 1])
  ELSE audit = << >>

LEMMA AuditOfEach ==
  AuditIsChain <=> \A k \in Incident, i \in Instance : IsAudit(alerts[k][i].status, history[k][i])
BY DEF AuditIsChain, IsAudit

\* A valid transition extends the chain.
LEMMA AuditExtends ==
  ASSUME NEW status, NEW audit \in Seq(KeptStatus), NEW target \in KeptStatus,
         IsAudit(status, audit), ValidTransition(status, target)
  PROVE  IsAudit(target, Append(audit, target))
<1>1. status \in KeptStatus
  BY DEF ValidTransition, KeptStatus, ActiveStatus
<1>2. audit # << >> /\ audit[1] = "OPEN" /\ audit[Len(audit)] = status
      /\ \A n \in 1..(Len(audit) - 1) : ValidTransition(audit[n], audit[n + 1])
  BY <1>1 DEF IsAudit
<1>3. Len(audit) \in Nat \ {0}
  BY <1>2
<1>4. /\ Append(audit, target) # << >> /\ Len(Append(audit, target)) = Len(audit) + 1
      /\ Append(audit, target)[Len(audit) + 1] = target
      /\ \A n \in 1..Len(audit) : Append(audit, target)[n] = audit[n]
  BY <1>3
<1>5. ASSUME NEW n \in 1..Len(audit)
      PROVE  ValidTransition(Append(audit, target)[n], Append(audit, target)[n + 1])
  <2>1. CASE n = Len(audit)
    BY <1>2, <1>4, <2>1
  <2>2. CASE n # Len(audit)
    <3>1. n \in 1..(Len(audit) - 1) /\ n + 1 \in 1..Len(audit)
      BY <1>3, <2>2
    <3>2. QED
      BY <1>2, <1>4, <3>1
  <2>3. QED
    BY <2>1, <2>2
<1>6. QED
  BY <1>2, <1>3, <1>4, <1>5 DEF IsAudit

LEMMA AuditBegins == IsAudit("OPEN", <<"OPEN">>)
<1>1. Len(<<"OPEN">>) = 1 /\ <<"OPEN">>[1] = "OPEN" /\ <<"OPEN">> # << >> /\ 1..(1 - 1) = {}
  OBVIOUS
<1>2. QED
  BY <1>1 DEF IsAudit, KeptStatus, ActiveStatus

\* record_alert audits what it opens and changes no other status.
LEMMA RecordKeepsAudit ==
  ASSUME IInv, AuditIsChain,
         NEW x \in Execution, NEW attempt \in Attempt, NEW K \in SUBSET Incident,
         NEW findings \in [K -> Finding], RecordAlerts(x, attempt, findings)
  PROVE  AuditIsChain'
<1> SUFFICES ASSUME NEW k \in Incident, NEW i \in Instance
             PROVE  IsAudit(alerts'[k][i].status, history'[k][i])
  BY DEF AuditIsChain, IsAudit
<1>1. IsAudit(alerts[k][i].status, history[k][i])
  BY AuditOfEach
<1>2. DOMAIN findings = K
  OBVIOUS
<1>3. history'[k][i] = IF k \in K /\ i = Target(x, k) /\ alerts[k][i].status = "UNUSED"
                       THEN <<"OPEN">> ELSE history[k][i]
  BY <1>2 DEF RecordAlerts
<1>4. alerts'[k][i] = IF k \in K /\ i = Target(x, k)
                      THEN Recorded(alerts[k][i], findings[k], <<x, attempt>>, Weight(x, k))
                      ELSE alerts[k][i]
  BY <1>2 DEF RecordAlerts
<1>5. CASE k \in K /\ i = Target(x, k) /\ alerts[k][i].status = "UNUSED"
  <2>1. alerts'[k][i].status = "OPEN"
    BY <1>4, <1>5 DEF Recorded, Opened
  <2>2. QED
    BY <1>3, <1>5, <2>1, AuditBegins
<1>6. CASE ~(k \in K /\ i = Target(x, k) /\ alerts[k][i].status = "UNUSED")
  <2>1. alerts'[k][i].status = alerts[k][i].status
    BY <1>4, <1>6 DEF Recorded, Updated
  <2>2. QED
    BY <1>1, <1>3, <1>6, <2>1
<1>7. QED
  BY <1>5, <1>6

LEMMA StatusKeepsAudit ==
  ASSUME IInv, AuditIsChain, NEW m \in Incident, NEW j \in Instance,
         NEW target \in {"ACKNOWLEDGED", "RESOLVED"}, ChangeStatus(m, j, target)
  PROVE  AuditIsChain'
<1> SUFFICES ASSUME NEW k \in Incident, NEW i \in Instance
             PROVE  IsAudit(alerts'[k][i].status, history'[k][i])
  BY DEF AuditIsChain, IsAudit
<1>1. IsAudit(alerts[k][i].status, history[k][i])
  BY AuditOfEach
<1>2. history[k][i] \in Seq(KeptStatus) /\ target \in KeptStatus
  BY DEF IInv, TypeOK, KeptStatus, ActiveStatus
<1>3. CASE k = m /\ i = j
  <2>1. alerts'[k][i].status = target
    BY <1>3 DEF ChangeStatus, Moved, IInv, TypeOK
  <2>2. history'[k][i] = Append(history[k][i], target)
    BY <1>3 DEF ChangeStatus, IInv, TypeOK
  <2>3. ValidTransition(alerts[k][i].status, target)
    BY <1>3 DEF ChangeStatus
  <2>4. QED
    BY <1>1, <1>2, <2>1, <2>2, <2>3, AuditExtends
<1>4. CASE ~(k = m /\ i = j)
  <2>1. alerts'[k][i] = alerts[k][i] /\ history'[k][i] = history[k][i]
    BY <1>4 DEF ChangeStatus, IInv, TypeOK
  <2>2. QED
    BY <1>1, <2>1
<1>5. QED
  BY <1>3, <1>4

LEMMA PurgeKeepsAudit ==
  ASSUME AuditIsChain, NEW at \in Int, PurgeAlerts(at)
  PROVE  AuditIsChain'
<1> SUFFICES ASSUME NEW k \in Incident, NEW i \in Instance
             PROVE  IsAudit(alerts'[k][i].status, history'[k][i])
  BY DEF AuditIsChain, IsAudit
<1>1. IsAudit(alerts[k][i].status, history[k][i])
  BY AuditOfEach
<1>2. CASE Expired(k, i, at)
  BY <1>2 DEF PurgeAlerts, IsAudit, PurgedRow, NoRow, KeptStatus, ActiveStatus
<1>3. CASE ~Expired(k, i, at)
  BY <1>1, <1>3 DEF PurgeAlerts
<1>4. QED
  BY <1>2, <1>3

\* Every status an alert ever had is in its audit, in order, and each followed from
\* the one before by a transition change_status allows.
THEOREM AuditsAreChains == Spec => []AuditIsChain
<1>1. Init => AuditIsChain
  BY DEF Init, AuditIsChain, NoRow, KeptStatus, ActiveStatus
<1>2. IInv /\ AuditIsChain /\ [Next]_vars => AuditIsChain'
  <2> SUFFICES ASSUME IInv, AuditIsChain, [Next]_vars PROVE AuditIsChain'
    OBVIOUS
  <2>1. ASSUME NEW x \in Execution, NEW attempt \in Attempt, NEW K \in SUBSET Incident,
               NEW findings \in [K -> Finding], RecordAlerts(x, attempt, findings)
        PROVE  AuditIsChain'
    BY <2>1, RecordKeepsAudit
  <2>2. ASSUME NEW k \in Incident, NEW i \in Instance,
               NEW target \in {"ACKNOWLEDGED", "RESOLVED"}, ChangeStatus(k, i, target)
        PROVE  AuditIsChain'
    BY <2>2, StatusKeepsAudit
  <2>3. ASSUME NEW at \in 0..now, PurgeAlerts(at) PROVE AuditIsChain'
    BY <2>3, PurgeKeepsAudit DEF IInv, TypeOK
  <2>4. CASE Tick \/ UNCHANGED vars
    BY <2>4 DEF Tick, vars, AuditIsChain
  <2>5. QED
    BY <2>1, <2>2, <2>3, <2>4 DEF Next
<1>3. QED
  BY <1>1, <1>2, SpecIInv, PTL DEF Spec

-----------------------------------------------------------------------------
\* Whatever is replayed or arrives late, a resolved alert stays as it was until
\* retention removes it.
THEOREM ResolvedStaysFrozen == Spec => ResolvedIsFrozen
<1>1. ASSUME IInv, [Next]_vars, NEW k \in Incident, NEW i \in Instance,
             alerts[k][i].status = "RESOLVED"
      PROVE  alerts'[k][i] \in {alerts[k][i], PurgedRow}
  <2>1. ASSUME NEW x \in Execution, NEW attempt \in Attempt, NEW K \in SUBSET Incident,
               NEW findings \in [K -> Finding], RecordAlerts(x, attempt, findings)
        PROVE  alerts'[k][i] = alerts[k][i]
    BY <1>1, <2>1, RecordCases
    DEF IInv, Untouched, OpenedBy, CountedBy, ReplayedBy, ActiveStatus
  <2>2. ASSUME NEW m \in Incident, NEW j \in Instance,
               NEW target \in {"ACKNOWLEDGED", "RESOLVED"}, ChangeStatus(m, j, target)
        PROVE  alerts'[k][i] = alerts[k][i]
    <3>1. alerts[m][j].status # "RESOLVED"
      BY <2>2 DEF ChangeStatus, ValidTransition
    <3>2. QED
      BY <1>1, <2>2, <3>1 DEF ChangeStatus, IInv, TypeOK
  <2>3. ASSUME NEW at \in 0..now, PurgeAlerts(at)
        PROVE  alerts'[k][i] \in {alerts[k][i], PurgedRow}
    BY <2>3 DEF PurgeAlerts
  <2>4. CASE Tick \/ UNCHANGED vars
    BY <1>1, <2>4 DEF Tick, vars
  <2>5. QED
    BY <1>1, <2>1, <2>2, <2>3, <2>4 DEF Next
<1>2. IInv /\ [Next]_vars => [ResolvedRowKept]_vars
  BY <1>1 DEF ResolvedRowKept
<1>3. QED
  BY <1>2, SpecIInv, PTL DEF ResolvedIsFrozen, Spec

\* A new alert is always the first sighting of some execution, never a replay.
THEOREM OpensOnlyForNewExecution == Spec => OpensForNewExecution
<1>1. ASSUME IInv, [Next]_vars, NEW k \in Incident, NEW i \in Instance,
             alerts[k][i].status = "UNUSED", alerts'[k][i].status # "UNUSED"
      PROVE  \E x \in Execution : ~Known(x, k) /\ receipts'[x][k].instance = i
  <2>1. ASSUME NEW x \in Execution, NEW attempt \in Attempt, NEW K \in SUBSET Incident,
               NEW findings \in [K -> Finding], RecordAlerts(x, attempt, findings)
        PROVE  ~Known(x, k) /\ receipts'[x][k].instance = i
    <3>1. DOMAIN findings = K
      OBVIOUS
    <3>2. k \in K /\ i = Target(x, k) /\ ~Known(x, k)
      BY <1>1, <2>1, RecordCases
      DEF IInv, Untouched, OpenedBy, CountedBy, ReplayedBy, ActiveStatus
    <3>3. QED
      BY <1>1, <2>1, <3>1, <3>2 DEF RecordAlerts, IInv, TypeOK
  <2>2. ASSUME NEW m \in Incident, NEW j \in Instance,
               NEW target \in {"ACKNOWLEDGED", "RESOLVED"}, ChangeStatus(m, j, target)
        PROVE  FALSE
    <3>1. alerts[m][j].status # "UNUSED"
      BY <2>2 DEF ChangeStatus, ValidTransition
    <3>2. QED
      BY <1>1, <2>2, <3>1 DEF ChangeStatus, IInv, TypeOK
  <2>3. ASSUME NEW at \in 0..now, PurgeAlerts(at)
        PROVE  FALSE
    BY <1>1, <2>3 DEF PurgeAlerts, Expired
  <2>4. ~(Tick \/ UNCHANGED vars)
    BY <1>1 DEF Tick, vars
  <2>5. QED
    BY <1>1, <2>1, <2>2, <2>3, <2>4 DEF Next
<1>2. IInv /\ [Next]_vars => [OpenedByNewExecution]_vars
  BY <1>1 DEF OpenedByNewExecution
<1>3. QED
  BY <1>2, SpecIInv, PTL DEF OpensForNewExecution, Spec

=============================================================================
