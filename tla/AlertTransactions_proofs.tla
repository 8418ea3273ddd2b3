----------------------- MODULE AlertTransactions_proofs -----------------------
(* What the locks of AlertTransactions guarantee for every set of incidents, *)
(* alerts, executions, runs and processes: each transaction is one step of   *)
(* AlertLifecycle, and only retention can deadlock with the others.          *)
EXTENDS AlertTransactions, WellFoundedInduction, TLAPS

LP == INSTANCE AlertLifecycle_proofs

\* What an alert still is to an execution: the one of its receipt, or the active one.
Chosen(x, k, i) ==
  IF Lifecycle!Known(x, k) THEN receipts[x][k].instance = i ELSE i \in Lifecycle!Active(k)

\* What a recorder planned for an incident is what record_alert would do now, and
\* it holds the row that it read.
Foreseen(w, k) ==
  \/ /\ plan[w][k].do = "insert"
     /\ ~Lifecycle!Known(job[w].x, k)
     /\ Lifecycle!Active(k) = {}
     /\ Lifecycle!Unused(k) # {}
  \/ /\ plan[w][k].do \in {"update", "keep"}
     /\ plan[w][k].i \in Instance
     /\ lock[RowLock(<<k, plan[w][k].i>>)] = w
     /\ Chosen(job[w].x, k, plan[w][k].i)
     /\ (plan[w][k].do = "keep") <=> (alerts[k][plan[w][k].i].status = "RESOLVED")

\* A recorder holds the locks of the incidents it planned, all before those it has
\* yet to visit, and of the one it is at.
RecorderInv(w) ==
  /\ pc[w] \in {"idle", "visit", "row"}
  /\ pc[w] = "idle" => DOMAIN plan[w] = {}
  /\ pc[w] # "idle" =>
       /\ job[w] \in Runs
       /\ \A k \in DOMAIN job[w].findings : job[w].findings[k].seen <= now
       /\ todo[w] \subseteq DOMAIN job[w].findings
       /\ DOMAIN plan[w] = DOMAIN job[w].findings \ todo[w]
       /\ \A k \in DOMAIN plan[w] :
            /\ lock[KeyLock(k)] = w
            /\ Foreseen(w, k)
            /\ \A t \in todo[w] : k < t
  /\ pc[w] = "row" =>
       /\ target[w] \in Alert
       /\ target[w][1] \in todo[w]
       /\ \A t \in todo[w] : target[w][1] <= t
       /\ lock[KeyLock(target[w][1])] = w
       /\ \/ StatusOf(target[w]) = "PURGED"
          \/ Chosen(job[w].x, target[w][1], target[w][2])
  /\ \A k \in Incident : lock[KeyLock(k)] = w =>
       k \in DOMAIN plan[w] \/ (pc[w] = "row" /\ k = target[w][1])
  /\ \A a \in Alert : lock[RowLock(a)] = w => a[1] \in DOMAIN plan[w]
  /\ lock[RetentionLock] # w

\* An operator holds no lock but its incident's.
OperatorInv(w) ==
  /\ pc[w] \in {"idle", "key", "row"}
  /\ pc[w] # "idle" => job[w] \in {"ACKNOWLEDGED", "RESOLVED"} /\ target[w] \in Alert
  /\ \A l \in Lock : lock[l] = w => pc[w] = "row" /\ l = KeyLock(target[w][1])
  /\ pc[w] = "row" => lock[KeyLock(target[w][1])] = w

\* The janitor that sweeps holds the retention lock, and what is expired for it is
\* what it has locked or has yet to lock.
JanitorInv(w) ==
  /\ pc[w] \in {"idle", "retention", "sweep", "delete"}
  /\ pc[w] # "idle" => job[w] \in 0..now
  /\ \A k \in Incident : lock[KeyLock(k)] # w
  /\ \A a \in Alert : lock[RowLock(a)] = w => pc[w] \in {"sweep", "delete"}
  /\ pc[w] \in {"sweep", "delete"} =>
       /\ lock[RetentionLock] = w
       /\ todo[w] \cup {a \in Alert : lock[RowLock(a)] = w} = Expired(job[w])
  /\ pc[w] = "sweep" => target[w] \in todo[w]
  /\ pc[w] = "delete" => todo[w] = {}

Label == {"idle", "visit", "row", "key", "retention", "sweep", "delete"}

Typed ==
  /\ pc \in [Process -> Label]
  /\ lock \in [Lock -> Process \cup {None}]
  /\ DOMAIN job = Process
  /\ DOMAIN todo = Process
  /\ DOMAIN target = Process
  /\ DOMAIN plan = Process
  /\ \A l \in Lock : lock[l] # None => pc[lock[l]] # "idle"

\* The invariant of the tables that AlertLifecycle keeps.
TablesInv ==
  /\ Lifecycle!TypeOK
  /\ Lifecycle!OneActiveAlert
  /\ Lifecycle!CountsExecutions
  /\ Lifecycle!ReceiptsWithinAlert
  /\ Lifecycle!CountedAgainOnlyAfterPurge

ProcessesInv ==
  /\ \A w \in Recorder : RecorderInv(w)
  /\ \A w \in Operator : OperatorInv(w)
  /\ \A w \in Janitor : JanitorInv(w)

IInv == TablesInv /\ Typed /\ ProcessesInv

-----------------------------------------------------------------------------
\* A set of incidents that is not empty has a least member.
LEMMA Least ==
  ASSUME NEW S \in SUBSET Nat, S # {}
  PROVE  Min(S) \in S /\ \A y \in S : Min(S) <= y
<1>1. PICK x \in S : \A y \in S : <<y, x>> \notin OpToRel(<, Nat)
  BY NatLessThanWellFounded, WFMin
<1>2. \A y \in S : ~(y < x)
  BY <1>1 DEF OpToRel
<1>3. x \in S /\ \A y \in S : x <= y
  BY <1>2
<1>4. QED
  BY <1>3 DEF Min

\* The locks are what they lock.
LEMMA LocksDiffer ==
  /\ \A k \in Incident : KeyLock(k) \in Lock
  /\ \A a \in Alert : RowLock(a) \in Lock
  /\ RetentionLock \in Lock
  /\ \A k, m \in Incident : KeyLock(k) = KeyLock(m) => k = m
  /\ \A a, b \in Alert : RowLock(a) = RowLock(b) => a = b
  /\ \A k \in Incident, a \in Alert : KeyLock(k) # RowLock(a)
  /\ \A k \in Incident : KeyLock(k) # RetentionLock
  /\ \A a \in Alert : RowLock(a) # RetentionLock
<1>1. \A k \in Incident : KeyLock(k) \in Lock
  BY DEF Lock
<1>2. \A a \in Alert : RowLock(a) \in Lock
  BY DEF Lock
<1>3. RetentionLock \in Lock
  BY DEF Lock
<1>4. \A a, b \in Alert : RowLock(a) = RowLock(b) => a = b
  BY DEF RowLock, Alert
<1>5. \A k, m \in Incident : KeyLock(k) = KeyLock(m) => k = m
  BY DEF KeyLock
<1>6. \A k \in Incident, a \in Alert : KeyLock(k) # RowLock(a)
  BY DEF KeyLock, RowLock
<1>7. \A k \in Incident : KeyLock(k) # RetentionLock
  BY DEF KeyLock, RetentionLock
<1>8. \A a \in Alert : RowLock(a) # RetentionLock
  BY DEF RowLock, RetentionLock
<1>9. QED
  BY <1>1, <1>2, <1>3, <1>4, <1>5, <1>6, <1>7, <1>8

\* The tables keep the invariant of AlertLifecycle_proofs through its steps.
LEMMA Tables ==
  /\ Lifecycle!Init => TablesInv
  /\ TablesInv /\ [Lifecycle!Next]_(Lifecycle!vars) => TablesInv'
<1>1. LP!IsFiniteSet(Execution)
  BY ExecutionAssumption DEF IsFiniteSet, LP!IsFiniteSet
<1>2. LP!Init => LP!IInv
  BY <1>1, NoneAssumption, RetentionAssumption, LP!InitIInv
<1>3. LP!IInv /\ [LP!Next]_LP!vars => LP!IInv'
  BY <1>1, NoneAssumption, RetentionAssumption, LP!NextIInv
<1>4. (TablesInv <=> LP!IInv) /\ (TablesInv' <=> LP!IInv')
  BY DEF TablesInv, LP!IInv,
     Lifecycle!TypeOK, LP!TypeOK, Lifecycle!OneActiveAlert, LP!OneActiveAlert,
     Lifecycle!CountsExecutions, LP!CountsExecutions,
     Lifecycle!ReceiptsWithinAlert, LP!ReceiptsWithinAlert,
     Lifecycle!CountedAgainOnlyAfterPurge, LP!CountedAgainOnlyAfterPurge,
     Lifecycle!Row, LP!Row, Lifecycle!KeptStatus, LP!KeptStatus,
     Lifecycle!ActiveStatus, LP!ActiveStatus, Lifecycle!Severity, LP!Severity,
     Lifecycle!Receipt, LP!Receipt, Lifecycle!Active, LP!Active,
     Lifecycle!CountedIn, LP!CountedIn, Lifecycle!Known, LP!Known,
     Lifecycle!Worst, LP!Worst, Lifecycle!Cardinality, LP!Cardinality
<1>5. Lifecycle!Init => LP!Init
  BY DEF Lifecycle!Init, LP!Init, Lifecycle!NoRow, LP!NoRow, Lifecycle!NoReceipt,
     LP!NoReceipt
<1>6. [Lifecycle!Next]_(Lifecycle!vars) => [LP!Next]_LP!vars
  BY DEF Lifecycle!Next, LP!Next, Lifecycle!vars, LP!vars, Lifecycle!RecordAlerts,
     LP!RecordAlerts, Lifecycle!ChangeStatus, LP!ChangeStatus,
     Lifecycle!PurgeAlerts, LP!PurgeAlerts, Lifecycle!Tick, LP!Tick,
     Lifecycle!IdentityLeft, LP!IdentityLeft, Lifecycle!Known, LP!Known,
     Lifecycle!Active, LP!Active, Lifecycle!Unused, LP!Unused,
     Lifecycle!Target, LP!Target, Lifecycle!Recorded, LP!Recorded,
     Lifecycle!Opened, LP!Opened, Lifecycle!Updated, LP!Updated,
     Lifecycle!Weight, LP!Weight, Lifecycle!Worst, LP!Worst, Lifecycle!Least,
     LP!Least, Lifecycle!Greatest, LP!Greatest, Lifecycle!ValidTransition,
     LP!ValidTransition, Lifecycle!Moved, LP!Moved, Lifecycle!Expired,
     LP!Expired, Lifecycle!PurgedRow, LP!PurgedRow, Lifecycle!NoRow, LP!NoRow,
     Lifecycle!NoReceipt, LP!NoReceipt, Lifecycle!Finding, LP!Finding,
     Lifecycle!ActiveStatus, LP!ActiveStatus, Lifecycle!Severity, LP!Severity
<1>7. QED
  BY <1>2, <1>3, <1>4, <1>5, <1>6

-----------------------------------------------------------------------------
\* What the types of the tables say of one row and one receipt.
LEMMA Cells ==
  ASSUME TablesInv
  PROVE  /\ now \in Nat
         /\ \A k \in Incident, i \in Instance :
              /\ alerts[k][i].status \in {"OPEN", "ACKNOWLEDGED", "RESOLVED", "UNUSED", "PURGED"}
              /\ alerts[k][i].resolved \in Nat
         /\ \A x \in Execution, k \in Incident : Lifecycle!Known(x, k) =>
              /\ receipts[x][k].instance \in Instance
              /\ alerts[k][receipts[x][k].instance].status \in {"OPEN", "ACKNOWLEDGED", "RESOLVED"}
         /\ \A k \in Incident : \A i, j \in Lifecycle!Active(k) : i = j
<1> USE DEF TablesInv, Lifecycle!KeptStatus, Lifecycle!ActiveStatus
<1>1. now \in Nat
  BY DEF Lifecycle!TypeOK
<1>2. \A k \in Incident, i \in Instance : alerts[k][i] \in Lifecycle!Row
  BY DEF Lifecycle!TypeOK
<1>3. \A k \in Incident, i \in Instance :
        /\ alerts[k][i].status \in {"OPEN", "ACKNOWLEDGED", "RESOLVED", "UNUSED", "PURGED"}
        /\ alerts[k][i].resolved \in Nat
  BY <1>2 DEF Lifecycle!Row
<1>4. \A x \in Execution, k \in Incident : Lifecycle!Known(x, k) =>
        receipts[x][k].instance \in Instance
  BY DEF Lifecycle!TypeOK, Lifecycle!Receipt, Lifecycle!Known
<1>5. \A x \in Execution, k \in Incident : Lifecycle!Known(x, k) =>
        alerts[k][receipts[x][k].instance].status \in {"OPEN", "ACKNOWLEDGED", "RESOLVED"}
  BY DEF Lifecycle!ReceiptsWithinAlert
<1>6. \A k \in Incident : \A i, j \in Lifecycle!Active(k) : i = j
  BY DEF Lifecycle!OneActiveAlert
<1>7. QED
  BY <1>1, <1>3, <1>4, <1>5, <1>6

\* An alert that is still chosen for an execution is open, acknowledged or resolved.
LEMMA ChosenIsKept ==
  ASSUME TablesInv, NEW x \in Execution, NEW k \in Incident, NEW i \in Instance, Chosen(x, k, i)
  PROVE  alerts[k][i].status \in {"OPEN", "ACKNOWLEDGED", "RESOLVED"}
BY Cells DEF Chosen, Lifecycle!Active, Lifecycle!ActiveStatus

\* What a recorder that has visited all its incidents knows of one of them.
LEMMA PlanIsTarget ==
  ASSUME TablesInv, NEW w \in Recorder, NEW k \in Incident, NEW x \in Execution, x = job[w].x,
         Foreseen(w, k)
  PROVE  /\ Lifecycle!IdentityLeft(x, k)
         /\ plan[w][k].do \in {"insert", "update", "keep"}
         /\ plan[w][k].do = "insert" =>
              /\ Lifecycle!Target(x, k) = (CHOOSE i \in Lifecycle!Unused(k) : TRUE)
              /\ ~Lifecycle!Known(x, k)
              /\ Lifecycle!Active(k) = {}
              /\ \A i \in Instance : i = Lifecycle!Target(x, k) => alerts[k][i].status = "UNUSED"
         /\ plan[w][k].do # "insert" =>
              /\ Lifecycle!Target(x, k) = plan[w][k].i
              /\ plan[w][k].i \in Instance
         /\ plan[w][k].do = "update" => plan[w][k].i \in Lifecycle!Active(k)
         /\ plan[w][k].do = "keep" =>
              /\ Lifecycle!Known(x, k)
              /\ alerts[k][plan[w][k].i].status = "RESOLVED"
<1>1. CASE plan[w][k].do = "insert"
  <2>1. ~Lifecycle!Known(x, k) /\ Lifecycle!Active(k) = {} /\ Lifecycle!Unused(k) # {}
    BY <1>1 DEF Foreseen
  <2>2. Lifecycle!Target(x, k) = (CHOOSE i \in Lifecycle!Unused(k) : TRUE)
    BY <2>1 DEF Lifecycle!Target
  <2>3. Lifecycle!Target(x, k) \in Lifecycle!Unused(k)
    BY <2>1, <2>2
  <2>4. QED
    BY <1>1, <2>1, <2>2, <2>3 DEF Lifecycle!IdentityLeft, Lifecycle!Unused
<1>2. CASE plan[w][k].do # "insert"
  <2> DEFINE i == plan[w][k].i
  <2>1. /\ plan[w][k].do \in {"update", "keep"}
        /\ i \in Instance
        /\ Chosen(x, k, i)
        /\ plan[w][k].do = "keep" <=> alerts[k][i].status = "RESOLVED"
    BY <1>2 DEF Foreseen
  <2>2. alerts[k][i].status \in {"OPEN", "ACKNOWLEDGED", "RESOLVED"}
    BY <2>1, ChosenIsKept
  <2>3. CASE Lifecycle!Known(x, k)
    BY <1>2, <2>1, <2>2, <2>3
    DEF Chosen, Lifecycle!Target, Lifecycle!IdentityLeft, Lifecycle!Active, Lifecycle!ActiveStatus
  <2>4. CASE ~Lifecycle!Known(x, k)
    <3>1. i \in Lifecycle!Active(k)
      BY <2>1, <2>4 DEF Chosen
    <3>2. Lifecycle!Target(x, k) = i
      <4>1. Lifecycle!Target(x, k) = CHOOSE j \in Lifecycle!Active(k) : TRUE
        BY <2>4, <3>1 DEF Lifecycle!Target
      <4>2. (CHOOSE j \in Lifecycle!Active(k) : TRUE) \in Lifecycle!Active(k)
        BY <3>1
      <4>3. QED
        BY <3>1, <4>1, <4>2, Cells
    <3>3. alerts[k][i].status # "RESOLVED"
      BY <3>1 DEF Lifecycle!Active, Lifecycle!ActiveStatus
    <3>4. QED
      BY <1>2, <2>1, <3>1, <3>2, <3>3 DEF Lifecycle!IdentityLeft
  <2>5. QED
    BY <2>3, <2>4
<1>3. QED
  BY <1>1, <1>2

\* The commit of a recorder is the one step of AlertLifecycle that records its run.
LEMMA CommitRecords ==
  ASSUME IInv, NEW w \in Recorder, CommitRun(w)
  PROVE  \E attempt \in Attempt, K \in SUBSET Incident :
           \E findings \in [K -> Lifecycle!Finding] :
             /\ job[w].x \in Execution
             /\ K = DOMAIN plan[w]
             /\ Lifecycle!RecordAlerts(job[w].x, attempt, findings)
<1> USE DEF IInv
<1> DEFINE x == job[w].x
           f == job[w].findings
           K == DOMAIN plan[w]
           Identity(k) == IF k \in Inserts(w) THEN CHOOSE i \in Lifecycle!Unused(k) : TRUE
                          ELSE plan[w][k].i
           New == {k \in K : ~Lifecycle!Known(x, k)}
<1>1. /\ job[w] \in Runs
      /\ K = DOMAIN f
      /\ \A k \in K : f[k].seen <= now
      /\ \A k \in K : Foreseen(w, k)
  <2>1. pc[w] = "visit" /\ todo[w] = {}
    BY DEF CommitRun
  <2>2. RecorderInv(w)
    BY DEF ProcessesInv
  <2>3. QED
    BY <2>1, <2>2 DEF RecorderInv
<1>2. /\ x \in Execution
      /\ job[w].attempt \in Attempt
      /\ K \in SUBSET Incident
      /\ f \in [K -> [severity : Lifecycle!Severity, seen : Nat]]
  BY <1>1, RunsAssumption
<1>3. f \in [K -> Lifecycle!Finding]
  <2>1. ASSUME NEW k \in K PROVE f[k] \in [severity : Lifecycle!Severity, seen : 0..now]
    <3>1. f[k] \in [severity : Lifecycle!Severity, seen : Nat]
      BY <1>2
    <3>2. f[k].seen \in 0..now
      BY <1>1, <3>1, Cells
    <3>3. QED
      BY <3>1, <3>2
  <2>2. QED
    BY <1>2, <2>1 DEF Lifecycle!Finding
<1>4. \A k \in K :
        /\ Lifecycle!IdentityLeft(x, k)
        /\ plan[w][k].do \in {"insert", "update", "keep"}
        /\ Lifecycle!Target(x, k) = Identity(k)
        /\ k \in Inserts(w) => ~Lifecycle!Known(x, k) /\ Lifecycle!Active(k) = {}
        /\ k \in Inserts(w) => \A i \in Instance : i = Identity(k) => alerts[k][i].status = "UNUSED"
        /\ plan[w][k].do = "update" => Identity(k) \in Lifecycle!Active(k)
        /\ plan[w][k].do = "keep" => alerts[k][Identity(k)].status = "RESOLVED"
  <2> SUFFICES ASSUME NEW k \in K
               PROVE  /\ Lifecycle!IdentityLeft(x, k)
                      /\ plan[w][k].do \in {"insert", "update", "keep"}
                      /\ Lifecycle!Target(x, k) = Identity(k)
                      /\ k \in Inserts(w) => ~Lifecycle!Known(x, k) /\ Lifecycle!Active(k) = {}
                      /\ k \in Inserts(w) =>
                           \A i \in Instance : i = Identity(k) => alerts[k][i].status = "UNUSED"
                      /\ plan[w][k].do = "update" => Identity(k) \in Lifecycle!Active(k)
                      /\ plan[w][k].do = "keep" => alerts[k][Identity(k)].status = "RESOLVED"
    OBVIOUS
  <2>1. k \in Incident /\ Foreseen(w, k) /\ x \in Execution
    BY <1>1, <1>2
  <2>2. k \in Inserts(w) <=> plan[w][k].do = "insert"
    BY DEF Inserts
  <2>3. IInv /\ TablesInv
    OBVIOUS
  <2>4. x = job[w].x
    OBVIOUS
  <2> HIDE DEF x, K
  <2>5. /\ Lifecycle!IdentityLeft(x, k)
        /\ plan[w][k].do \in {"insert", "update", "keep"}
        /\ plan[w][k].do = "insert" =>
             /\ Lifecycle!Target(x, k) = (CHOOSE i \in Lifecycle!Unused(k) : TRUE)
             /\ ~Lifecycle!Known(x, k)
             /\ Lifecycle!Active(k) = {}
             /\ \A i \in Instance : i = Lifecycle!Target(x, k) => alerts[k][i].status = "UNUSED"
        /\ plan[w][k].do # "insert" => Lifecycle!Target(x, k) = plan[w][k].i
        /\ plan[w][k].do = "update" => plan[w][k].i \in Lifecycle!Active(k)
        /\ plan[w][k].do = "keep" => alerts[k][plan[w][k].i].status = "RESOLVED"
    BY <2>1, <2>3, <2>4, PlanIsTarget
  <2>6. Lifecycle!Target(x, k) = Identity(k)
    BY <2>2, <2>5
  <2> HIDE DEF Identity
  <2>7. QED
    BY <2>2, <2>5, <2>6
<1>5. WriteRun(w)
  <2>1. ~Refused(w)
    BY <1>4 DEF Refused, Inserts
  <2>2. QED
    BY <2>1 DEF CommitRun
<1>6. Lifecycle!RecordAlerts(x, job[w].attempt, f)
  <2>1. /\ DOMAIN f = K
        /\ \A k \in DOMAIN f : Lifecycle!IdentityLeft(x, k)
    BY <1>1, <1>4
  <2> DEFINE Written(k, i) ==
        CASE plan[w][k].do = "insert" -> Lifecycle!Opened(f[k], <<x, job[w].attempt>>)
          [] plan[w][k].do = "update" ->
               Lifecycle!Updated(alerts[k][i], f[k], <<x, job[w].attempt>>,
                                 IF k \in New THEN 1 ELSE 0)
          [] OTHER -> alerts[k][i]
  <2>2. ASSUME NEW k \in K, NEW i \in Instance, i = Identity(k)
        PROVE  Written(k, i) = Lifecycle!Recorded(alerts[k][i], f[k], <<x, job[w].attempt>>,
                                                   Lifecycle!Weight(x, k))
    <3> HIDE DEF Identity, f, x
    <3>1. CASE plan[w][k].do = "insert"
      BY <1>4, <2>2, <3>1 DEF Lifecycle!Recorded, Inserts
    <3>2. CASE plan[w][k].do = "update"
      BY <1>4, <2>2, <3>2 DEF Lifecycle!Recorded, Lifecycle!Weight, Lifecycle!Active,
         Lifecycle!ActiveStatus
    <3>3. CASE plan[w][k].do = "keep"
      BY <1>4, <2>2, <3>3 DEF Lifecycle!Recorded
    <3>4. QED
      BY <1>4, <3>1, <3>2, <3>3
  <2>3. /\ alerts' = [k \in Incident |-> [i \in Instance |->
             IF k \in K /\ i = Identity(k) THEN Written(k, i) ELSE alerts[k][i]]]
        /\ receipts' = [receipts EXCEPT ![x] = [k \in Incident |->
             IF k \in New
             THEN [instance |-> Identity(k), seen |-> f[k].seen, severity |-> f[k].severity]
             ELSE receipts[x][k]]]
        /\ history' = [k \in Incident |-> [i \in Instance |->
             IF k \in Inserts(w) /\ i = Identity(k) THEN <<"OPEN">> ELSE history[k][i]]]
        /\ ledger' = ledger \cup {<<x, k, Identity(k)>> : k \in New}
        /\ now' = now
    BY <1>2, <1>5 DEF WriteRun, IInv, TablesInv, Lifecycle!TypeOK
  <2>4. \A k \in K, i \in Instance :
          k \in Inserts(w) /\ i = Identity(k) <=>
            i = Identity(k) /\ alerts[k][i].status = "UNUSED"
    <3> HIDE DEF Identity, f, x, K
    <3>1. \A k \in K : plan[w][k].do = "insert" => k \in Inserts(w)
      BY DEF K, Inserts
    <3>2. QED
      BY <1>4, <3>1 DEF Lifecycle!Active, Lifecycle!ActiveStatus
  <2> HIDE DEF Identity, f, x, Written, K
  <2>5. alerts' = [k \in Incident |-> [i \in Instance |->
          IF k \in DOMAIN f /\ i = Lifecycle!Target(x, k)
          THEN Lifecycle!Recorded(alerts[k][i], f[k], <<x, job[w].attempt>>,
                                  Lifecycle!Weight(x, k))
          ELSE alerts[k][i]]]
    BY <1>4, <2>1, <2>2, <2>3
  <2>6. receipts' = [receipts EXCEPT ![x] = [k \in Incident |->
          IF k \in DOMAIN f /\ ~Lifecycle!Known(x, k)
          THEN [instance |-> Lifecycle!Target(x, k), seen |-> f[k].seen,
                severity |-> f[k].severity]
          ELSE receipts[x][k]]]
    BY <1>4, <2>1, <2>3
  <2>7. history' = [k \in Incident |-> [i \in Instance |->
          IF k \in DOMAIN f /\ i = Lifecycle!Target(x, k) /\ alerts[k][i].status = "UNUSED"
          THEN <<"OPEN">>
          ELSE history[k][i]]]
    BY <1>4, <2>1, <2>3, <2>4 DEF Inserts, K
  <2>8. ledger' = ledger \cup
          {<<x, k, Lifecycle!Target(x, k)>> : k \in {k \in DOMAIN f : ~Lifecycle!Known(x, k)}}
    BY <1>4, <2>1, <2>3
  <2>9. QED
    BY <2>1, <2>3, <2>5, <2>6, <2>7, <2>8 DEF Lifecycle!RecordAlerts
<1>7. QED
  BY <1>1, <1>2, <1>3, <1>6

-----------------------------------------------------------------------------
\* One transaction moves: the others stay where they are and keep their locks.
Alone(w) ==
  /\ pc' \in [Process -> Label]
  /\ lock' \in [Lock -> Process \cup {None}]
  /\ DOMAIN job' = Process
  /\ DOMAIN todo' = Process
  /\ DOMAIN target' = Process
  /\ DOMAIN plan' = Process
  /\ \A v \in Process : v # w =>
       /\ pc'[v] = pc[v]
       /\ job'[v] = job[v]
       /\ todo'[v] = todo[v]
       /\ target'[v] = target[v]
       /\ plan'[v] = plan[v]
  /\ \A l \in Lock : lock'[l] # lock[l] => lock[l] \in {None, w} /\ lock'[l] \in {None, w}
  /\ pc'[w] = "idle" => \A l \in Lock : lock'[l] # w

\* A transaction writes the tables where it holds the incident's lock, and leaves
\* resolved alerts alone; or it purges alerts, holding their rows and the retention lock.
TablesLeave(w) ==
  /\ now' = now
  /\ \A k \in Incident, i \in Instance :
       \/ alerts'[k][i] = alerts[k][i]
       \/ /\ lock[KeyLock(k)] = w
          /\ alerts[k][i].status # "RESOLVED"
          /\ alerts'[k][i].status = "RESOLVED" => alerts'[k][i].resolved = now
       \/ /\ lock[RetentionLock] = w
          /\ lock[RowLock(<<k, i>>)] = w
          /\ alerts[k][i].status = "RESOLVED"
          /\ alerts'[k][i].status = "PURGED"
  /\ \A x \in Execution, k \in Incident :
       \/ receipts'[x][k] = receipts[x][k]
       \/ lock[KeyLock(k)] = w
       \/ /\ Lifecycle!Known(x, k)
          /\ ~Lifecycle!Known(x, k)'
          /\ lock[RowLock(<<k, receipts[x][k].instance>>)] = w
          /\ alerts[k][receipts[x][k].instance].status = "RESOLVED"
          /\ alerts'[k][receipts[x][k].instance].status = "PURGED"

\* A step that leaves the tables alone.
LEMMA UnchangedTables ==
  ASSUME NEW w, UNCHANGED tables
  PROVE  TablesLeave(w) /\ UNCHANGED Lifecycle!vars
BY DEF tables, TablesLeave, Lifecycle!vars

\* Types are kept, and locks end with their transaction.
LEMMA AloneTyped ==
  ASSUME IInv, NEW w \in Process, Alone(w)
  PROVE  Typed'
<1>1. \A l \in Lock : lock'[l] # None => pc'[lock'[l]] # "idle"
  <2> SUFFICES ASSUME NEW l \in Lock, lock'[l] # None
               PROVE  pc'[lock'[l]] # "idle"
    OBVIOUS
  <2>1. CASE lock'[l] = w
    BY <2>1 DEF Alone
  <2>2. CASE lock'[l] # w
    <3>1. lock'[l] = lock[l]
      BY <2>2 DEF Alone
    <3>2. lock[l] \in Process /\ lock[l] # w
      BY <2>2, <3>1 DEF IInv, Typed
    <3>3. pc[lock[l]] # "idle"
      BY <3>1 DEF IInv, Typed
    <3>4. QED
      BY <3>1, <3>2, <3>3 DEF Alone
  <2>3. QED
    BY <2>1, <2>2
<1>2. QED
  BY <1>1 DEF Alone, Typed

\* The other transactions hold the same locks.
LEMMA OthersLocks ==
  ASSUME NEW w \in Process, NEW v \in Process, v # w, Alone(w), NEW l \in Lock
  PROVE  lock'[l] = v <=> lock[l] = v
BY NoneAssumption DEF Alone

\* What another recorder planned is what record_alert would still do.
LEMMA OthersForesee ==
  ASSUME IInv, NEW w \in Process, NEW v \in Recorder, v # w, Alone(w), TablesLeave(w),
         NEW k \in Incident, lock[KeyLock(k)] = v, job[v].x \in Execution, Foreseen(v, k)
  PROVE  Foreseen(v, k)'
<1> DEFINE x == job[v].x
<1>1. /\ plan'[v] = plan[v] /\ job'[v] = job[v]
      /\ v \in Process
  BY DEF Alone, Process
<1>2. TablesInv
  BY DEF IInv
<1>3. ASSUME ~Lifecycle!Known(x, k)
      PROVE  receipts'[x][k] = receipts[x][k]
  BY <1>3 DEF TablesLeave
<1>4. CASE plan[v][k].do = "insert"
  <2>1. ~Lifecycle!Known(x, k)
    BY <1>4 DEF Foreseen
  <2>2. ~Lifecycle!Known(x, k)'
    BY <1>1, <1>3, <2>1 DEF Lifecycle!Known
  <2>3. Lifecycle!Active(k)' = {}
    BY <1>4 DEF Foreseen, Lifecycle!Active, Lifecycle!ActiveStatus, TablesLeave
  <2>4. Lifecycle!Unused(k)' # {}
    <3>1. PICK i \in Lifecycle!Unused(k) : TRUE
      BY <1>4 DEF Foreseen
    <3>2. i \in Instance /\ alerts[k][i].status = "UNUSED"
      BY DEF Lifecycle!Unused
    <3>3. alerts'[k][i] = alerts[k][i]
      BY <3>2 DEF TablesLeave
    <3>4. i \in Lifecycle!Unused(k)'
      BY <3>2, <3>3 DEF Lifecycle!Unused
    <3>5. QED
      BY <3>4
  <2>5. QED
    BY <1>1, <1>4, <2>2, <2>3, <2>4 DEF Foreseen
<1>5. CASE plan[v][k].do # "insert"
  <2> DEFINE i == plan[v][k].i
  <2>1. /\ plan[v][k].do \in {"update", "keep"}
        /\ i \in Instance
        /\ lock[RowLock(<<k, i>>)] = v
        /\ Chosen(x, k, i)
        /\ (plan[v][k].do = "keep") <=> (alerts[k][i].status = "RESOLVED")
    BY <1>5 DEF Foreseen
  <2>2. RowLock(<<k, i>>) \in Lock
    BY <2>1, LocksDiffer DEF Alert
  <2>3. lock'[RowLock(<<k, i>>)] = v
    BY <1>1, <2>1, <2>2, OthersLocks
  <2> HIDE DEF i, x
  <2>4. alerts'[k][i] = alerts[k][i]
    BY <2>1 DEF TablesLeave
  <2>5. Chosen(x, k, i)'
    <3>0. x' = x /\ i' = i
      BY <1>1 DEF x, i
    <3>1. CASE Lifecycle!Known(x, k)
      <4>1. receipts[x][k].instance = i
        BY <2>1, <3>1 DEF Chosen
      <4>2. receipts'[x][k] = receipts[x][k]
        BY <2>1, <4>1 DEF TablesLeave, x
      <4>3. QED
        BY <3>0, <3>1, <4>1, <4>2 DEF Chosen, Lifecycle!Known
    <3>2. CASE ~Lifecycle!Known(x, k)
      <4>1. receipts'[x][k] = receipts[x][k]
        BY <1>3, <3>2 DEF x
      <4>2. i \in Lifecycle!Active(k)
        BY <2>1, <3>2 DEF Chosen
      <4>3. QED
        BY <2>4, <3>0, <3>2, <4>1, <4>2
        DEF Chosen, Lifecycle!Known, Lifecycle!Active, Lifecycle!ActiveStatus
    <3>3. QED
      BY <3>1, <3>2
  <2>6. QED
    BY <1>1, <2>1, <2>3, <2>4, <2>5 DEF Foreseen, x, i
<1>6. QED
  BY <1>4, <1>5

\* The row another recorder is about to lock is still its alert, or purged.
LEMMA OthersTarget ==
  ASSUME IInv, NEW w \in Process, NEW v \in Recorder, v # w, TablesLeave(w),
         NEW k \in Incident, NEW i \in Instance, NEW x \in Execution, lock[KeyLock(k)] = v,
         alerts[k][i].status = "PURGED" \/ Chosen(x, k, i)
  PROVE  alerts'[k][i].status = "PURGED" \/ Chosen(x, k, i)'
<1>1. CASE alerts[k][i].status = "PURGED"
  BY <1>1 DEF TablesLeave
<1>2. CASE Chosen(x, k, i) /\ Lifecycle!Known(x, k)
  <2>1. receipts[x][k].instance = i
    BY <1>2 DEF Chosen
  <2>2. CASE receipts'[x][k] = receipts[x][k]
    BY <1>2, <2>1, <2>2 DEF Chosen, Lifecycle!Known
  <2>3. CASE receipts'[x][k] # receipts[x][k]
    BY <2>1, <2>3 DEF TablesLeave
  <2>4. QED
    BY <2>2, <2>3
<1>3. CASE Chosen(x, k, i) /\ ~Lifecycle!Known(x, k)
  <2>1. receipts'[x][k] = receipts[x][k]
    BY <1>3 DEF TablesLeave
  <2>2. i \in Lifecycle!Active(k)
    BY <1>3 DEF Chosen
  <2>3. alerts'[k][i] = alerts[k][i]
    BY <2>2 DEF TablesLeave, Lifecycle!Active, Lifecycle!ActiveStatus
  <2>4. QED
    BY <1>3, <2>1, <2>2, <2>3
    DEF Chosen, Lifecycle!Known, Lifecycle!Active, Lifecycle!ActiveStatus
<1>4. QED
  BY <1>1, <1>2, <1>3

\* A recorder's part of the invariant survives the steps of others.
LEMMA OtherRecorders ==
  ASSUME IInv, NEW w \in Process, NEW v \in Recorder, v # w, Alone(w), TablesLeave(w)
  PROVE  RecorderInv(v)'
<1>1. /\ v \in Process
      /\ pc'[v] = pc[v] /\ job'[v] = job[v] /\ todo'[v] = todo[v]
      /\ target'[v] = target[v] /\ plan'[v] = plan[v] /\ now' = now
  BY DEF Alone, Process, TablesLeave
<1>2. RecorderInv(v)
  BY DEF IInv, ProcessesInv
<1>3. \A l \in Lock : lock'[l] = v <=> lock[l] = v
  BY <1>1, OthersLocks
<1>4. /\ pc'[v] \in {"idle", "visit", "row"}
      /\ pc'[v] = "idle" => DOMAIN plan'[v] = {}
  BY <1>1, <1>2 DEF RecorderInv
<1>5. ASSUME pc[v] # "idle"
      PROVE  /\ job[v].x \in Execution
             /\ DOMAIN plan[v] \subseteq Incident
             /\ todo[v] \subseteq Incident
  BY <1>2, <1>5, RunsAssumption DEF RecorderInv
<1>6. pc'[v] # "idle" =>
       /\ job'[v] \in Runs
       /\ \A k \in DOMAIN job'[v].findings : job'[v].findings[k].seen <= now'
       /\ todo'[v] \subseteq DOMAIN job'[v].findings
       /\ DOMAIN plan'[v] = DOMAIN job'[v].findings \ todo'[v]
       /\ \A k \in DOMAIN plan'[v] :
            /\ lock'[KeyLock(k)] = v
            /\ Foreseen(v, k)'
            /\ \A t \in todo'[v] : k < t
  <2> SUFFICES ASSUME pc[v] # "idle"
               PROVE  /\ job[v] \in Runs
                      /\ \A k \in DOMAIN job[v].findings : job[v].findings[k].seen <= now
                      /\ todo[v] \subseteq DOMAIN job[v].findings
                      /\ DOMAIN plan[v] = DOMAIN job[v].findings \ todo[v]
                      /\ \A k \in DOMAIN plan[v] :
                           /\ lock'[KeyLock(k)] = v
                           /\ Foreseen(v, k)'
                           /\ \A t \in todo[v] : k < t
    BY <1>1
  <2>1. ASSUME NEW k \in DOMAIN plan[v]
        PROVE  /\ lock'[KeyLock(k)] = v
               /\ Foreseen(v, k)'
               /\ \A t \in todo[v] : k < t
    <3>1. k \in Incident /\ lock[KeyLock(k)] = v /\ Foreseen(v, k) /\ \A t \in todo[v] : k < t
      BY <1>2, <1>5 DEF RecorderInv
    <3>2. Foreseen(v, k)'
      BY <1>5, <3>1, OthersForesee
    <3>3. QED
      BY <1>3, <3>1, <3>2, LocksDiffer
  <2>2. QED
    BY <1>2, <2>1 DEF RecorderInv
<1>7. pc'[v] = "row" =>
       /\ target'[v] \in Alert
       /\ target'[v][1] \in todo'[v]
       /\ \A t \in todo'[v] : target'[v][1] <= t
       /\ lock'[KeyLock(target'[v][1])] = v
       /\ \/ StatusOf(target[v])' = "PURGED"
          \/ Chosen(job[v].x, target[v][1], target[v][2])'
  <2> SUFFICES ASSUME pc[v] = "row"
               PROVE  /\ target[v] \in Alert
                      /\ target[v][1] \in todo[v]
                      /\ \A t \in todo[v] : target[v][1] <= t
                      /\ lock'[KeyLock(target[v][1])] = v
                      /\ \/ StatusOf(target[v])' = "PURGED"
                         \/ Chosen(job[v].x, target[v][1], target[v][2])'
    BY <1>1
  <2>1. PICK k \in Incident, i \in Instance : target[v] = <<k, i>>
    BY <1>2 DEF RecorderInv, Alert
  <2>2. lock[KeyLock(k)] = v /\ (alerts[k][i].status = "PURGED" \/ Chosen(job[v].x, k, i))
    BY <1>2, <2>1 DEF RecorderInv, StatusOf
  <2>3. PICK x \in Execution : x = job[v].x
    BY <1>5
  <2>4. alerts'[k][i].status = "PURGED" \/ Chosen(x, k, i)'
    BY <2>2, <2>3, OthersTarget
  <2>5. \/ StatusOf(target[v])' = "PURGED"
        \/ Chosen(job[v].x, target[v][1], target[v][2])'
    BY <1>1, <2>1, <2>3, <2>4 DEF StatusOf, Chosen, Lifecycle!Known, Lifecycle!Active
  <2>6. lock'[KeyLock(k)] = v
    BY <1>3, <2>2, LocksDiffer
  <2>7. QED
    BY <1>2, <2>1, <2>5, <2>6 DEF RecorderInv
<1>8. /\ \A k \in Incident : lock'[KeyLock(k)] = v =>
           k \in DOMAIN plan'[v] \/ (pc'[v] = "row" /\ k = target'[v][1])
      /\ \A a \in Alert : lock'[RowLock(a)] = v => a[1] \in DOMAIN plan'[v]
      /\ lock'[RetentionLock] # v
  BY <1>1, <1>2, <1>3, LocksDiffer DEF RecorderInv
<1>9. QED
  BY <1>4, <1>6, <1>7, <1>8 DEF RecorderInv

\* An operator's does.
LEMMA OtherOperators ==
  ASSUME IInv, NEW w \in Process, NEW v \in Operator, v # w, Alone(w)
  PROVE  OperatorInv(v)'
<1>1. /\ v \in Process
      /\ pc'[v] = pc[v] /\ job'[v] = job[v] /\ target'[v] = target[v]
  BY DEF Alone, Process
<1>2. OperatorInv(v)
  BY DEF IInv, ProcessesInv
<1>3. \A l \in Lock : lock'[l] = v <=> lock[l] = v
  BY <1>1, OthersLocks
<1>4. pc[v] = "row" => KeyLock(target[v][1]) \in Lock
  BY <1>2, LocksDiffer DEF OperatorInv, Alert
<1>5. QED
  BY <1>1, <1>2, <1>3, <1>4 DEF OperatorInv

\* What has expired for a janitor with the retention lock stays so until it deletes it.
LEMMA OthersExpire ==
  ASSUME IInv, NEW w \in Process, NEW v \in Process, v # w, TablesLeave(w), TablesInv',
         lock[RetentionLock] = v, NEW at \in 0..now
  PROVE  Expired(at)' = Expired(at)
<1>1. ASSUME NEW k \in Incident, NEW i \in Instance
      PROVE  Lifecycle!Expired(k, i, at)' <=> Lifecycle!Expired(k, i, at)
  <2>1. \/ alerts'[k][i] = alerts[k][i]
        \/ /\ alerts[k][i].status # "RESOLVED"
           /\ alerts'[k][i].status = "RESOLVED" => alerts'[k][i].resolved = now
    BY DEF TablesLeave
  <2>2. now \in Nat
    BY Cells DEF IInv
  <2>3. ~(now < at - RetentionDays)
    BY <2>2, RetentionAssumption
  <2>4. QED
    BY <2>1, <2>3 DEF Lifecycle!Expired
<1>2. QED
  BY <1>1 DEF Expired, Alert

\* The janitor's does.
LEMMA OtherJanitors ==
  ASSUME IInv, NEW w \in Process, NEW v \in Janitor, v # w, Alone(w), TablesLeave(w), TablesInv'
  PROVE  JanitorInv(v)'
<1>1. /\ v \in Process
      /\ pc'[v] = pc[v] /\ job'[v] = job[v] /\ todo'[v] = todo[v]
      /\ target'[v] = target[v] /\ now' = now
  BY DEF Alone, Process, TablesLeave
<1>2. JanitorInv(v)
  BY DEF IInv, ProcessesInv
<1>3. \A l \in Lock : lock'[l] = v <=> lock[l] = v
  BY <1>1, OthersLocks
<1>4. {a \in Alert : lock'[RowLock(a)] = v} = {a \in Alert : lock[RowLock(a)] = v}
  BY <1>3, LocksDiffer
<1>5. pc[v] \in {"sweep", "delete"} => Expired(job[v])' = Expired(job[v])
  <2> SUFFICES ASSUME pc[v] \in {"sweep", "delete"}
               PROVE  Expired(job[v])' = Expired(job[v])
    OBVIOUS
  <2>1. lock[RetentionLock] = v
    BY <1>2 DEF JanitorInv
  <2>2. PICK at \in 0..now : at = job[v]
    BY <1>2 DEF JanitorInv
  <2>3. Expired(at)' = Expired(at)
    BY <1>1, <2>1, OthersExpire
  <2>4. QED
    BY <1>1, <2>2, <2>3 DEF Expired, Lifecycle!Expired
<1>6. pc'[v] \in {"sweep", "delete"} =>
        /\ lock'[RetentionLock] = v
        /\ todo'[v] \cup {a \in Alert : lock'[RowLock(a)] = v} = Expired(job[v])'
  BY <1>1, <1>2, <1>3, <1>4, <1>5, LocksDiffer DEF JanitorInv
<1>7. QED
  BY <1>1, <1>2, <1>3, <1>6, LocksDiffer DEF JanitorInv

-----------------------------------------------------------------------------
\* A transaction that has ended.
Rest(w) ==
  /\ pc[w] = "idle"
  /\ DOMAIN plan[w] = {}
  /\ \A l \in Lock : lock[l] # w

\* A transaction that has ended satisfies its part of the invariant.
LEMMA RestKeeps ==
  ASSUME NEW w \in Process, Rest(w)'
  PROVE  /\ w \in Recorder => RecorderInv(w)'
         /\ w \in Operator => OperatorInv(w)'
         /\ w \in Janitor => JanitorInv(w)'
<1>1. \A k \in Incident : lock'[KeyLock(k)] # w
  BY LocksDiffer DEF Rest
<1>2. \A a \in Alert : lock'[RowLock(a)] # w
  BY LocksDiffer DEF Rest
<1>3. lock'[RetentionLock] # w
  BY LocksDiffer DEF Rest
<1>4. RecorderInv(w)'
  BY <1>1, <1>2, <1>3 DEF Rest, RecorderInv
<1>5. OperatorInv(w)'
  BY DEF Rest, OperatorInv
<1>6. JanitorInv(w)'
  BY <1>1, <1>2 DEF Rest, JanitorInv
<1>7. QED
  BY <1>4, <1>5, <1>6

\* COMMIT and ROLLBACK release the locks of their transaction, and no other.
LEMMA EndRests ==
  ASSUME IInv, NEW w \in Process, End(w)
  PROVE  Alone(w) /\ Rest(w)'
<1> USE DEF IInv, Typed
<1>1. pc' = [pc EXCEPT ![w] = "idle"]
  BY DEF End, Goto
<1>2. pc' \in [Process -> Label] /\ pc'[w] = "idle" /\ \A v \in Process : v # w => pc'[v] = pc[v]
  BY <1>1 DEF Label
<1>3. /\ lock' \in [Lock -> Process \cup {None}]
      /\ \A l \in Lock : lock'[l] = IF lock[l] = w THEN None ELSE lock[l]
  BY DEF End
<1>4. \A l \in Lock : lock'[l] # w
  BY <1>3, NoneAssumption
<1>5. /\ DOMAIN job' = Process /\ DOMAIN todo' = Process
      /\ DOMAIN target' = Process /\ DOMAIN plan' = Process
      /\ \A v \in Process : v # w =>
           job'[v] = job[v] /\ todo'[v] = todo[v] /\ target'[v] = target[v] /\ plan'[v] = plan[v]
      /\ plan'[w] = << >>
  BY DEF End
<1>6. QED
  BY <1>2, <1>3, <1>4, <1>5 DEF Alone, Rest

\* A transaction that takes the lock it wants.
LEMMA TakeLock ==
  ASSUME IInv, NEW w \in Process, Take(w), NEW l \in Lock, Wants(w) = {l}
  PROVE  /\ lock' \in [Lock -> Process \cup {None}]
         /\ lock[l] \in {None, w}
         /\ lock'[l] = w
         /\ \A m \in Lock : m # l => lock'[m] = lock[m]
BY DEF Take, BlockedBy, IInv, Typed

\* A transaction holds no lock while it is idle.
LEMMA IdleHoldsNothing ==
  ASSUME IInv, NEW w \in Process, pc[w] = "idle"
  PROVE  \A l \in Lock : lock[l] # w
BY NoneAssumption DEF IInv, Typed

-----------------------------------------------------------------------------
\* A recorder's steps.
LEMMA StartRunStep ==
  ASSUME IInv, NEW w \in Recorder, NEW run \in Runs, StartRun(w, run)
  PROVE  Alone(w) /\ TablesLeave(w) /\ RecorderInv(w)' /\ UNCHANGED Lifecycle!vars
<1>1. w \in Process
  BY DEF Process
<1>2. /\ pc' = [pc EXCEPT ![w] = "visit"]
      /\ job' = [job EXCEPT ![w] = run]
      /\ todo' = [todo EXCEPT ![w] = DOMAIN run.findings]
      /\ target' = target /\ plan' = plan /\ lock' = lock
      /\ now' = now
      /\ pc[w] = "idle"
      /\ \A k \in DOMAIN run.findings : run.findings[k].seen <= now
  BY DEF StartRun, Goto, tables
<1>3. pc'[w] = "visit" /\ job'[w] = run /\ todo'[w] = DOMAIN run.findings
  BY <1>1, <1>2 DEF IInv, Typed
<1>4. DOMAIN plan[w] = {}
  BY <1>2 DEF IInv, ProcessesInv, RecorderInv
<1>5. \A l \in Lock : lock[l] # w
  BY <1>1, <1>2, IdleHoldsNothing
<1>6. Alone(w)
  BY <1>1, <1>2, <1>3 DEF Alone, IInv, Typed, Label
<1>7. RecorderInv(w)'
  BY <1>2, <1>3, <1>4, <1>5, LocksDiffer DEF RecorderInv
<1>8. QED
  BY <1>6, <1>7, UnchangedTables DEF StartRun

\* What a recorder does while it visits its incidents leaves the tables as they are.
LEMMA ForeseenStays ==
  ASSUME NEW w, NEW k, plan'[w][k] = plan[w][k], job'[w] = job[w], UNCHANGED tables,
         Foreseen(w, k), plan[w][k].do # "insert" => lock'[RowLock(<<k, plan[w][k].i>>)] = w
  PROVE  Foreseen(w, k)'
BY DEF tables, Foreseen, Chosen, Lifecycle!Known, Lifecycle!Active, Lifecycle!Unused

\* What a recorder adds to its plan.
LEMMA PlannedStep ==
  ASSUME IInv, NEW w \in Process, NEW k, NEW act, Planned(w, k, act)
  PROVE  /\ DOMAIN plan' = Process /\ DOMAIN todo' = Process
         /\ \A v \in Process : v # w => plan'[v] = plan[v] /\ todo'[v] = todo[v]
         /\ todo'[w] = todo[w] \ {k}
         /\ DOMAIN plan'[w] = DOMAIN plan[w] \cup {k}
         /\ plan'[w][k] = act
         /\ \A l \in DOMAIN plan[w] : l # k => plan'[w][l] = plan[w][l]
<1> USE DEF IInv, Typed
<1>1. plan'[w] = [l \in DOMAIN plan[w] \cup {k} |-> IF l = k THEN act ELSE plan[w][l]]
  BY DEF Planned
<1>2. QED
  BY <1>1 DEF Planned

\* What a recorder that is not idle knows of its incidents.
LEMMA RecorderAtWork ==
  ASSUME IInv, NEW w \in Recorder, pc[w] # "idle"
  PROVE  /\ w \in Process
         /\ job[w].x \in Execution
         /\ DOMAIN plan[w] \subseteq Incident
         /\ todo[w] \subseteq Incident
         /\ todo[w] \subseteq Nat
         /\ DOMAIN plan[w] \cap todo[w] = {}
         /\ RecorderInv(w)
<1>1. RecorderInv(w)
  BY DEF IInv, ProcessesInv
<1>2. job[w] \in Runs /\ todo[w] \subseteq DOMAIN job[w].findings
      /\ DOMAIN plan[w] = DOMAIN job[w].findings \ todo[w]
  BY <1>1 DEF RecorderInv
<1>3. job[w].x \in Execution /\ DOMAIN job[w].findings \subseteq Incident
  BY <1>2, RunsAssumption
<1>4. QED
  BY <1>1, <1>2, <1>3, IncidentAssumption DEF Process

\* The incident a recorder visits next is the least it has left.
LEMMA NextIsLeast ==
  ASSUME IInv, NEW w \in Recorder, pc[w] = "visit", todo[w] # {}
  PROVE  /\ NextKey(w) \in todo[w]
         /\ \A t \in todo[w] : NextKey(w) <= t
         /\ Wants(w) = {KeyLock(NextKey(w))}
<1>1. todo[w] \in SUBSET Nat
  BY RecorderAtWork
<1>2. NextKey(w) \in todo[w] /\ \A t \in todo[w] : NextKey(w) <= t
  BY <1>1, Least DEF NextKey
<1>3. QED
  BY <1>2 DEF Wants

\* The visit of an incident.
LEMMA VisitStep ==
  ASSUME IInv, NEW w \in Recorder, Visit(w)
  PROVE  Alone(w) /\ TablesLeave(w) /\ RecorderInv(w)' /\ UNCHANGED Lifecycle!vars
<1>0. PICK k : k = NextKey(w)
  OBVIOUS
<1> DEFINE x == job[w].x
           found == IF Lifecycle!Known(x, k) THEN {receipts[x][k].instance}
                    ELSE Lifecycle!Active(k)
<1>1. pc[w] = "visit" /\ todo[w] # {} /\ Take(w) /\ UNCHANGED tables /\ job' = job
  BY DEF Visit
<1>2. /\ w \in Process
      /\ x \in Execution
      /\ DOMAIN plan[w] \subseteq Incident
      /\ todo[w] \subseteq Nat
      /\ todo[w] \subseteq Incident
      /\ DOMAIN plan[w] \cap todo[w] = {}
      /\ RecorderInv(w)
  BY <1>1, RecorderAtWork
<1>3. /\ k \in todo[w]
      /\ \A t \in todo[w] : k <= t
      /\ Wants(w) = {KeyLock(k)}
  BY <1>0, <1>1, NextIsLeast
<1>4. k \in Incident
  BY <1>2, <1>3
<1>5. /\ lock' \in [Lock -> Process \cup {None}]
      /\ lock[KeyLock(k)] \in {None, w}
      /\ lock'[KeyLock(k)] = w
      /\ \A m \in Lock : m # KeyLock(k) => lock'[m] = lock[m]
  BY <1>1, <1>2, <1>3, <1>4, TakeLock, LocksDiffer
<1>6. /\ job[w] \in Runs
      /\ \A l \in DOMAIN job[w].findings : job[w].findings[l].seen <= now
      /\ todo[w] \subseteq DOMAIN job[w].findings
      /\ DOMAIN plan[w] = DOMAIN job[w].findings \ todo[w]
      /\ \A l \in DOMAIN plan[w] :
           /\ lock[KeyLock(l)] = w
           /\ Foreseen(w, l)
           /\ \A t \in todo[w] : l < t
  BY <1>1, <1>2 DEF RecorderInv
<1>7. \A l \in DOMAIN plan[w] : lock'[KeyLock(l)] = w
  BY <1>2, <1>3, <1>4, <1>5, <1>6, LocksDiffer
<1>8. /\ \A l \in Incident : lock'[KeyLock(l)] = w => l \in DOMAIN plan[w] \/ l = k
      /\ \A a \in Alert : lock'[RowLock(a)] = w => a[1] \in DOMAIN plan[w]
      /\ \A a \in Alert : lock[RowLock(a)] = w => lock'[RowLock(a)] = w
      /\ lock'[RetentionLock] # w
  BY <1>1, <1>2, <1>4, <1>5, LocksDiffer DEF RecorderInv
<1>9. \A l \in DOMAIN plan[w] :
        plan[w][l].do # "insert" => lock'[RowLock(<<l, plan[w][l].i>>)] = w
  BY <1>2, <1>6, <1>8 DEF Foreseen, Alert
<1>10. now' = now
  BY <1>1 DEF tables
<1> HIDE DEF x, found
<1>11. CASE found = {} /\ Lifecycle!Unused(k) # {} /\ Planned(w, k, [do |-> "insert"])
            /\ UNCHANGED <<pc, target>>
  <2>1. /\ DOMAIN plan' = Process /\ DOMAIN todo' = Process
        /\ \A v \in Process : v # w => plan'[v] = plan[v] /\ todo'[v] = todo[v]
        /\ todo'[w] = todo[w] \ {k}
        /\ DOMAIN plan'[w] = DOMAIN plan[w] \cup {k}
        /\ plan'[w][k] = [do |-> "insert"]
        /\ \A l \in DOMAIN plan[w] : l # k => plan'[w][l] = plan[w][l]
    BY <1>2, <1>11, PlannedStep
  <2>2. pc' = pc /\ target' = target
    BY <1>11
  <2>3. Alone(w)
    BY <1>1, <1>2, <1>5, <2>1, <2>2 DEF Alone, IInv, Typed
  <2>4. ~Lifecycle!Known(x, k) /\ Lifecycle!Active(k) = {}
    BY <1>11 DEF found
  <2>5. Foreseen(w, k)'
    BY <1>1, <1>11, <2>1, <2>4
    DEF Foreseen, tables, Lifecycle!Known, Lifecycle!Active, Lifecycle!Unused, x
  <2>6. \A l \in DOMAIN plan'[w] :
          /\ lock'[KeyLock(l)] = w
          /\ Foreseen(w, l)'
          /\ \A t \in todo'[w] : l < t
    <3> SUFFICES ASSUME NEW l \in DOMAIN plan'[w]
                 PROVE  /\ lock'[KeyLock(l)] = w
                        /\ Foreseen(w, l)'
                        /\ \A t \in todo'[w] : l < t
      OBVIOUS
    <3>1. CASE l = k
      BY <1>2, <1>3, <1>5, <2>1, <2>5, <3>1
    <3>2. CASE l # k
      <4>1. l \in DOMAIN plan[w] /\ plan'[w][l] = plan[w][l]
        BY <2>1, <3>2
      <4>2. Foreseen(w, l)'
        BY <1>1, <1>6, <1>9, <4>1, ForeseenStays
      <4>3. QED
        BY <1>6, <1>7, <2>1, <4>1, <4>2
    <3>3. QED
      BY <3>1, <3>2
  <2>7. RecorderInv(w)'
    BY <1>1, <1>2, <1>3, <1>6, <1>8, <1>10, <2>1, <2>2, <2>6 DEF RecorderInv
  <2>8. QED
    BY <1>1, <2>3, <2>7, UnchangedTables
<1>12. ASSUME NEW i \in found, target' = [target EXCEPT ![w] = <<k, i>>], Goto(w, "row"),
              UNCHANGED <<plan, todo>>
       PROVE  Alone(w) /\ TablesLeave(w) /\ RecorderInv(w)' /\ UNCHANGED Lifecycle!vars
  <2>1. /\ DOMAIN target' = Process
        /\ target'[w] = <<k, i>>
        /\ \A v \in Process : v # w => target'[v] = target[v]
        /\ plan' = plan /\ todo' = todo
    BY <1>2, <1>12 DEF IInv, Typed
  <2>2. /\ pc' \in [Process -> Label]
        /\ pc'[w] = "row"
        /\ \A v \in Process : v # w => pc'[v] = pc[v]
    BY <1>2, <1>12 DEF Goto, IInv, Typed, Label
  <2>3. Alone(w)
    BY <1>1, <1>2, <1>5, <2>1, <2>2 DEF Alone, IInv, Typed
  <2>4. i \in Instance /\ Chosen(x, k, i)
    <3>1. TablesInv
      BY DEF IInv
    <3>2. QED
      BY <1>2, <1>4, <3>1, Cells DEF found, Chosen, Lifecycle!Active
  <2>5. Chosen(x, k, i)'
    BY <1>1, <2>4 DEF Chosen, tables, Lifecycle!Known, Lifecycle!Active, x
  <2>6. \A l \in DOMAIN plan[w] : Foreseen(w, l)'
    BY <1>1, <1>6, <1>9, <2>1, ForeseenStays
  <2>7. RecorderInv(w)'
    <3>1. Chosen(job[w].x, target[w][1], target[w][2])'
      BY <1>1, <2>1, <2>5 DEF Chosen, Lifecycle!Known, Lifecycle!Active, x
    <3>2. target'[w] \in Alert
      BY <1>4, <2>1, <2>4 DEF Alert
    <3>3. QED
      BY <1>1, <1>2, <1>3, <1>5, <1>6, <1>7, <1>8, <1>10, <2>1, <2>2, <2>6, <3>1, <3>2
      DEF RecorderInv
  <2>8. QED
    BY <1>1, <2>3, <2>7, UnchangedTables
<1>13. QED
  BY <1>0, <1>11, <1>12 DEF Visit, found, x

\* The lock of an incident's alert.
LEMMA LockRowStep ==
  ASSUME IInv, NEW w \in Recorder, LockRow(w)
  PROVE  Alone(w) /\ TablesLeave(w) /\ RecorderInv(w)' /\ UNCHANGED Lifecycle!vars
<1>1. /\ pc[w] = "row" /\ Take(w) /\ UNCHANGED tables /\ job' = job
      /\ StatusOf(target[w]) # "PURGED"
      /\ Planned(w, target[w][1], Act(w))
      /\ target' = [target EXCEPT ![w] = None]
      /\ Goto(w, "visit")
  BY DEF LockRow
<1>2. /\ w \in Process
      /\ job[w].x \in Execution
      /\ DOMAIN plan[w] \subseteq Incident
      /\ todo[w] \subseteq Nat
      /\ todo[w] \subseteq Incident
      /\ DOMAIN plan[w] \cap todo[w] = {}
      /\ RecorderInv(w)
  BY <1>1, RecorderAtWork
<1>3. PICK x \in Execution : x = job[w].x
  BY <1>2
<1>4. target[w] \in Alert
  BY <1>1, <1>2 DEF RecorderInv
<1>5. PICK k \in Incident, i \in Instance : target[w] = <<k, i>>
  BY <1>4 DEF Alert
<1>6. /\ k \in todo[w]
      /\ \A t \in todo[w] : k <= t
      /\ lock[KeyLock(k)] = w
      /\ Chosen(x, k, i)
  BY <1>1, <1>2, <1>3, <1>5 DEF RecorderInv, StatusOf
<1>7. Wants(w) = {RowLock(<<k, i>>)}
  BY <1>1, <1>5 DEF Wants
<1>8. <<k, i>> \in Alert /\ RowLock(<<k, i>>) \in Lock
  BY LocksDiffer DEF Alert
<1>9. /\ lock' \in [Lock -> Process \cup {None}]
      /\ lock'[RowLock(<<k, i>>)] = w
      /\ \A m \in Lock : m # RowLock(<<k, i>>) => lock'[m] = lock[m]
  BY <1>1, <1>2, <1>7, <1>8, TakeLock
<1>10. /\ DOMAIN plan' = Process /\ DOMAIN todo' = Process
       /\ \A v \in Process : v # w => plan'[v] = plan[v] /\ todo'[v] = todo[v]
       /\ todo'[w] = todo[w] \ {k}
       /\ DOMAIN plan'[w] = DOMAIN plan[w] \cup {k}
       /\ plan'[w][k] = Act(w)
       /\ \A l \in DOMAIN plan[w] : l # k => plan'[w][l] = plan[w][l]
  BY <1>1, <1>2, <1>5, PlannedStep
<1>11. /\ pc' \in [Process -> Label]
       /\ pc'[w] = "visit"
       /\ \A v \in Process : v # w => pc'[v] = pc[v]
       /\ DOMAIN target' = Process
       /\ \A v \in Process : v # w => target'[v] = target[v]
       /\ now' = now
  BY <1>1, <1>2 DEF Goto, IInv, Typed, Label, tables
<1>12. \A m \in Lock : lock'[m] # lock[m] => lock[m] \in {None, w} /\ lock'[m] \in {None, w}
  BY <1>1, <1>2, <1>7, <1>8, <1>9, TakeLock
<1>13. Alone(w)
  BY <1>1, <1>2, <1>9, <1>10, <1>11, <1>12 DEF Alone, IInv, Typed
<1>14. /\ \A l \in Incident : lock'[KeyLock(l)] = lock[KeyLock(l)]
       /\ lock'[RetentionLock] = lock[RetentionLock]
       /\ \A a \in Alert : lock[RowLock(a)] = w => lock'[RowLock(a)] = w
       /\ \A a \in Alert : lock'[RowLock(a)] = w => lock[RowLock(a)] = w \/ a = <<k, i>>
  BY <1>8, <1>9, LocksDiffer
<1>15. Foreseen(w, k)'
  <2>1. /\ plan'[w][k].do = IF alerts[k][i].status = "RESOLVED" THEN "keep" ELSE "update"
        /\ plan'[w][k].i = i
    BY <1>5, <1>10 DEF Act, StatusOf
  <2>2. Chosen(x, k, i)'
    BY <1>1, <1>6 DEF tables, Chosen, Lifecycle!Known, Lifecycle!Active
  <2>3. QED
    BY <1>1, <1>3, <1>9, <2>1, <2>2 DEF Foreseen, tables, Chosen, Lifecycle!Known, Lifecycle!Active
<1>16. \A l \in DOMAIN plan'[w] :
         /\ lock'[KeyLock(l)] = w
         /\ Foreseen(w, l)'
         /\ \A t \in todo'[w] : l < t
  <2> SUFFICES ASSUME NEW l \in DOMAIN plan'[w]
               PROVE  /\ lock'[KeyLock(l)] = w
                      /\ Foreseen(w, l)'
                      /\ \A t \in todo'[w] : l < t
    OBVIOUS
  <2>1. CASE l = k
    BY <1>2, <1>6, <1>10, <1>14, <1>15, <2>1
  <2>2. CASE l # k
    <3>1. l \in DOMAIN plan[w] /\ plan'[w][l] = plan[w][l] /\ l \in Incident
      BY <1>2, <1>10, <2>2
    <3>2. lock[KeyLock(l)] = w /\ Foreseen(w, l) /\ \A t \in todo[w] : l < t
      BY <1>1, <1>2, <3>1 DEF RecorderInv
    <3>3. plan[w][l].do # "insert" => lock'[RowLock(<<l, plan[w][l].i>>)] = w
      BY <1>14, <3>1, <3>2 DEF Foreseen, Alert
    <3>4. Foreseen(w, l)'
      BY <1>1, <3>1, <3>2, <3>3, ForeseenStays
    <3>5. QED
      BY <1>10, <1>14, <3>1, <3>2, <3>4
  <2>3. QED
    BY <2>1, <2>2
<1>17. /\ job[w] \in Runs
       /\ \A l \in DOMAIN job[w].findings : job[w].findings[l].seen <= now
       /\ todo[w] \subseteq DOMAIN job[w].findings
       /\ DOMAIN plan[w] = DOMAIN job[w].findings \ todo[w]
  BY <1>1, <1>2 DEF RecorderInv
<1>18. \A l \in Incident : lock'[KeyLock(l)] = w => l \in DOMAIN plan'[w]
  BY <1>1, <1>2, <1>5, <1>10, <1>14 DEF RecorderInv
<1>19. \A a \in Alert : lock'[RowLock(a)] = w => a[1] \in DOMAIN plan'[w]
  BY <1>2, <1>10, <1>14 DEF RecorderInv
<1>20. lock'[RetentionLock] # w
  BY <1>2, <1>14 DEF RecorderInv
<1>21. RecorderInv(w)'
  BY <1>1, <1>6, <1>10, <1>11, <1>16, <1>17, <1>18, <1>19, <1>20 DEF RecorderInv
<1>22. QED
  BY <1>1, <1>13, <1>21, UnchangedTables

\* The commit of a recorder writes under the locks of its incidents.
LEMMA CommitRunStep ==
  ASSUME IInv, NEW w \in Recorder, CommitRun(w)
  PROVE  /\ Alone(w) /\ TablesLeave(w) /\ RecorderInv(w)'
         /\ [Lifecycle!Next]_(Lifecycle!vars)
<1>1. w \in Process /\ End(w) /\ pc[w] = "visit"
  BY DEF Process, CommitRun
<1>2. Alone(w) /\ RecorderInv(w)'
  BY <1>1, EndRests, RestKeeps
<1>3. PICK attempt \in Attempt, K \in SUBSET Incident :
        \E findings \in [K -> Lifecycle!Finding] :
          /\ job[w].x \in Execution
          /\ K = DOMAIN plan[w]
          /\ Lifecycle!RecordAlerts(job[w].x, attempt, findings)
  BY CommitRecords
<1>4. PICK findings \in [K -> Lifecycle!Finding] :
        Lifecycle!RecordAlerts(job[w].x, attempt, findings)
  BY <1>3
<1>5. PICK x \in Execution : x = job[w].x
  BY <1>3
<1>6. Lifecycle!RecordAlerts(x, attempt, findings) /\ DOMAIN findings = K
  BY <1>4, <1>5
<1>7. Lifecycle!Next
  BY <1>5, <1>6 DEF Lifecycle!Next
<1>8. \A k \in K : lock[KeyLock(k)] = w
  BY <1>1, <1>3 DEF IInv, ProcessesInv, RecorderInv
<1>9. TablesLeave(w)
  <2>1. now' = now
    BY <1>6 DEF Lifecycle!RecordAlerts
  <2>2. ASSUME NEW k \in Incident, NEW i \in Instance
        PROVE  \/ alerts'[k][i] = alerts[k][i]
               \/ /\ lock[KeyLock(k)] = w
                  /\ alerts[k][i].status # "RESOLVED"
                  /\ alerts'[k][i].status = "RESOLVED" => alerts'[k][i].resolved = now
    <3>1. alerts'[k][i] = IF k \in K /\ i = Lifecycle!Target(x, k)
                          THEN Lifecycle!Recorded(alerts[k][i], findings[k], <<x, attempt>>,
                                                  Lifecycle!Weight(x, k))
                          ELSE alerts[k][i]
      BY <1>6 DEF Lifecycle!RecordAlerts
    <3>2. alerts[k][i].status \in {"OPEN", "ACKNOWLEDGED", "RESOLVED", "UNUSED", "PURGED"}
      BY Cells DEF IInv
    <3>3. QED
      BY <1>8, <3>1, <3>2 DEF Lifecycle!Recorded, Lifecycle!Opened, Lifecycle!Updated
  <2>3. ASSUME NEW y \in Execution, NEW k \in Incident
        PROVE  receipts'[y][k] = receipts[y][k] \/ lock[KeyLock(k)] = w
    BY <1>6, <1>8 DEF Lifecycle!RecordAlerts, IInv, TablesInv, Lifecycle!TypeOK
  <2>4. QED
    BY <2>1, <2>2, <2>3 DEF TablesLeave
<1>10. QED
  BY <1>2, <1>7, <1>9

\* A transaction that is rolled back leaves the tables alone.
LEMMA AbortStep ==
  ASSUME IInv, NEW w \in Process, Abort(w)
  PROVE  Alone(w) /\ TablesLeave(w) /\ Rest(w)' /\ UNCHANGED Lifecycle!vars
BY EndRests, UnchangedTables DEF Abort

-----------------------------------------------------------------------------
\* An operator's steps.
LEMMA StartChangeStep ==
  ASSUME IInv, NEW w \in Operator, NEW a \in Alert,
         NEW status \in {"ACKNOWLEDGED", "RESOLVED"}, StartChange(w, a, status)
  PROVE  Alone(w) /\ TablesLeave(w) /\ OperatorInv(w)' /\ UNCHANGED Lifecycle!vars
<1>1. w \in Process
  BY DEF Process
<1>2. /\ pc' = [pc EXCEPT ![w] = "key"]
      /\ job' = [job EXCEPT ![w] = status]
      /\ target' = [target EXCEPT ![w] = a]
      /\ todo' = todo /\ plan' = plan /\ lock' = lock
      /\ pc[w] = "idle"
  BY DEF StartChange, Goto
<1>3. pc'[w] = "key" /\ job'[w] = status /\ target'[w] = a
  BY <1>1, <1>2 DEF IInv, Typed
<1>4. \A l \in Lock : lock[l] # w
  BY <1>1, <1>2, IdleHoldsNothing
<1>5. Alone(w)
  BY <1>1, <1>2, <1>3 DEF Alone, IInv, Typed, Label
<1>6. OperatorInv(w)'
  BY <1>2, <1>3, <1>4 DEF OperatorInv
<1>7. QED
  BY <1>5, <1>6, UnchangedTables DEF StartChange

\* The lock of an operator's incident.
LEMMA LockKeyStep ==
  ASSUME IInv, NEW w \in Operator, LockKey(w)
  PROVE  Alone(w) /\ TablesLeave(w) /\ OperatorInv(w)' /\ UNCHANGED Lifecycle!vars
<1>1. /\ pc[w] = "key" /\ Take(w) /\ pc' = [pc EXCEPT ![w] = "row"]
      /\ UNCHANGED <<tables, job, todo, target, plan>>
      /\ w \in Process
  BY DEF LockKey, Goto, Process
<1>2. OperatorInv(w)
  BY DEF IInv, ProcessesInv
<1>3. target[w] \in Alert /\ target[w][1] \in Incident
  BY <1>1, <1>2 DEF OperatorInv, Alert
<1>4. Wants(w) = {KeyLock(target[w][1])} /\ KeyLock(target[w][1]) \in Lock
  BY <1>1, <1>3, LocksDiffer DEF Wants
<1>5. /\ lock' \in [Lock -> Process \cup {None}]
      /\ lock[KeyLock(target[w][1])] \in {None, w}
      /\ lock'[KeyLock(target[w][1])] = w
      /\ \A m \in Lock : m # KeyLock(target[w][1]) => lock'[m] = lock[m]
  BY <1>1, <1>4, TakeLock
<1>6. pc' \in [Process -> Label] /\ pc'[w] = "row" /\ \A v \in Process : v # w => pc'[v] = pc[v]
  BY <1>1 DEF IInv, Typed, Label
<1>7. Alone(w)
  BY <1>1, <1>5, <1>6 DEF Alone, IInv, Typed
<1>8. OperatorInv(w)'
  BY <1>1, <1>2, <1>4, <1>5, <1>6 DEF OperatorInv
<1>9. QED
  BY <1>1, <1>7, <1>8, UnchangedTables

\* change_status writes under its incident's lock.
LEMMA ChangeRowStep ==
  ASSUME IInv, NEW w \in Operator, ChangeRow(w)
  PROVE  /\ Alone(w) /\ TablesLeave(w) /\ OperatorInv(w)'
         /\ [Lifecycle!Next]_(Lifecycle!vars)
<1>1. w \in Process /\ End(w) /\ pc[w] = "row"
  BY DEF Process, ChangeRow
<1>2. Alone(w) /\ OperatorInv(w)'
  BY <1>1, EndRests, RestKeeps
<1>3. OperatorInv(w)
  BY DEF IInv, ProcessesInv
<1>4. PICK k \in Incident, i \in Instance : target[w] = <<k, i>>
  BY <1>1, <1>3 DEF OperatorInv, Alert
<1>5. PICK status \in {"ACKNOWLEDGED", "RESOLVED"} : status = job[w]
  BY <1>1, <1>3 DEF OperatorInv
<1>6. Lifecycle!ChangeStatus(k, i, status) /\ lock[KeyLock(k)] = w
  BY <1>1, <1>3, <1>4, <1>5 DEF ChangeRow, OperatorInv
<1>7. TablesLeave(w)
  <2>1. /\ alerts' = [alerts EXCEPT ![k][i] = Lifecycle!Moved(alerts[k][i], status)]
        /\ receipts' = receipts /\ now' = now
        /\ alerts[k][i].status # "RESOLVED"
    BY <1>6 DEF Lifecycle!ChangeStatus, Lifecycle!ValidTransition
  <2>2. ASSUME NEW l \in Incident, NEW j \in Instance
        PROVE  \/ alerts'[l][j] = alerts[l][j]
               \/ /\ lock[KeyLock(l)] = w
                  /\ alerts[l][j].status # "RESOLVED"
                  /\ alerts'[l][j].status = "RESOLVED" => alerts'[l][j].resolved = now
    <3>1. CASE l = k /\ j = i
      <4>1. alerts'[l][j] = Lifecycle!Moved(alerts[k][i], status)
        BY <2>1, <3>1 DEF IInv, TablesInv, Lifecycle!TypeOK
      <4>2. QED
        BY <1>6, <2>1, <3>1, <4>1 DEF Lifecycle!Moved
    <3>2. CASE ~(l = k /\ j = i)
      BY <2>1, <3>2 DEF IInv, TablesInv, Lifecycle!TypeOK
    <3>3. QED
      BY <3>1, <3>2
  <2>3. QED
    BY <2>1, <2>2 DEF TablesLeave
<1>8. QED
  BY <1>2, <1>6, <1>7 DEF Lifecycle!Next

-----------------------------------------------------------------------------
\* The janitor's steps.
LEMMA StartRetentionStep ==
  ASSUME IInv, NEW w \in Janitor, StartRetention(w)
  PROVE  Alone(w) /\ TablesLeave(w) /\ JanitorInv(w)' /\ UNCHANGED Lifecycle!vars
<1>1. w \in Process
  BY DEF Process
<1>2. /\ pc' = [pc EXCEPT ![w] = "retention"]
      /\ job' = [job EXCEPT ![w] = now]
      /\ target' = target /\ todo' = todo /\ plan' = plan /\ lock' = lock
      /\ pc[w] = "idle" /\ now' = now
  BY DEF StartRetention, Goto, tables
<1>3. pc'[w] = "retention" /\ job'[w] = now
  BY <1>1, <1>2 DEF IInv, Typed
<1>4. \A l \in Lock : lock[l] # w
  BY <1>1, <1>2, IdleHoldsNothing
<1>5. Alone(w)
  BY <1>1, <1>2, <1>3 DEF Alone, IInv, Typed, Label
<1>6. now \in 0..now
  BY Cells DEF IInv
<1>7. JanitorInv(w)'
  BY <1>2, <1>3, <1>4, <1>6, LocksDiffer DEF JanitorInv
<1>8. QED
  BY <1>5, <1>7, UnchangedTables DEF StartRetention

\* The janitor goes on to one of the rows it has left, or to their deletion.
LEMMA SweepOn ==
  ASSUME IInv, NEW w \in Janitor, NEW rows, SweepNext(w, rows)
  PROVE  /\ pc' \in [Process -> Label]
         /\ \A v \in Process : v # w => pc'[v] = pc[v] /\ target'[v] = target[v]
         /\ DOMAIN target' = Process
         /\ pc'[w] \in {"sweep", "delete"}
         /\ pc'[w] = "sweep" => target'[w] \in rows
         /\ pc'[w] = "delete" => rows = {}
<1>1. w \in Process
  BY DEF Process
<1>2. CASE rows = {}
  BY <1>1, <1>2 DEF SweepNext, Goto, IInv, Typed, Label
<1>3. CASE rows # {}
  BY <1>1, <1>3 DEF SweepNext, Goto, IInv, Typed, Label
<1>4. QED
  BY <1>2, <1>3

\* The retention lock, and the rows that are expired under it.
LEMMA LockRetentionStep ==
  ASSUME IInv, NEW w \in Janitor, LockRetention(w)
  PROVE  Alone(w) /\ TablesLeave(w) /\ JanitorInv(w)' /\ UNCHANGED Lifecycle!vars
<1>1. /\ pc[w] = "retention" /\ Take(w)
      /\ todo' = [todo EXCEPT ![w] = Expired(job[w])]
      /\ SweepNext(w, Expired(job[w]))
      /\ UNCHANGED tables /\ job' = job /\ plan' = plan
      /\ w \in Process
  BY DEF LockRetention, Process
<1>2. JanitorInv(w)
  BY DEF IInv, ProcessesInv
<1>3. Wants(w) = {RetentionLock} /\ RetentionLock \in Lock
  BY <1>1, LocksDiffer DEF Wants
<1>4. /\ lock' \in [Lock -> Process \cup {None}]
      /\ lock[RetentionLock] \in {None, w}
      /\ lock'[RetentionLock] = w
      /\ \A m \in Lock : m # RetentionLock => lock'[m] = lock[m]
  BY <1>1, <1>3, TakeLock
<1>5. PICK rows : rows = Expired(job[w])
  OBVIOUS
<1>6. /\ pc' \in [Process -> Label]
      /\ \A v \in Process : v # w => pc'[v] = pc[v] /\ target'[v] = target[v]
      /\ DOMAIN target' = Process
      /\ pc'[w] \in {"sweep", "delete"}
      /\ pc'[w] = "sweep" => target'[w] \in rows
      /\ pc'[w] = "delete" => rows = {}
  BY <1>1, <1>5, SweepOn
<1>7. /\ todo'[w] = rows /\ DOMAIN todo' = Process
      /\ \A v \in Process : v # w => todo'[v] = todo[v]
  BY <1>1, <1>5 DEF IInv, Typed
<1>8. Alone(w)
  BY <1>1, <1>4, <1>6, <1>7 DEF Alone, IInv, Typed
<1>9. Expired(job[w])' = rows /\ job'[w] \in 0..now'
  BY <1>1, <1>2, <1>5 DEF Expired, Lifecycle!Expired, tables, JanitorInv
<1>10. /\ \A k \in Incident : lock'[KeyLock(k)] # w
       /\ \A a \in Alert : lock'[RowLock(a)] # w
  BY <1>1, <1>2, <1>4, LocksDiffer DEF JanitorInv
<1>11. todo'[w] \cup {a \in Alert : lock'[RowLock(a)] = w} = Expired(job[w])'
  BY <1>7, <1>9, <1>10
<1>12. JanitorInv(w)'
  BY <1>4, <1>6, <1>7, <1>9, <1>10, <1>11 DEF JanitorInv
<1>13. QED
  BY <1>1, <1>8, <1>12, UnchangedTables

\* The lock of one expired row.
LEMMA SweepStep ==
  ASSUME IInv, NEW w \in Janitor, Sweep(w)
  PROVE  Alone(w) /\ TablesLeave(w) /\ JanitorInv(w)' /\ UNCHANGED Lifecycle!vars
<1>1. /\ pc[w] = "sweep" /\ Take(w)
      /\ todo' = [todo EXCEPT ![w] = @ \ {target[w]}]
      /\ SweepNext(w, todo[w] \ {target[w]})
      /\ UNCHANGED tables /\ job' = job /\ plan' = plan
      /\ w \in Process
  BY DEF Sweep, Process
<1>2. JanitorInv(w)
  BY DEF IInv, ProcessesInv
<1>3. /\ lock[RetentionLock] = w
      /\ todo[w] \cup {a \in Alert : lock[RowLock(a)] = w} = Expired(job[w])
      /\ target[w] \in todo[w]
  BY <1>1, <1>2 DEF JanitorInv
<1>4. target[w] \in Alert
  BY <1>3 DEF Expired
<1>5. PICK a \in Alert : a = target[w]
  BY <1>4
<1>6. Wants(w) = {RowLock(a)} /\ RowLock(a) \in Lock
  BY <1>1, <1>5, LocksDiffer DEF Wants
<1>7. /\ lock' \in [Lock -> Process \cup {None}]
      /\ lock[RowLock(a)] \in {None, w}
      /\ lock'[RowLock(a)] = w
      /\ \A m \in Lock : m # RowLock(a) => lock'[m] = lock[m]
  BY <1>1, <1>6, TakeLock
<1>8. PICK rows : rows = todo[w] \ {a}
  OBVIOUS
<1>9. /\ pc' \in [Process -> Label]
      /\ \A v \in Process : v # w => pc'[v] = pc[v] /\ target'[v] = target[v]
      /\ DOMAIN target' = Process
      /\ pc'[w] \in {"sweep", "delete"}
      /\ pc'[w] = "sweep" => target'[w] \in rows
      /\ pc'[w] = "delete" => rows = {}
  BY <1>1, <1>5, <1>8, SweepOn
<1>10. /\ todo'[w] = rows /\ DOMAIN todo' = Process
       /\ \A v \in Process : v # w => todo'[v] = todo[v]
  BY <1>1, <1>5, <1>8 DEF IInv, Typed
<1>11. Alone(w)
  BY <1>1, <1>7, <1>9, <1>10 DEF Alone, IInv, Typed
<1>12. Expired(job[w])' = Expired(job[w]) /\ job'[w] \in 0..now'
  BY <1>1, <1>2 DEF Expired, Lifecycle!Expired, tables, JanitorInv
<1>13. /\ \A k \in Incident : lock'[KeyLock(k)] # w
       /\ lock'[RetentionLock] = w
       /\ \A b \in Alert : lock'[RowLock(b)] = w <=> lock[RowLock(b)] = w \/ b = a
  BY <1>2, <1>3, <1>7, LocksDiffer DEF JanitorInv
<1>14. todo'[w] \cup {b \in Alert : lock'[RowLock(b)] = w} = Expired(job[w])'
  BY <1>3, <1>5, <1>8, <1>10, <1>12, <1>13
<1>15. JanitorInv(w)'
  BY <1>9, <1>10, <1>12, <1>13, <1>14 DEF JanitorInv
<1>16. QED
  BY <1>1, <1>11, <1>15, UnchangedTables

\* apply_retention purges the rows it holds.
LEMMA DeleteStep ==
  ASSUME IInv, NEW w \in Janitor, Delete(w)
  PROVE  /\ Alone(w) /\ TablesLeave(w) /\ JanitorInv(w)'
         /\ [Lifecycle!Next]_(Lifecycle!vars)
<1>1. w \in Process /\ End(w) /\ pc[w] = "delete"
  BY DEF Process, Delete
<1>2. Alone(w) /\ JanitorInv(w)'
  BY <1>1, EndRests, RestKeeps
<1>3. JanitorInv(w)
  BY DEF IInv, ProcessesInv
<1>4. PICK at \in 0..now : at = job[w]
  BY <1>1, <1>3 DEF JanitorInv
<1>5. Lifecycle!PurgeAlerts(at)
  BY <1>4 DEF Delete
<1>6. /\ lock[RetentionLock] = w
      /\ {a \in Alert : lock[RowLock(a)] = w} = Expired(at)
  BY <1>1, <1>3, <1>4 DEF JanitorInv
<1>7. \A k \in Incident, i \in Instance :
        Lifecycle!Expired(k, i, at) => lock[RowLock(<<k, i>>)] = w
  BY <1>6 DEF Expired, Alert
<1>8. TablesLeave(w)
  <2>1. now' = now
    BY <1>5 DEF Lifecycle!PurgeAlerts
  <2>2. \A k \in Incident, i \in Instance :
          alerts'[k][i] = IF Lifecycle!Expired(k, i, at) THEN Lifecycle!PurgedRow ELSE alerts[k][i]
    BY <1>5 DEF Lifecycle!PurgeAlerts
  <2>3. \A k \in Incident, i \in Instance : Lifecycle!Expired(k, i, at) =>
          alerts[k][i].status = "RESOLVED" /\ alerts'[k][i].status = "PURGED"
    BY <2>2 DEF Lifecycle!Expired, Lifecycle!PurgedRow, Lifecycle!NoRow
  <2>4. ASSUME NEW x \in Execution, NEW k \in Incident, receipts'[x][k] # receipts[x][k]
        PROVE  /\ Lifecycle!Known(x, k)
               /\ ~Lifecycle!Known(x, k)'
               /\ lock[RowLock(<<k, receipts[x][k].instance>>)] = w
               /\ alerts[k][receipts[x][k].instance].status = "RESOLVED"
               /\ alerts'[k][receipts[x][k].instance].status = "PURGED"
    <3>1. /\ Lifecycle!Known(x, k)
          /\ Lifecycle!Expired(k, receipts[x][k].instance, at)
          /\ receipts'[x][k] = Lifecycle!NoReceipt
      BY <1>5, <2>4 DEF Lifecycle!PurgeAlerts
    <3>2. receipts[x][k].instance \in Instance
      BY <3>1, Cells DEF IInv
    <3>3. ~Lifecycle!Known(x, k)'
      BY <3>1 DEF Lifecycle!Known, Lifecycle!NoReceipt
    <3>4. QED
      BY <1>7, <2>3, <3>1, <3>2, <3>3
  <2>5. QED
    BY <1>6, <1>7, <2>1, <2>2, <2>3, <2>4 DEF TablesLeave
<1>9. QED
  BY <1>2, <1>5, <1>8 DEF Lifecycle!Next

-----------------------------------------------------------------------------
\* A transaction's step is one of AlertLifecycle or leaves the tables alone, and
\* every transaction keeps its part of the invariant.
LEMMA AloneKeeps ==
  ASSUME IInv, NEW w \in Process, Alone(w), TablesLeave(w), [Lifecycle!Next]_(Lifecycle!vars),
         w \in Recorder => RecorderInv(w)',
         w \in Operator => OperatorInv(w)',
         w \in Janitor => JanitorInv(w)'
  PROVE  IInv'
<1>1. TablesInv'
  BY Tables DEF IInv
<1>2. Typed'
  BY AloneTyped
<1>3. \A v \in Recorder : RecorderInv(v)'
  BY OtherRecorders
<1>4. \A v \in Operator : OperatorInv(v)'
  BY OtherOperators
<1>5. \A v \in Janitor : JanitorInv(v)'
  BY <1>1, OtherJanitors
<1>6. QED
  BY <1>1, <1>2, <1>3, <1>4, <1>5 DEF IInv, ProcessesInv

\* Where a transaction stands tells who runs it.
LEMMA WhoRuns ==
  ASSUME IInv, NEW w \in Process
  PROVE  /\ pc[w] = "visit" => w \in Recorder
         /\ pc[w] = "key" => w \in Operator
         /\ pc[w] \in {"retention", "sweep", "delete"} => w \in Janitor
BY DEF IInv, ProcessesInv, Process, RecorderInv, OperatorInv, JanitorInv

\* Time passes.
LEMMA TickStep ==
  ASSUME IInv, Tick
  PROVE  IInv' /\ Lifecycle!Next
<1>1. /\ Lifecycle!Next
      /\ now' = now + 1 /\ UNCHANGED transactions
      /\ UNCHANGED <<alerts, receipts, history, ledger>>
  BY DEF Tick, Lifecycle!Tick, Lifecycle!Next
<1>2. TablesInv'
  BY <1>1, Tables DEF IInv
<1>3. Typed'
  BY <1>1 DEF IInv, Typed, transactions
<1>4. now \in Nat
  BY Cells DEF IInv
<1>5. ASSUME NEW w \in Recorder PROVE RecorderInv(w)'
  <2>1. RecorderInv(w)
    BY DEF IInv, ProcessesInv
  <2>2. /\ pc' = pc /\ job' = job /\ todo' = todo /\ target' = target
        /\ plan' = plan /\ lock' = lock /\ alerts' = alerts /\ receipts' = receipts
    BY <1>1 DEF transactions
  <2>3. ASSUME NEW k PROVE Foreseen(w, k)' <=> Foreseen(w, k)
    BY <2>2 DEF Foreseen, Chosen, Lifecycle!Known, Lifecycle!Active, Lifecycle!Unused
  <2>4. StatusOf(target[w])' = StatusOf(target[w])
    BY <2>2 DEF StatusOf
  <2>5. Chosen(job[w].x, target[w][1], target[w][2])'
          <=> Chosen(job[w].x, target[w][1], target[w][2])
    BY <2>2 DEF Chosen, Lifecycle!Known, Lifecycle!Active
  <2>6. pc[w] # "idle" => \A k \in DOMAIN job[w].findings : job[w].findings[k].seen <= now'
    <3> SUFFICES ASSUME pc[w] # "idle", NEW k \in DOMAIN job[w].findings
                 PROVE  job[w].findings[k].seen <= now'
      OBVIOUS
    <3>1. job[w] \in Runs /\ job[w].findings[k].seen <= now
      BY <2>1 DEF RecorderInv
    <3>2. job[w].findings[k].seen \in Nat
      BY <3>1, RunsAssumption
    <3>3. QED
      BY <1>1, <1>4, <3>1, <3>2
  <2>7. QED
    BY <2>1, <2>2, <2>3, <2>4, <2>5, <2>6 DEF RecorderInv
<1>6. ASSUME NEW w \in Operator PROVE OperatorInv(w)'
  <2>1. OperatorInv(w)
    BY DEF IInv, ProcessesInv
  <2>2. QED
    BY <1>1, <2>1 DEF OperatorInv, transactions
<1>7. ASSUME NEW w \in Janitor PROVE JanitorInv(w)'
  <2>1. JanitorInv(w)
    BY DEF IInv, ProcessesInv
  <2>2. /\ pc' = pc /\ job' = job /\ todo' = todo /\ target' = target
        /\ lock' = lock /\ alerts' = alerts
    BY <1>1 DEF transactions
  <2>3. Expired(job[w])' = Expired(job[w])
    BY <2>2 DEF Expired, Lifecycle!Expired
  <2>4. pc[w] # "idle" => job[w] \in 0..now'
    BY <1>1, <1>4, <2>1 DEF JanitorInv
  <2>5. QED
    BY <2>1, <2>2, <2>3, <2>4 DEF JanitorInv
<1>8. QED
  BY <1>1, <1>2, <1>3, <1>5, <1>6, <1>7 DEF IInv, ProcessesInv

\* Every step of a transaction.
LEMMA ProceedKeeps ==
  ASSUME IInv, NEW w \in Process, Proceed(w) \/ Fail(w)
  PROVE  IInv' /\ [Lifecycle!Next]_(Lifecycle!vars)
<1>1. ASSUME Abort(w) PROVE IInv' /\ UNCHANGED Lifecycle!vars
  BY <1>1, AbortStep, RestKeeps, AloneKeeps
<1>2. CASE Fail(w) \/ Exhausted(w) \/ MissRow(w) \/ RefuseChange(w)
  BY <1>1, <1>2 DEF Fail, Exhausted, MissRow, RefuseChange
<1>3. CASE Visit(w)
  <2>1. w \in Recorder
    BY <1>3, WhoRuns DEF Visit
  <2>2. Alone(w) /\ TablesLeave(w) /\ RecorderInv(w)' /\ UNCHANGED Lifecycle!vars
    BY <1>3, <2>1, VisitStep
  <2>3. QED
    BY <2>1, <2>2, AloneKeeps, ProcessAssumption
<1>4. CASE LockRow(w)
  <2>1. w \in Recorder
    BY <1>4 DEF LockRow
  <2>2. Alone(w) /\ TablesLeave(w) /\ RecorderInv(w)' /\ UNCHANGED Lifecycle!vars
    BY <1>4, <2>1, LockRowStep
  <2>3. QED
    BY <2>1, <2>2, AloneKeeps, ProcessAssumption
<1>5. CASE CommitRun(w)
  <2>1. w \in Recorder
    BY <1>5, WhoRuns DEF CommitRun
  <2>2. Alone(w) /\ TablesLeave(w) /\ RecorderInv(w)' /\ [Lifecycle!Next]_(Lifecycle!vars)
    BY <1>5, <2>1, CommitRunStep
  <2>3. QED
    BY <2>1, <2>2, AloneKeeps, ProcessAssumption
<1>6. CASE LockKey(w)
  <2>1. w \in Operator
    BY <1>6, WhoRuns DEF LockKey
  <2>2. Alone(w) /\ TablesLeave(w) /\ OperatorInv(w)' /\ UNCHANGED Lifecycle!vars
    BY <1>6, <2>1, LockKeyStep
  <2>3. QED
    BY <2>1, <2>2, AloneKeeps, ProcessAssumption
<1>7. CASE ChangeRow(w)
  <2>1. w \in Operator
    BY <1>7 DEF ChangeRow
  <2>2. Alone(w) /\ TablesLeave(w) /\ OperatorInv(w)' /\ [Lifecycle!Next]_(Lifecycle!vars)
    BY <1>7, <2>1, ChangeRowStep
  <2>3. QED
    BY <2>1, <2>2, AloneKeeps, ProcessAssumption
<1>8. CASE LockRetention(w)
  <2>1. w \in Janitor
    BY <1>8, WhoRuns DEF LockRetention
  <2>2. Alone(w) /\ TablesLeave(w) /\ JanitorInv(w)' /\ UNCHANGED Lifecycle!vars
    BY <1>8, <2>1, LockRetentionStep
  <2>3. QED
    BY <2>1, <2>2, AloneKeeps, ProcessAssumption
<1>9. CASE Sweep(w)
  <2>1. w \in Janitor
    BY <1>9, WhoRuns DEF Sweep
  <2>2. Alone(w) /\ TablesLeave(w) /\ JanitorInv(w)' /\ UNCHANGED Lifecycle!vars
    BY <1>9, <2>1, SweepStep
  <2>3. QED
    BY <2>1, <2>2, AloneKeeps, ProcessAssumption
<1>10. CASE Delete(w)
  <2>1. w \in Janitor
    BY <1>10, WhoRuns DEF Delete
  <2>2. Alone(w) /\ TablesLeave(w) /\ JanitorInv(w)' /\ [Lifecycle!Next]_(Lifecycle!vars)
    BY <1>10, <2>1, DeleteStep
  <2>3. QED
    BY <2>1, <2>2, AloneKeeps, ProcessAssumption
<1>11. QED
  BY <1>2, <1>3, <1>4, <1>5, <1>6, <1>7, <1>8, <1>9, <1>10 DEF Proceed

\* Every step keeps the invariant and is one of AlertLifecycle or changes no table.
LEMMA NextKeeps ==
  ASSUME IInv, [Next]_vars
  PROVE  IInv' /\ [Lifecycle!Next]_(Lifecycle!vars)
<1>1. ASSUME NEW w \in Recorder, NEW run \in Runs, StartRun(w, run)
      PROVE  IInv' /\ UNCHANGED Lifecycle!vars
  <2>1. Alone(w) /\ TablesLeave(w) /\ RecorderInv(w)' /\ UNCHANGED Lifecycle!vars
    BY <1>1, StartRunStep
  <2>2. QED
    BY <2>1, AloneKeeps, ProcessAssumption DEF Process
<1>2. ASSUME NEW w \in Operator, NEW a \in Alert,
             NEW status \in {"ACKNOWLEDGED", "RESOLVED"}, StartChange(w, a, status)
      PROVE  IInv' /\ UNCHANGED Lifecycle!vars
  <2>1. Alone(w) /\ TablesLeave(w) /\ OperatorInv(w)' /\ UNCHANGED Lifecycle!vars
    BY <1>2, StartChangeStep
  <2>2. QED
    BY <2>1, AloneKeeps, ProcessAssumption DEF Process
<1>3. ASSUME NEW w \in Janitor, StartRetention(w)
      PROVE  IInv' /\ UNCHANGED Lifecycle!vars
  <2>1. Alone(w) /\ TablesLeave(w) /\ JanitorInv(w)' /\ UNCHANGED Lifecycle!vars
    BY <1>3, StartRetentionStep
  <2>2. QED
    BY <2>1, AloneKeeps, ProcessAssumption DEF Process
<1>4. ASSUME NEW S \in SUBSET Process, BreakDeadlock(S)
      PROVE  IInv' /\ UNCHANGED Lifecycle!vars
  <2>1. PICK w \in Process : Abort(w)
    BY <1>4 DEF BreakDeadlock
  <2>2. QED
    BY <2>1, AbortStep, RestKeeps, AloneKeeps
<1>5. CASE UNCHANGED vars
  <2>1. /\ UNCHANGED Lifecycle!vars
        /\ pc' = pc /\ job' = job /\ todo' = todo /\ target' = target
        /\ plan' = plan /\ lock' = lock /\ alerts' = alerts /\ receipts' = receipts
        /\ history' = history /\ now' = now /\ ledger' = ledger
    BY <1>5 DEF vars, tables, transactions, Lifecycle!vars
  <2>2. TablesInv'
    BY <2>1, Tables DEF IInv
  <2>3. Typed'
    BY <2>1 DEF IInv, Typed
  <2>4. ProcessesInv'
    BY <2>1 DEF IInv, ProcessesInv, RecorderInv, OperatorInv, JanitorInv, Foreseen,
       Chosen, Lifecycle!Known, Lifecycle!Active, Lifecycle!Unused, StatusOf, Expired,
       Lifecycle!Expired
  <2>5. QED
    BY <2>1, <2>2, <2>3, <2>4 DEF IInv
<1>6. QED
  BY <1>1, <1>2, <1>3, <1>4, <1>5, ProceedKeeps, TickStep DEF Next

\* No transaction runs at first.
LEMMA InitIInv == Init => IInv
<1> SUFFICES ASSUME Init PROVE IInv
  OBVIOUS
<1>1. TablesInv
  BY Tables DEF Init
<1>2. /\ pc = [w \in Process |-> "idle"]
      /\ plan = [w \in Process |-> << >>]
      /\ lock = [l \in Lock |-> None]
  BY DEF Init
<1>3. Typed
  BY <1>2 DEF Init, Typed, Label
<1>4. \A w \in Process : pc[w] = "idle" /\ DOMAIN plan[w] = {} /\ \A l \in Lock : lock[l] # w
  BY <1>2, NoneAssumption
<1>5. \A w \in Process :
        /\ \A k \in Incident : lock[KeyLock(k)] # w
        /\ \A a \in Alert : lock[RowLock(a)] # w
        /\ lock[RetentionLock] # w
  BY <1>4, LocksDiffer
<1>6. ProcessesInv
  BY <1>4, <1>5 DEF ProcessesInv, RecorderInv, OperatorInv, JanitorInv, Process
<1>7. QED
  BY <1>1, <1>3, <1>6 DEF IInv

\* The invariant holds throughout.
LEMMA SpecIInv == Spec => []IInv
<1>1. IInv /\ [Next]_vars => IInv'
  BY NextKeeps
<1>2. QED
  BY <1>1, InitIInv, PTL DEF Spec

\* Every transaction is atomic, whatever the others do: a commit is one step of
\* AlertLifecycle, and no other step changes the tables.
THEOREM SpecRefinement == Spec => Refinement
<1>1. Init => Lifecycle!Init
  BY DEF Init
<1>2. IInv /\ [Next]_vars => [Lifecycle!Next]_(Lifecycle!vars)
  BY NextKeeps
<1>3. QED
  BY <1>1, <1>2, SpecIInv, PTL DEF Spec, Refinement, Lifecycle!Spec

\* What record_alert read for one incident is still true when the transaction commits
\* after it visited the others.
THEOREM SpecPlanStaysCurrent == Spec => []PlanStaysCurrent
<1>1. IInv => PlanStaysCurrent
  <2> SUFFICES ASSUME IInv, NEW w \in Recorder, NEW k \in DOMAIN plan[w]
               PROVE  CASE plan[w][k].do = "insert" ->
                             ~Lifecycle!Known(job[w].x, k) /\ Lifecycle!Active(k) = {}
                        [] plan[w][k].do = "update" -> plan[w][k].i \in Lifecycle!Active(k)
                        [] OTHER -> StatusOf(<<k, plan[w][k].i>>) = "RESOLVED"
    BY DEF PlanStaysCurrent
  <2>1. pc[w] # "idle"
    BY DEF IInv, ProcessesInv, RecorderInv
  <2>2. job[w].x \in Execution /\ k \in Incident /\ Foreseen(w, k)
    BY <2>1, RecorderAtWork DEF RecorderInv
  <2>3. PICK x \in Execution : x = job[w].x
    BY <2>2
  <2>4. TablesInv
    BY DEF IInv
  <2>5. /\ plan[w][k].do \in {"insert", "update", "keep"}
        /\ plan[w][k].do = "insert" => ~Lifecycle!Known(x, k) /\ Lifecycle!Active(k) = {}
        /\ plan[w][k].do = "update" => plan[w][k].i \in Lifecycle!Active(k)
        /\ plan[w][k].do = "keep" => alerts[k][plan[w][k].i].status = "RESOLVED"
    BY <2>2, <2>3, <2>4, PlanIsTarget
  <2>6. QED
    BY <2>3, <2>5 DEF StatusOf
<1>2. QED
  BY <1>1, SpecIInv, PTL

\* apply_retention deletes exactly the rows it counted and locked.
THEOREM SpecEligibilityStable == Spec => []EligibilityStable
<1>1. IInv => EligibilityStable
  BY DEF IInv, ProcessesInv, JanitorInv, EligibilityStable
<1>2. QED
  BY <1>1, SpecIInv, PTL

\* The tables keep their types, and a transaction holds locks only while it runs.
THEOREM SpecTypeOK == Spec => []TypeOK
<1>1. IInv => TypeOK
  BY DEF IInv, TablesInv, Typed, Label, TypeOK
<1>2. QED
  BY <1>1, SpecIInv, PTL

-----------------------------------------------------------------------------
\* Who waits for a row waits for the janitor: recorders lock rows under the incident's
\* lock, which the waiting transaction holds, and operators lock no row.
LEMMA RowsAreHeldByJanitors ==
  ASSUME IInv, NEW w \in Recorder \cup Operator, pc[w] = "row", NEW v \in BlockedBy(w)
  PROVE  v \in Janitor
<1>1. target[w] \in Alert /\ target[w][1] \in Incident /\ lock[KeyLock(target[w][1])] = w
  BY DEF IInv, ProcessesInv, RecorderInv, OperatorInv, Alert
<1>2. PICK a \in Alert : a = target[w]
  BY <1>1
<1>3. Wants(w) = {RowLock(a)}
  BY <1>2 DEF Wants
<1>4. lock[RowLock(a)] = v /\ v # w /\ v # None /\ v \in Process
  BY <1>3, LocksDiffer DEF BlockedBy, IInv, Typed
<1>5. CASE v \in Recorder
  <2>1. a[1] \in DOMAIN plan[v]
    BY <1>4, <1>5 DEF IInv, ProcessesInv, RecorderInv
  <2>2. pc[v] # "idle"
    BY <1>4, LocksDiffer DEF IInv, Typed
  <2>3. lock[KeyLock(a[1])] = v
    BY <1>5, <2>1, <2>2 DEF IInv, ProcessesInv, RecorderInv
  <2>4. QED
    BY <1>1, <1>2, <1>4, <2>3
<1>6. CASE v \in Operator
  <2>1. OperatorInv(v)
    BY <1>6 DEF IInv, ProcessesInv
  <2>2. RowLock(a) = KeyLock(target[v][1]) /\ target[v] \in Alert
    BY <1>4, <2>1, LocksDiffer DEF OperatorInv
  <2>3. target[v][1] \in Incident
    BY <2>2 DEF Alert
  <2>4. QED
    BY <2>2, <2>3, LocksDiffer
<1>7. QED
  BY <1>4, <1>5, <1>6 DEF Process

\* A recorder that waits for an incident waits for an operator, or for a recorder that
\* has yet to visit a later incident than this one.
LEMMA KeysAreHeldInOrder ==
  ASSUME IInv, NEW w \in Recorder, pc[w] = "visit", todo[w] # {}, NEW v \in Recorder,
         v \in BlockedBy(w), pc[v] = "visit", todo[v] # {}
  PROVE  NextKey(w) < NextKey(v)
<1>1. NextKey(w) \in todo[w] /\ Wants(w) = {KeyLock(NextKey(w))}
  BY NextIsLeast
<1>2. NextKey(w) \in Incident
  BY <1>1, RecorderAtWork
<1>3. lock[KeyLock(NextKey(w))] = v
  BY <1>1 DEF BlockedBy
<1>4. RecorderInv(v)
  BY DEF IInv, ProcessesInv
<1>5. NextKey(w) \in DOMAIN plan[v]
  BY <1>2, <1>3, <1>4 DEF RecorderInv
<1>6. NextKey(v) \in todo[v]
  BY NextIsLeast
<1>7. QED
  BY <1>4, <1>5, <1>6 DEF RecorderInv

\* Sorted visits: however many recorders and operators run, they never deadlock among
\* themselves; every ring of waiting transactions has a janitor in it.
THEOREM SpecRingsNeedRetention == Spec => []RingsNeedRetention
<1>1. IInv => RingsNeedRetention
  <2> SUFFICES ASSUME IInv, NEW S \in SUBSET Process, Deadlocked(S), S \cap Janitor = {}
               PROVE  FALSE
    BY DEF RingsNeedRetention
  <2>1. \A w \in S : BlockedBy(w) # {} /\ BlockedBy(w) \subseteq S
    BY DEF Deadlocked
  <2>2. \A v \in S : \E w \in S : v \in BlockedBy(w)
    BY DEF Deadlocked
  <2>3. \A w \in S : w \in Recorder \cup Operator /\ w \notin Janitor
    BY DEF Process
  <2>4. ASSUME NEW w \in S PROVE pc[w] # "row"
    BY <2>1, <2>3, <2>4, RowsAreHeldByJanitors
  <2>5. ASSUME NEW w \in S PROVE w \in Recorder /\ pc[w] = "visit" /\ todo[w] # {}
    <3>1. Wants(w) # {}
      BY <2>1 DEF BlockedBy
    <3>2. pc[w] \in {"visit", "key"} /\ (pc[w] = "visit" => todo[w] # {})
      BY <2>3, <2>4, <3>1, WhoRuns DEF Wants
    <3>3. pc[w] # "key"
      <4> SUFFICES ASSUME pc[w] = "key" PROVE FALSE
        OBVIOUS
      <4>1. w \in Operator
        BY WhoRuns
      <4>2. PICK u \in S : w \in BlockedBy(u)
        BY <2>2
      <4>3. PICK l \in Wants(u) : lock[l] = w
        BY <4>2 DEF BlockedBy
      <4>4. l \in Lock
        <5>1. u \in Recorder => RecorderInv(u)
          BY DEF IInv, ProcessesInv
        <5>2. u \in Operator => OperatorInv(u)
          BY DEF IInv, ProcessesInv
        <5>3. CASE pc[u] = "visit"
          <6>1. u \in Recorder /\ todo[u] # {}
            BY <5>3, <4>3, WhoRuns DEF Wants
          <6>2. NextKey(u) \in Incident /\ Wants(u) = {KeyLock(NextKey(u))}
            BY <5>3, <6>1, NextIsLeast, RecorderAtWork
          <6>3. QED
            BY <4>3, <6>2, LocksDiffer
        <5>4. CASE pc[u] = "key"
          <6>1. u \in Operator
            BY <5>4, WhoRuns
          <6>2. target[u] \in Alert
            BY <5>2, <5>4, <6>1 DEF OperatorInv
          <6>3. QED
            BY <4>3, <5>4, <6>2, LocksDiffer DEF Wants, Alert
        <5>5. QED
          BY <2>3, <2>4, <4>3, <5>3, <5>4, WhoRuns DEF Wants
      <4>5. QED
        BY <4>1, <4>3, <4>4 DEF IInv, ProcessesInv, OperatorInv
    <3>4. QED
      BY <3>2, <3>3, WhoRuns
  <2>6. \A w \in S : NextKey(w) \in Nat
    BY <2>5, NextIsLeast, RecorderAtWork
  <2> DEFINE Keys == {NextKey(w) : w \in S}
  <2>7. Keys \in SUBSET Nat /\ Keys # {}
    BY <2>6 DEF Deadlocked
  <2>8. Min(Keys) \in Keys /\ \A y \in Keys : Min(Keys) <= y
    BY <2>7, Least
  <2>9. PICK v \in S : \A w \in S : NextKey(v) <= NextKey(w)
    BY <2>8
  <2>10. PICK w \in S : v \in BlockedBy(w)
    BY <2>2
  <2>11. NextKey(w) < NextKey(v)
    BY <2>5, <2>10, KeysAreHeldInOrder
  <2>12. QED
    BY <2>6, <2>9, <2>11
<1>2. QED
  BY <1>1, SpecIInv, PTL
=============================================================================
