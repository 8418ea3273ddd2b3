---------------------------- MODULE AlertDelivery ----------------------------
(***************************************************************************)
(* The notifications delivery.py sends for the alerts of AlertLifecycle.   *)
(*                                                                         *)
(* A sender is one process in deliver_due (the sweep that Airflow runs     *)
(* every five minutes, or the command line) or in retry_delivery.  It      *)
(* reads its clock and the due notifications once, then claims, sends and  *)
(* completes them one at a time.  Claiming and completing are transactions *)
(* of their own; anything may happen between them, a crash included.       *)
(*                                                                         *)
(* A notification is an alert and a kind: provider, destination and        *)
(* versions come from the configuration, which is fixed here.              *)
(***************************************************************************)
EXTENDS Integers, FiniteSets, SequencesExt

CONSTANTS
  Incident, Instance, Execution, Attempt, None, RetentionDays, Horizon,
  Runs,                 \* the runs persisted: execution, attempt, findings
  Sender,               \* processes in deliver_due or retry_delivery
  MaxAttempts,          \* ALERT_DELIVERY_MAX_ATTEMPTS
  RetryDelay,           \* ALERT_DELIVERY_RETRY_MINUTES
  EscalationDelay,      \* ALERT_CRITICAL_ESCALATION_MINUTES, not 0
  RecurrenceThreshold,  \* ALERT_RECURRENCE_THRESHOLD, not 0
  Limit                 \* alerts a sweep reads

ASSUME ConfigAssumption ==
  /\ MaxAttempts \in Nat \ {0} /\ RetryDelay \in Nat
  /\ EscalationDelay \in Nat \ {0} /\ RecurrenceThreshold \in Nat \ {0, 1}
  /\ Limit \in Nat \ {0}

VARIABLES
  alerts, receipts, history, now, ledger,  \* the tables of AlertLifecycle
  deliveries,  \* alert_deliveries: the attempts of each notification
  work,        \* notifications a sender has still to attempt, the first at hand
  stage,       \* what a sender does next with the first
  clock,       \* now_utc of a sender
  forced,      \* whether it is a retry from the command line
  attempt,     \* the number of the attempt it has claimed
  outcome,     \* what the provider returned to it
  reports      \* auxiliary: how often the provider reported each one SENT

lifecycle == <<alerts, receipts, history, now, ledger>>
senders == <<work, stage, clock, forced, attempt, outcome>>
vars == <<lifecycle, deliveries, senders, reports>>

Lifecycle == INSTANCE AlertLifecycle

ASSUME TablesAssumption ==
  /\ IsFiniteSet(Incident) /\ IsFiniteSet(Instance) /\ IsFiniteSet(Execution)
  /\ None \notin Instance /\ RetentionDays \in Nat
ASSUME RunsAssumption == \A run \in Runs :
  /\ run.x \in Execution
  /\ run.attempt \in Attempt
  /\ DOMAIN run.findings \subseteq Incident
  /\ run.findings \in [DOMAIN run.findings -> [severity : Lifecycle!Severity, seen : Nat]]

Alert == Incident \X Instance

Kind == {"INITIAL", "RECURRENCE", "ESCALATION"}

Notification == Alert \X Kind

Outcome == {"SENT", "FAILED", "SKIPPED"}

RowOf(a) == alerts[a[1]][a[2]]

\* The status of the latest attempt.
Latest(n) ==
  IF deliveries[n] = << >> THEN "NONE" ELSE Last(deliveries[n]).status

-----------------------------------------------------------------------------
\* _candidate_is_still_due, on the row as it is when claimed.
StillDue(n, at) ==
  LET row == RowOf(n[1])
  IN CASE n[2] = "INITIAL" -> row.status = "OPEN"
       [] n[2] = "RECURRENCE" ->
            row.status \in Lifecycle!ActiveStatus /\ row.count >= RecurrenceThreshold
       [] n[2] = "ESCALATION" ->
            /\ row.status = "OPEN" /\ row.severity = "CRITICAL"
            /\ row.first <= at - EscalationDelay

\* Plausible fault: off by one attempt.
AttemptableOnceMore(n, at) ==
  \/ Latest(n) = "NONE"
  \/ /\ Latest(n) = "FAILED"
     /\ Len(deliveries[n]) <= MaxAttempts
     /\ Last(deliveries[n]).completed <= at - RetryDelay

\* No attempt yet, or a failed one that may be retried.
Attemptable(n, at) ==
  \/ Latest(n) = "NONE"
  \/ /\ Latest(n) = "FAILED"
     /\ Len(deliveries[n]) < MaxAttempts
     /\ Last(deliveries[n]).completed <= at - RetryDelay

\* Plausible fault: escalation does not wait for the initial notification.
DueUnordered(n, at) == StillDue(n, at) /\ Attemptable(n, at)

\* initial_due, recurrence_due and escalation_due
Due(n, at) ==
  /\ StillDue(n, at)
  /\ Attemptable(n, at)
  /\ n[2] = "ESCALATION" => Latest(<<n[1], "INITIAL">>) = "SENT"

\* The oldest alerts with something due; those first seen together are in any
\* order (that of their random identities).
Batches(at) ==
  LET Found == {a \in Alert : \E kind \in Kind : Due(<<a, kind>>, at)}
      Sorted == {q \in SetToSeqs(Found) :
                   \A m, n \in DOMAIN q : m < n => RowOf(q[m]).first <= RowOf(q[n]).first}
  IN {SubSeq(q, 1, IF Len(q) <= Limit THEN Len(q) ELSE Limit) : q \in Sorted}

\* Alerts in the order of their batch, and of one alert kind after kind.
Earlier(q, m, n) ==
  \E i, j \in DOMAIN q :
    /\ q[i] = m[1] /\ q[j] = n[1]
    /\ i < j \/ (i = j /\ (m[2] = "INITIAL" \/ n[2] = "ESCALATION"))

\* The candidates of a batch, as the one list of them that is in order.
Candidates(q, at) ==
  {c \in SetToSeqs({n \in Notification : n[1] \in Range(q) /\ Due(n, at)}) :
     \A i, j \in DOMAIN c : i < j => Earlier(q, c[i], c[j])}

Start(s, candidates, at, force) ==
  /\ work' = [work EXCEPT ![s] = candidates]
  /\ stage' = [stage EXCEPT ![s] = "claim"]
  /\ clock' = [clock EXCEPT ![s] = at]
  /\ forced' = [forced EXCEPT ![s] = force]
  /\ attempt' = [attempt EXCEPT ![s] = 0]
  /\ outcome' = [outcome EXCEPT ![s] = None]

Stop(s) == Start(s, << >>, 0, FALSE)

\* On to the next notification.
Advance(s) ==
  IF Len(work[s]) = 1 THEN Stop(s) ELSE Start(s, Tail(work[s]), clock[s], forced[s])

\* deliver_due computed its clock, "at", before it reads the candidates.
Discover(s, at) ==
  /\ work[s] = << >>
  /\ \E q \in Batches(at) : q # << >> /\ \E c \in Candidates(q, at) : Start(s, c, at, FALSE)
  /\ UNCHANGED <<lifecycle, deliveries, reports>>

\* retry_delivery of the latest attempt, a failed one.
Retry(s, n, at) ==
  /\ work[s] = << >>
  /\ Latest(n) = "FAILED"
  /\ Start(s, <<n>>, at, TRUE)
  /\ UNCHANGED <<lifecycle, deliveries, reports>>

\* Plausible fault: take over a pending attempt.
ClaimablePending(n, at, force) ==
  /\ StillDue(n, at)
  /\ Latest(n) \in {"NONE", "FAILED", "PENDING"}
  /\ Len(deliveries[n]) < MaxAttempts
  /\ Latest(n) # "NONE" /\ ~force => Last(deliveries[n]).completed + RetryDelay <= at

\* _claim, under the notification's advisory lock and the alert's row lock.
Claimable(n, at, force) ==
  /\ StillDue(n, at)
  /\ Latest(n) \in {"NONE", "FAILED"}
  /\ Len(deliveries[n]) < MaxAttempts
  /\ Latest(n) = "FAILED" /\ ~force => Last(deliveries[n]).completed + RetryDelay <= at

Claim(s) ==
  /\ work[s] # << >> /\ stage[s] = "claim"
  /\ Claimable(work[s][1], clock[s], forced[s])
  /\ deliveries' = [deliveries EXCEPT ![work[s][1]] =
       Append(@, [status |-> "PENDING", completed |-> 0])]
  /\ attempt' = [attempt EXCEPT ![s] = Len(deliveries[work[s][1]]) + 1]
  /\ stage' = [stage EXCEPT ![s] = "send"]
  /\ UNCHANGED <<lifecycle, work, clock, forced, outcome, reports>>

Defer(s) ==
  /\ work[s] # << >> /\ stage[s] = "claim"
  /\ ~Claimable(work[s][1], clock[s], forced[s])
  /\ Advance(s)
  /\ UNCHANGED <<lifecycle, deliveries, reports>>

\* provider.send, which may also raise (FAILED).
Send(s, result) ==
  /\ work[s] # << >> /\ stage[s] = "send"
  /\ outcome' = [outcome EXCEPT ![s] = result]
  /\ stage' = [stage EXCEPT ![s] = "complete"]
  /\ reports' = IF result = "SENT"
                THEN [reports EXCEPT ![work[s][1]] = @ + 1] ELSE reports
  /\ UNCHANGED <<lifecycle, deliveries, work, clock, forced, attempt>>

\* The attempt a sender has claimed is still there and pending.
Pending(s) ==
  /\ attempt[s] \in DOMAIN deliveries[work[s][1]]
  /\ deliveries[work[s][1]][attempt[s]].status = "PENDING"

\* completed_at_utc is the sweep's now_utc, not the time at which the provider answered.
Completed(result, at) == [status |-> result, completed |-> at]

\* _complete
Complete(s) ==
  /\ work[s] # << >> /\ stage[s] = "complete"
  /\ Pending(s)
  /\ deliveries' = [deliveries EXCEPT ![work[s][1]][attempt[s]] =
       Completed(outcome[s], clock[s])]
  /\ Advance(s)
  /\ UNCHANGED <<lifecycle, reports>>

\* The update changes no row: _complete raises, and the sweep ends.
MissAttempt(s) ==
  /\ work[s] # << >> /\ stage[s] = "complete"
  /\ ~Pending(s)
  /\ Stop(s)
  /\ UNCHANGED <<lifecycle, deliveries, reports>>

\* The process or its database connection dies.
Crash(s) ==
  /\ work[s] # << >>
  /\ Stop(s)
  /\ UNCHANGED <<lifecycle, deliveries, reports>>

-----------------------------------------------------------------------------
\* The transactions of AlertLifecycle; what a run found it observed before, and
\* retention deletes attempts with alerts.
Record(run) ==
  /\ \A k \in DOMAIN run.findings : run.findings[k].seen <= now
  /\ Lifecycle!RecordAlerts(run.x, run.attempt, run.findings)
  /\ UNCHANGED <<deliveries, senders, reports>>

Change(k, i, target) ==
  Lifecycle!ChangeStatus(k, i, target) /\ UNCHANGED <<deliveries, senders, reports>>

\* Plausible fault: the attempts of every resolved alert are deleted.
PurgeResolved(at) ==
  /\ Lifecycle!PurgeAlerts(at)
  /\ deliveries' = [n \in Notification |->
       IF RowOf(n[1]).status = "RESOLVED" THEN << >> ELSE deliveries[n]]
  /\ UNCHANGED <<senders, reports>>

Purge(at) ==
  /\ Lifecycle!PurgeAlerts(at)
  /\ deliveries' = [n \in Notification |->
       IF Lifecycle!Expired(n[1][1], n[1][2], at) THEN << >> ELSE deliveries[n]]
  /\ UNCHANGED <<senders, reports>>

Tick == Lifecycle!Tick /\ UNCHANGED <<deliveries, senders, reports>>

Init ==
  /\ Lifecycle!Init
  /\ deliveries = [n \in Notification |-> << >>]
  /\ work = [s \in Sender |-> << >>]
  /\ stage = [s \in Sender |-> "claim"]
  /\ clock = [s \in Sender |-> 0]
  /\ forced = [s \in Sender |-> FALSE]
  /\ attempt = [s \in Sender |-> 0]
  /\ outcome = [s \in Sender |-> None]
  /\ reports = [n \in Notification |-> 0]

Next ==
  \/ \E run \in Runs : Record(run)
  \/ \E k \in Incident, i \in Instance, target \in {"ACKNOWLEDGED", "RESOLVED"} :
       Change(k, i, target)
  \/ \E at \in 0..now : Purge(at)
  \/ Tick
  \/ \E s \in Sender, at \in 0..now : Discover(s, at)
  \/ \E s \in Sender, n \in Notification, at \in 0..now : Retry(s, n, at)
  \/ \E s \in Sender : Claim(s) \/ Defer(s) \/ Complete(s) \/ MissAttempt(s) \/ Crash(s)
  \/ \E s \in Sender, result \in Outcome : Send(s, result)

Spec == Init /\ [][Next]_vars

\* Airflow starts a sweep every five minutes with the current clock, and a sweep
\* that is not interrupted for ever proceeds.
Fairness ==
  \A s \in Sender :
    /\ SF_vars(Discover(s, now))
    /\ SF_vars(Claim(s))
    /\ SF_vars(Defer(s))
    /\ WF_vars(\E result \in Outcome : Send(s, result))
    /\ WF_vars(Complete(s) \/ MissAttempt(s))

FairSpec == Spec /\ Fairness

-----------------------------------------------------------------------------
AttemptRow == [status : {"PENDING"} \cup Outcome, completed : Nat]

\* The tables and the senders' variables keep their types.
TypeOK ==
  /\ Lifecycle!TypeOK
  /\ deliveries \in [Notification -> Seq(AttemptRow)]
  /\ work \in [Sender -> Seq(Notification)]
  /\ stage \in [Sender -> {"claim", "send", "complete"}]
  /\ clock \in [Sender -> Nat]
  /\ forced \in [Sender -> BOOLEAN]
  /\ attempt \in [Sender -> Nat]
  /\ outcome \in [Sender -> Outcome \cup {None}]
  /\ reports \in [Notification -> Nat]

\* README: "Repeated or concurrent sweeps cannot add a second successful logical
\* delivery", and neither can crashes and retention: a notification is attempted
\* at most MaxAttempts times, again only after every earlier attempt FAILED, and
\* the provider reports it SENT once at most.
SentOnce ==
  \A n \in Notification :
    /\ Len(deliveries[n]) <= MaxAttempts
    /\ \A m \in 1..(Len(deliveries[n]) - 1) : deliveries[n][m].status = "FAILED"
    /\ reports[n] <= 1

\* A sender is between its claim of a notification and its completion.
Busy(s, n) == work[s] # << >> /\ work[s][1] = n /\ stage[s] # "claim"

\* While a sender is between its claim and its completion the attempt is its own
\* and pending, unless retention has deleted the alert.
ClaimIsExclusive ==
  \A n \in Notification, s \in Sender : Busy(s, n) =>
    \/ RowOf(n[1]).status = "PURGED"
    \/ Pending(s) /\ \A t \in Sender : Busy(t, n) => t = s

\* An escalation is attempted only for an alert that is CRITICAL and was notified
\* first, a recurrence only for one that has reached the threshold.
AttemptsArePermitted ==
  \A n \in Notification : deliveries[n] # << >> =>
    /\ RowOf(n[1]).status \in Lifecycle!KeptStatus
    /\ n[2] = "ESCALATION" => /\ Latest(<<n[1], "INITIAL">>) = "SENT"
                              /\ RowOf(n[1]).severity = "CRITICAL"
    /\ n[2] = "RECURRENCE" => RowOf(n[1]).count >= RecurrenceThreshold

\* What is due is attempted, by some sweep, or stops being due.
DueIsAttempted ==
  \A n \in Notification : Due(n, now) ~> ~Due(n, now)

=============================================================================
