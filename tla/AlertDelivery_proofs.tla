------------------------- MODULE AlertDelivery_proofs -------------------------
(* What the senders guarantee for every set of alerts and senders, every limit  *)
(* and delay, and any number of crashes, retries, purges and clocks that lag.   *)
EXTENDS AlertDelivery, FiniteSetTheorems, TLAPS

LP == INSTANCE AlertLifecycle_proofs

Gone(n) == RowOf(n[1]).status = "PURGED"

Shapes ==
  /\ DOMAIN alerts = Incident /\ \A k \in Incident : DOMAIN alerts[k] = Instance
  /\ deliveries \in [Notification -> Seq(AttemptRow)]
  /\ reports \in [Notification -> Nat]
  /\ DOMAIN work = Sender /\ DOMAIN attempt = Sender
  /\ stage \in [Sender -> {"claim", "send", "complete"}]
  /\ clock \in [Sender -> Nat]
  /\ forced \in [Sender -> BOOLEAN]
  /\ outcome \in [Sender -> Outcome \cup {None}]
  /\ \A s \in Sender : stage[s] = "complete" => outcome[s] \in Outcome

\* Of one notification: its attempts, and what the provider has reported of them.
AttemptsInv(n) ==
  /\ Len(deliveries[n]) <= MaxAttempts
  /\ \A m \in 1 .. Len(deliveries[n]) - 1 : deliveries[n][m].status = "FAILED"
  /\ reports[n] \in {0, 1}
  /\ Gone(n) => deliveries[n] = << >>
  /\ reports[n] = 1 => Gone(n) \/ Latest(n) \in {"PENDING", "SENT"}

\* Of a sender that has claimed one: the attempt is the last and pending, nobody else
\* has claimed it, and the provider has reported what the sender knows.
ClaimInv(s, n) ==
  Busy(s, n) =>
    /\ Gone(n) \/ (Latest(n) = "PENDING" /\ attempt[s] = Len(deliveries[n]))
    /\ \A t \in Sender : Busy(t, n) => t = s
    /\ reports[n] = IF stage[s] = "complete" /\ outcome[s] = "SENT" THEN 1 ELSE 0

\* The inductive invariant: reports must be tied to the stage of the one sender that
\* may still report, or a second report could not be excluded after a crash.
IInv ==
  /\ Shapes
  /\ \A n \in Notification : AttemptsInv(n)
  /\ \A n \in Notification, s \in Sender : ClaimInv(s, n)

-----------------------------------------------------------------------------
LEMMA NoAttempts == << >> \in Seq(AttemptRow) /\ Len(<< >>) = 0
OBVIOUS

LEMMA NotificationParts ==
  ASSUME NEW n \in Notification PROVE n[1][1] \in Incident /\ n[1][2] \in Instance
BY DEF Notification, Alert

LEMMA InitIInv == Init => IInv
<1> SUFFICES ASSUME Init PROVE IInv
  OBVIOUS
<1>1. Shapes
  BY NoAttempts DEF Init, Lifecycle!Init, Shapes, Outcome
<1>2. ASSUME NEW n \in Notification PROVE AttemptsInv(n)
  <2>1. deliveries[n] = << >> /\ reports[n] = 0 /\ RowOf(n[1]).status = "UNUSED"
    BY NotificationParts DEF Init, Lifecycle!Init, Lifecycle!NoRow, RowOf
  <2>2. QED
    BY <2>1, NoAttempts, ConfigAssumption DEF AttemptsInv, Gone
<1>3. ASSUME NEW n \in Notification, NEW s \in Sender PROVE ClaimInv(s, n)
  BY DEF Init, ClaimInv, Busy
<1>4. QED
  BY <1>1, <1>2, <1>3 DEF IInv

\* What holds of a notification depends on its row and its attempts only.
LEMMA NotificationKept ==
  ASSUME NEW n \in Notification, AttemptsInv(n),
         deliveries'[n] = deliveries[n], reports'[n] = reports[n], Gone(n)' = Gone(n)
  PROVE  AttemptsInv(n)'
BY DEF AttemptsInv, Latest

-----------------------------------------------------------------------------
\* The tables.
TablesMove ==
  /\ DOMAIN alerts' = Incident /\ \A k \in Incident : DOMAIN alerts'[k] = Instance
  /\ \A n \in Notification : Gone(n)' = Gone(n)

\* Neither a recorded finding nor an operator revives a purged alert or purges one.
LEMMA RecordMoves ==
  ASSUME Shapes, NEW run, Record(run) PROVE TablesMove
<1>1. alerts' = [k \in Incident |-> [i \in Instance |->
        IF k \in DOMAIN run.findings /\ i = Lifecycle!Target(run.x, k)
        THEN Lifecycle!Recorded(alerts[k][i], run.findings[k], <<run.x, run.attempt>>,
                                Lifecycle!Weight(run.x, k))
        ELSE alerts[k][i]]]
  BY DEF Record, Lifecycle!RecordAlerts
<1>2. ASSUME NEW row, NEW f, NEW source, NEW weight
      PROVE  (Lifecycle!Recorded(row, f, source, weight).status = "PURGED")
               = (row.status = "PURGED")
  BY DEF Lifecycle!Recorded, Lifecycle!Opened, Lifecycle!Updated
<1>3. ASSUME NEW n \in Notification PROVE Gone(n)' = Gone(n)
  BY <1>1, <1>2, NotificationParts DEF Gone, RowOf
<1>4. QED
  BY <1>1, <1>3 DEF TablesMove

LEMMA ChangeMoves ==
  ASSUME Shapes, NEW k \in Incident, NEW i \in Instance,
         NEW target \in {"ACKNOWLEDGED", "RESOLVED"}, Change(k, i, target)
  PROVE  TablesMove
<1>1. alerts[k][i].status # "PURGED"
  BY DEF Change, Lifecycle!ChangeStatus, Lifecycle!ValidTransition
<1>2. alerts' = [alerts EXCEPT ![k][i] = Lifecycle!Moved(alerts[k][i], target)]
  BY DEF Change, Lifecycle!ChangeStatus
<1>3. Lifecycle!Moved(alerts[k][i], target).status # "PURGED"
  BY DEF Lifecycle!Moved
<1>4. ASSUME NEW n \in Notification PROVE Gone(n)' = Gone(n)
  BY <1>1, <1>2, <1>3, NotificationParts DEF Gone, RowOf, Shapes
<1>5. QED
  BY <1>2, <1>4 DEF TablesMove, Shapes

LEMMA TablesKeep ==
  ASSUME IInv, TablesMove, UNCHANGED <<deliveries, senders, reports>> PROVE IInv'
<1> USE DEF senders
<1>1. Shapes'
  BY DEF IInv, Shapes, TablesMove
<1>2. ASSUME NEW n \in Notification PROVE AttemptsInv(n)'
  BY <1>2, NotificationKept DEF IInv, TablesMove
<1>3. ASSUME NEW n \in Notification, NEW s \in Sender PROVE ClaimInv(s, n)'
  BY DEF IInv, TablesMove, ClaimInv, Busy, Latest
<1>4. QED
  BY <1>1, <1>2, <1>3 DEF IInv

\* Retention deletes the attempts of the alerts it deletes, and of no others.
LEMMA PurgeKeeps ==
  ASSUME IInv, NEW at \in Int, Purge(at) PROVE IInv'
<1> USE DEF senders
<1>1. ASSUME NEW n \in Notification
      PROVE  \/ Gone(n)' /\ deliveries'[n] = << >>
             \/ Gone(n)' = Gone(n) /\ deliveries'[n] = deliveries[n]
  BY NotificationParts DEF Purge, Lifecycle!PurgeAlerts, Lifecycle!PurgedRow, Gone, RowOf
<1>2. Shapes'
  BY NoAttempts DEF IInv, Shapes, Purge, Lifecycle!PurgeAlerts
<1>3. ASSUME NEW n \in Notification PROVE AttemptsInv(n)'
  <2>1. CASE Gone(n)' /\ deliveries'[n] = << >>
    BY <2>1, NoAttempts, ConfigAssumption DEF IInv, AttemptsInv, Purge
  <2>2. CASE Gone(n)' = Gone(n) /\ deliveries'[n] = deliveries[n]
    BY <2>2, NotificationKept DEF IInv, Purge
  <2>3. QED
    BY <1>1, <2>1, <2>2
<1>4. ASSUME NEW n \in Notification, NEW s \in Sender PROVE ClaimInv(s, n)'
  BY <1>1 DEF IInv, ClaimInv, Busy, Latest, Purge
<1>5. QED
  BY <1>2, <1>3, <1>4 DEF IInv

-----------------------------------------------------------------------------
LEMMA DueIsActive ==
  ASSUME NEW n \in Notification, NEW at, StillDue(n, at) PROVE ~Gone(n)
<1>1. n[2] \in Kind
  BY DEF Notification
<1>2. QED
  BY <1>1 DEF StillDue, Gone, Kind, Lifecycle!ActiveStatus

\* A sender that turns to other work, or dies, gives up its claim.
LEMMA StartKeeps ==
  ASSUME IInv, NEW s \in Sender, NEW candidates, NEW at \in Nat, NEW force \in BOOLEAN,
         Start(s, candidates, at, force), UNCHANGED <<lifecycle, deliveries, reports>>
  PROVE  IInv'
<1>1. alerts' = alerts
  BY DEF lifecycle
<1>2. Shapes'
  BY <1>1 DEF IInv, Shapes, Start
<1>3. ASSUME NEW n \in Notification PROVE AttemptsInv(n)'
  BY <1>1, NotificationKept DEF IInv, Gone, RowOf
<1>4. ASSUME NEW n \in Notification, NEW t \in Sender PROVE ClaimInv(t, n)'
  <2>1. \A u \in Sender : Busy(u, n)' => u # s /\ Busy(u, n)
    BY DEF IInv, Shapes, Start, Busy
  <2>2. QED
    BY <1>1, <2>1 DEF IInv, Shapes, ClaimInv, Start, Gone, RowOf, Latest
<1>5. QED
  BY <1>2, <1>3, <1>4 DEF IInv

LEMMA AdvanceStarts ==
  ASSUME Shapes, NEW s \in Sender, Advance(s)
  PROVE  \E candidates : \E at \in Nat, force \in BOOLEAN : Start(s, candidates, at, force)
<1>1. clock[s] \in Nat /\ forced[s] \in BOOLEAN
  BY DEF Shapes
<1>2. Start(s, << >>, 0, FALSE) \/ Start(s, Tail(work[s]), clock[s], forced[s])
  BY DEF Advance, Stop
<1>3. QED
  BY <1>1, <1>2

\* What is to be shown of a notification whose attempts change.
LEMMA AttemptsHold ==
  ASSUME NEW n \in Notification, NEW e, deliveries'[n] = e,
         Len(e) <= MaxAttempts,
         \A m \in 1 .. Len(e) - 1 : e[m].status = "FAILED",
         ~Gone(n)', reports'[n] \in {0, 1},
         reports'[n] = 1 => Latest(n)' \in {"PENDING", "SENT"}
  PROVE  AttemptsInv(n)'
BY DEF AttemptsInv

\* A claim appends to attempts that have all failed.
LEMMA ClaimKeeps ==
  ASSUME IInv, NEW s \in Sender, Claim(s) PROVE IInv'
<1> DEFINE row == [status |-> "PENDING", completed |-> 0]
<1>1. alerts' = alerts /\ reports' = reports /\ work' = work /\ outcome' = outcome
      /\ clock' = clock /\ forced' = forced
      /\ stage' = [stage EXCEPT ![s] = "send"]
      /\ attempt' = [attempt EXCEPT ![s] = Len(deliveries[work[s][1]]) + 1]
      /\ deliveries' = [deliveries EXCEPT ![work[s][1]] = Append(@, row)]
  BY DEF Claim, lifecycle
<1>2. row \in AttemptRow
  BY DEF IInv, Shapes, AttemptRow
<1>3. ASSUME NEW n \in Notification, n # work[s][1] PROVE AttemptsInv(n)' /\ deliveries'[n] = deliveries[n]
  BY <1>1, <1>3, NotificationKept DEF IInv, Gone, RowOf, Shapes
<1>4. Shapes'
  <2>1. ASSUME NEW n \in Notification PROVE deliveries'[n] \in Seq(AttemptRow)
    BY <1>1, <1>2 DEF IInv, Shapes
  <2>2. deliveries' \in [Notification -> Seq(AttemptRow)]
    BY <1>1, <2>1 DEF IInv, Shapes
  <2>3. QED
    BY <1>1, <2>2 DEF IInv, Shapes
<1>5. ASSUME NEW claimed \in Notification, claimed = work[s][1] PROVE IInv'
  <2> DEFINE d == deliveries[claimed]
  <2>1. d \in Seq(AttemptRow) /\ Len(d) \in Nat /\ row.status = "PENDING"
    BY <1>5 DEF IInv, Shapes
  <2>2. Len(d) < MaxAttempts /\ ~Gone(claimed) /\ Latest(claimed) \in {"NONE", "FAILED"}
    BY <1>5, DueIsActive DEF Claim, Claimable
  <2>3. deliveries'[claimed] = Append(d, row) /\ ~Gone(claimed)' /\ reports'[claimed] = 0
    BY <1>1, <1>5, <2>2 DEF IInv, Shapes, AttemptsInv, Gone, RowOf
  <2>4. Len(Append(d, row)) = Len(d) + 1 /\ Append(d, row)[Len(d) + 1] = row
        /\ \A m \in 1 .. Len(d) : Append(d, row)[m] = d[m] /\ d[m] \in AttemptRow
    BY <2>1
  <2>5. Latest(claimed)' = "PENDING"
    BY <2>1, <2>3, <2>4, NoAttempts DEF Latest, Last
  <2>6. \A m \in 1 .. Len(d) : d[m].status = "FAILED"
    <3> SUFFICES ASSUME NEW m \in 1 .. Len(d) PROVE d[m].status = "FAILED"
      OBVIOUS
    <3>1. d # << >> /\ d[Len(d)].status = Latest(claimed)
      BY <2>1, NoAttempts DEF Latest, Last
    <3>2. d[Len(d)].status \in {"PENDING"} \cup Outcome
      <4>1. Len(d) \in 1 .. Len(d)
        BY <2>1, <3>1, NoAttempts
      <4>2. d[Len(d)] \in AttemptRow
        BY <2>4, <4>1
      <4>3. QED
        BY <4>2 DEF AttemptRow
    <3>3. d[Len(d)].status = "FAILED"
      BY <2>2, <3>1, <3>2 DEF Outcome
    <3>4. CASE m = Len(d)
      BY <3>3, <3>4
    <3>5. CASE m # Len(d)
      BY <1>5, <2>1, <3>5 DEF IInv, AttemptsInv
    <3>6. QED
      BY <3>4, <3>5
  <2>8. AttemptsInv(claimed)'
    <3>3. Len(d) + 1 <= MaxAttempts
      BY <2>1, <2>2, ConfigAssumption
    <3>4. QED
      <4> DEFINE e == Append(d, row)
      <4>1. Len(e) = Len(d) + 1 /\ Len(e) - 1 = Len(d) /\ deliveries'[claimed] = e
        BY <2>1, <2>3, <2>4
      <4>2. Len(e) <= MaxAttempts
            /\ (\A m \in 1 .. Len(e) - 1 : e[m].status = "FAILED")
        BY <2>4, <2>6, <3>3, <4>1
      <4> HIDE DEF e
      <4>3. QED
        BY <2>3, <2>5, <4>1, <4>2, AttemptsHold
  <2>9. \A t \in Sender : ~Busy(t, claimed)
    BY <1>5, <2>2 DEF IInv, ClaimInv
  <2>10. \A t \in Sender, n \in Notification :
           Busy(t, n)' => IF t = s THEN n = claimed ELSE n # claimed /\ Busy(t, n)
    <3> SUFFICES ASSUME NEW t \in Sender, NEW n \in Notification, Busy(t, n)'
                 PROVE  IF t = s THEN n = claimed ELSE n # claimed /\ Busy(t, n)
      OBVIOUS
    <3>1. CASE t = s
      BY <1>1, <1>5, <3>1 DEF Busy
    <3>2. CASE t # s
      <4>1. Busy(t, n)
        BY <1>1, <3>2 DEF IInv, Shapes, Busy
      <4>2. QED
        BY <2>9, <3>2, <4>1
    <3>3. QED
      BY <3>1, <3>2
  <2>11. attempt'[s] = Len(d) + 1 /\ stage'[s] = "send" /\ Len(deliveries'[claimed]) = Len(d) + 1
    BY <1>1, <2>3, <2>4 DEF IInv, Shapes
  <2>12. ASSUME NEW t \in Sender, NEW n \in Notification PROVE ClaimInv(t, n)'
    <3>1. CASE t = s
      BY <2>3, <2>5, <2>10, <2>11, <3>1 DEF ClaimInv
    <3>2. CASE t # s
      <4> SUFFICES ASSUME Busy(t, n)' PROVE ClaimInv(t, n)'
        BY DEF ClaimInv
      <4>1. n # claimed /\ Busy(t, n) /\ ClaimInv(t, n) /\ deliveries'[n] = deliveries[n]
        BY <1>3, <1>5, <2>10, <3>2 DEF IInv
      <4>2. \A u \in Sender : Busy(u, n)' => u = t
        BY <2>10, <4>1 DEF ClaimInv
      <4>3. stage'[t] = stage[t] /\ attempt'[t] = attempt[t] /\ outcome'[t] = outcome[t]
            /\ Gone(n)' = Gone(n) /\ Latest(n)' = Latest(n) /\ reports'[n] = reports[n]
        BY <1>1, <3>2, <4>1 DEF IInv, Shapes, Gone, RowOf, Latest
      <4>4. QED
        BY <4>1, <4>2, <4>3 DEF ClaimInv
    <3>3. QED
      BY <3>1, <3>2
  <2>13. QED
    <3>1. \A n \in Notification : AttemptsInv(n)'
      BY <1>3, <1>5, <2>8
    <3>2. QED
      BY <1>4, <2>12, <3>1 DEF IInv
<1>6. CASE work[s][1] \notin Notification
  <2>1. ASSUME NEW t \in Sender, NEW n \in Notification PROVE ClaimInv(t, n)'
    <3>1. \A u \in Sender : Busy(u, n)' => u # s /\ Busy(u, n)
      BY <1>1, <1>6 DEF IInv, Shapes, Busy
    <3>2. QED
      BY <1>1, <1>3, <1>6, <3>1 DEF IInv, Shapes, ClaimInv, Gone, RowOf, Latest
  <2>2. QED
    BY <1>3, <1>4, <1>6, <2>1 DEF IInv
<1>7. QED
  BY <1>5, <1>6

\* The provider reports only to the sender with the claim.
LEMMA SendKeeps ==
  ASSUME IInv, NEW s \in Sender, NEW result \in Outcome, Send(s, result) PROVE IInv'
<1> DEFINE claimed == work[s][1]
<1>1. alerts' = alerts /\ deliveries' = deliveries /\ work' = work /\ clock' = clock
      /\ forced' = forced /\ attempt' = attempt
      /\ outcome' = [outcome EXCEPT ![s] = result]
      /\ stage' = [stage EXCEPT ![s] = "complete"]
  BY DEF Send, lifecycle
<1>2. reports' = IF result = "SENT" THEN [reports EXCEPT ![claimed] = @ + 1] ELSE reports
  BY DEF Send
<1>3. Busy(s, claimed) /\ stage[s] = "send"
  BY DEF Send, Busy
<1>4. claimed \in Notification => reports[claimed] = 0 /\ (Gone(claimed) \/ Latest(claimed) = "PENDING")
  BY <1>3 DEF IInv, ClaimInv
<1>5. Shapes'
  <2>1. ASSUME NEW n \in Notification PROVE reports'[n] \in Nat
    BY <1>2, <1>4 DEF IInv, Shapes
  <2>2. reports' \in [Notification -> Nat]
    BY <1>2, <2>1 DEF IInv, Shapes
  <2>3. outcome' \in [Sender -> Outcome \cup {None}]
        /\ \A t \in Sender : stage'[t] = "complete" => outcome'[t] \in Outcome
    BY <1>1 DEF IInv, Shapes
  <2>4. QED
    BY <1>1, <2>2, <2>3 DEF IInv, Shapes
<1>6. ASSUME NEW n \in Notification PROVE AttemptsInv(n)'
  <2>1. CASE n # claimed
    BY <1>1, <1>2, <2>1, NotificationKept DEF IInv, Shapes, Gone, RowOf
  <2>2. CASE n = claimed
    <3>1. reports'[n] \in {0, 1}
      BY <1>2, <1>4, <2>2 DEF IInv, Shapes
    <3>2. Gone(n)' = Gone(n) /\ Latest(n)' = Latest(n)
      BY <1>1 DEF Gone, RowOf, Latest
    <3>3. QED
      BY <1>1, <1>4, <2>2, <3>1, <3>2 DEF IInv, AttemptsInv
  <2>3. QED
    BY <2>1, <2>2
<1>7. ASSUME NEW t \in Sender, NEW n \in Notification PROVE ClaimInv(t, n)'
  <2>1. \A u \in Sender : Busy(u, n)' = Busy(u, n)
    BY <1>1, <1>3 DEF IInv, Shapes, Busy
  <2>2. Gone(n)' = Gone(n) /\ Latest(n)' = Latest(n)
    BY <1>1 DEF Gone, RowOf, Latest
  <2>3. CASE n = claimed /\ Busy(t, n)
    <3>1. t = s
      BY <1>3, <2>3 DEF IInv, ClaimInv
    <3>2. reports'[n] = IF result = "SENT" THEN 1 ELSE 0
      BY <1>2, <1>4, <2>3 DEF IInv, Shapes
    <3>3. stage'[s] = "complete" /\ outcome'[s] = result
      BY <1>1 DEF IInv, Shapes
    <3>4. QED
      BY <1>1, <2>1, <2>2, <2>3, <3>1, <3>2, <3>3 DEF IInv, ClaimInv
  <2>4. CASE n # claimed /\ Busy(t, n)
    <3>1. t # s /\ reports'[n] = reports[n]
      BY <1>2, <1>3, <2>4 DEF Busy, IInv, Shapes
    <3>2. QED
      BY <1>1, <2>1, <2>2, <2>4, <3>1 DEF IInv, Shapes, ClaimInv
  <2>5. QED
    BY <2>1, <2>3, <2>4 DEF ClaimInv
<1>8. QED
  BY <1>5, <1>6, <1>7 DEF IInv

\* A completion settles the last attempt and gives the claim up.
LEMMA CompleteKeeps ==
  ASSUME IInv, NEW s \in Sender, Complete(s) PROVE IInv'
<1> DEFINE row == Completed(outcome[s], clock[s])
<1>1. alerts' = alerts /\ reports' = reports
      /\ deliveries' = [deliveries EXCEPT ![work[s][1]][attempt[s]] = row]
  BY DEF Complete, Completed, lifecycle
<1>2. PICK candidates : \E at \in Nat, force \in BOOLEAN : Start(s, candidates, at, force)
  BY AdvanceStarts DEF Complete, IInv
<1>3. Busy(s, work[s][1]) /\ stage[s] = "complete" /\ Pending(s) /\ outcome[s] \in Outcome
  BY DEF Complete, Busy, IInv, Shapes
<1>4. ASSUME NEW n \in Notification, n # work[s][1] PROVE AttemptsInv(n)' /\ deliveries'[n] = deliveries[n]
  BY <1>1, <1>4, NotificationKept DEF IInv, Gone, RowOf, Shapes
<1>5. ASSUME NEW claimed \in Notification, claimed = work[s][1]
      PROVE  deliveries'[claimed] \in Seq(AttemptRow) /\ AttemptsInv(claimed)'
  <2> DEFINE d == deliveries[claimed]
             e == [d EXCEPT ![attempt[s]] = row]
  <2>1. d \in Seq(AttemptRow) /\ Len(d) \in Nat /\ attempt[s] \in 1 .. Len(d)
    BY <1>3, <1>5 DEF IInv, Shapes, Pending
  <2>2. ~Gone(claimed) /\ attempt[s] = Len(d)
    <3>1. ~Gone(claimed)
      BY <1>5, <2>1, NoAttempts DEF IInv, AttemptsInv
    <3>2. QED
      BY <1>3, <1>5, <3>1 DEF IInv, ClaimInv
  <2>3. row \in AttemptRow /\ row.status = outcome[s]
    BY <1>3 DEF Completed, AttemptRow, IInv, Shapes
  <2>4. e \in Seq(AttemptRow) /\ Len(e) = Len(d) /\ e[Len(d)] = row
        /\ \A m \in 1 .. Len(d) - 1 : e[m] = d[m]
    BY <2>1, <2>2, <2>3
  <2>5. deliveries'[claimed] = e /\ ~Gone(claimed)'
    BY <1>1, <1>5, <2>2 DEF IInv, Shapes, Gone, RowOf
  <2>6. Latest(claimed)' = outcome[s]
    BY <2>1, <2>3, <2>4, <2>5, NoAttempts DEF Latest, Last
  <2>7. reports'[claimed] = IF outcome[s] = "SENT" THEN 1 ELSE 0
    BY <1>1, <1>3, <1>5 DEF IInv, ClaimInv
  <2>8. \A m \in 1 .. Len(e) - 1 : e[m].status = "FAILED"
    BY <1>5, <2>1, <2>4 DEF IInv, AttemptsInv
  <2>10. QED
    <3>1. Len(e) <= MaxAttempts
      BY <1>5, <2>4 DEF IInv, AttemptsInv
    <3>2. reports'[claimed] \in {0, 1} /\ (reports'[claimed] = 1 => Latest(claimed)' = "SENT")
      BY <2>6, <2>7
    <3> HIDE DEF e
    <3>3. AttemptsInv(claimed)'
      BY <1>5, <2>5, <2>8, <3>1, <3>2, AttemptsHold
    <3>4. QED
      BY <2>4, <2>5, <3>3
<1>6. Shapes'
  <2>1. \A n \in Notification : deliveries'[n] \in Seq(AttemptRow)
    BY <1>4, <1>5 DEF IInv, Shapes
  <2>2. deliveries' \in [Notification -> Seq(AttemptRow)]
    BY <1>1, <2>1 DEF IInv, Shapes
  <2>3. QED
    BY <1>1, <1>2, <2>2 DEF IInv, Shapes, Start
<1>7. ASSUME NEW n \in Notification, NEW t \in Sender PROVE ClaimInv(t, n)'
  <2>1. \A u \in Sender : Busy(u, n)' => u # s /\ Busy(u, n)
    BY <1>2 DEF IInv, Shapes, Start, Busy
  <2>2. CASE n = work[s][1]
    BY <1>3, <2>1, <2>2 DEF IInv, ClaimInv
  <2>3. CASE n # work[s][1]
    BY <1>1, <1>2, <1>4, <2>1, <2>3
    DEF IInv, Shapes, ClaimInv, Start, Gone, RowOf, Latest
  <2>4. QED
    BY <2>2, <2>3
<1>8. QED
  BY <1>4, <1>5, <1>6, <1>7 DEF IInv

-----------------------------------------------------------------------------
LEMMA NextIInv == IInv /\ [Next]_vars => IInv'
<1> SUFFICES ASSUME IInv, [Next]_vars PROVE IInv'
  OBVIOUS
<1>1. ASSUME NEW run \in Runs, Record(run) PROVE IInv'
  BY <1>1, RecordMoves, TablesKeep DEF IInv, Record
<1>2. ASSUME NEW k \in Incident, NEW i \in Instance,
             NEW target \in {"ACKNOWLEDGED", "RESOLVED"}, Change(k, i, target)
      PROVE  IInv'
  BY <1>2, ChangeMoves, TablesKeep DEF IInv, Change
<1>3. ASSUME NEW at \in 0..now, Purge(at) PROVE IInv'
  BY <1>3, PurgeKeeps
<1>4. CASE Tick
  <2>1. TablesMove
    BY <1>4 DEF IInv, Shapes, TablesMove, Tick, Lifecycle!Tick, Gone, RowOf
  <2>2. QED
    BY <1>4, <2>1, TablesKeep DEF Tick
<1>5. ASSUME NEW s \in Sender, NEW at \in 0..now, Discover(s, at) PROVE IInv'
  <2>1. at \in Nat
    OBVIOUS
  <2>2. PICK c : Start(s, c, at, FALSE)
    BY <1>5 DEF Discover
  <2>3. QED
    BY <1>5, <2>1, <2>2, StartKeeps DEF Discover
<1>6. ASSUME NEW s \in Sender, NEW n \in Notification, NEW at \in 0..now, Retry(s, n, at)
      PROVE  IInv'
  <2>1. at \in Nat
    OBVIOUS
  <2>2. QED
    BY <1>6, <2>1, StartKeeps DEF Retry
<1>7. ASSUME NEW s \in Sender, Claim(s) PROVE IInv'
  BY <1>7, ClaimKeeps
<1>8. ASSUME NEW s \in Sender, Defer(s) PROVE IInv'
  BY <1>8, AdvanceStarts, StartKeeps DEF IInv, Defer
<1>9. ASSUME NEW s \in Sender, Complete(s) PROVE IInv'
  BY <1>9, CompleteKeeps
<1>10. ASSUME NEW s \in Sender, MissAttempt(s) \/ Crash(s) PROVE IInv'
  BY <1>10, StartKeeps DEF MissAttempt, Crash, Stop
<1>11. ASSUME NEW s \in Sender, NEW result \in Outcome, Send(s, result) PROVE IInv'
  BY <1>11, SendKeeps
<1>12. CASE UNCHANGED vars
  <2>1. TablesMove
    BY <1>12 DEF IInv, Shapes, TablesMove, vars, lifecycle, Gone, RowOf
  <2>2. QED
    BY <1>12, <2>1, TablesKeep DEF vars
<1>13. QED
  BY <1>1, <1>2, <1>3, <1>4, <1>5, <1>6, <1>7, <1>8, <1>9, <1>10, <1>11, <1>12 DEF Next

LEMMA SpecIInv == Spec => []IInv
<1>1. QED
  BY InitIInv, NextIInv, PTL DEF Spec

\* However many sweeps, retries and crashes there are, the provider never reports a
\* notification SENT twice, and attempts follow each other only after failures.
THEOREM NeverSentTwice == Spec => []SentOnce
<1>1. IInv => SentOnce
  BY DEF IInv, AttemptsInv, SentOnce
<1>2. QED
  BY <1>1, SpecIInv, PTL

\* Between its claim and its completion a sender alone works on a notification, and
\* its attempt stays pending unless retention deletes the alert.
THEOREM ClaimsAreExclusive == Spec => []ClaimIsExclusive
<1>1. IInv => ClaimIsExclusive
  <2> SUFFICES ASSUME IInv, NEW n \in Notification, NEW s \in Sender, Busy(s, n), ~Gone(n)
               PROVE  Pending(s)
    BY DEF ClaimIsExclusive, IInv, ClaimInv, Gone
  <2>1. Latest(n) = "PENDING" /\ attempt[s] = Len(deliveries[n]) /\ work[s][1] = n
    BY DEF IInv, ClaimInv, Busy
  <2>2. deliveries[n] \in Seq(AttemptRow) /\ deliveries[n] # << >>
    BY <2>1 DEF Latest, IInv, Shapes
  <2>3. attempt[s] \in DOMAIN deliveries[n]
    BY <2>1, <2>2
  <2>4. QED
    BY <2>1, <2>2, <2>3 DEF Latest, Last, Pending
<1>2. QED
  BY <1>1, SpecIInv, PTL

-----------------------------------------------------------------------------
\* The initial notification of the alert of a notification, and that it was sent.
Initial(n) == <<n[1], "INITIAL">>

Notified(n) == Gone(n) \/ Latest(Initial(n)) = "SENT"

Permitted(n) ==
  deliveries[n] # << >> =>
    /\ RowOf(n[1]).status \in Lifecycle!KeptStatus
    /\ n[2] = "ESCALATION" => /\ Latest(Initial(n)) = "SENT"
                              /\ RowOf(n[1]).severity = "CRITICAL"
    /\ n[2] = "RECURRENCE" => RowOf(n[1]).count >= RecurrenceThreshold

Notifications(q) ==
  /\ q \in Seq(Notification)
  /\ \A j \in 1 .. Len(q) : q[j][2] = "ESCALATION" => Notified(q[j])

\* An escalation a sender has read is one of an alert that was notified, or purged
\* since: no lock keeps what it read true, but nothing takes back what was SENT.
PermitInv ==
  /\ now \in Nat
  /\ \A n \in Notification : RowOf(n[1]).count \in Nat
  /\ \A n \in Notification : Permitted(n)
  /\ work \in [Sender -> Seq(Notification)]
  /\ attempt \in [Sender -> Nat]
  /\ \A s \in Sender : Notifications(work[s])

FullInv == IInv /\ PermitInv

-----------------------------------------------------------------------------
LEMMA InitPermit == Init => PermitInv
<1> SUFFICES ASSUME Init PROVE PermitInv
  OBVIOUS
<1>1. now \in Nat
  BY DEF Init, Lifecycle!Init
<1>2. \A n \in Notification : RowOf(n[1]).count \in Nat /\ Permitted(n)
  BY NotificationParts DEF Init, Lifecycle!Init, Lifecycle!NoRow, RowOf, Permitted
<1>3. << >> \in Seq(Notification) /\ Len(<< >>) = 0
  OBVIOUS
<1>4. QED
  BY <1>1, <1>2, <1>3 DEF Init, PermitInv, Notifications

\* What the tables may do to an alert: its attempts are kept or deleted with it, and
\* one with attempts loses neither its severity nor what was counted.
Grows(n) ==
  \/ Gone(n)' /\ \A m \in Notification : m[1] = n[1] => deliveries'[m] = << >>
  \/ /\ Gone(n)' = Gone(n)
     /\ \A m \in Notification : m[1] = n[1] => deliveries'[m] = deliveries[m]
     /\ RowOf(n[1]).status \in Lifecycle!KeptStatus =>
          /\ RowOf(n[1])'.status \in Lifecycle!KeptStatus
          /\ RowOf(n[1]).severity = "CRITICAL" => RowOf(n[1])'.severity = "CRITICAL"
          /\ RowOf(n[1])'.count >= RowOf(n[1]).count

LEMMA InitialIsOne ==
  ASSUME NEW n \in Notification
  PROVE  Initial(n) \in Notification /\ Initial(n)[1] = n[1]
BY DEF Notification, Initial, Kind

LEMMA TablesPermit ==
  ASSUME PermitInv, now' \in Nat, UNCHANGED <<work, attempt>>,
         \A n \in Notification : Grows(n) /\ RowOf(n[1])'.count \in Nat
  PROVE  PermitInv'
<1>1. ASSUME NEW n \in Notification PROVE Permitted(n)'
  <2> SUFFICES ASSUME deliveries'[n] # << >> PROVE Permitted(n)'
    BY DEF Permitted
  <2>1. PICK m \in Notification : m = Initial(n) /\ m[1] = n[1]
    BY InitialIsOne
  <2>2. /\ deliveries'[n] = deliveries[n] /\ deliveries'[m] = deliveries[m]
        /\ RowOf(n[1]).status \in Lifecycle!KeptStatus =>
             /\ RowOf(n[1])'.status \in Lifecycle!KeptStatus
             /\ RowOf(n[1]).severity = "CRITICAL" => RowOf(n[1])'.severity = "CRITICAL"
             /\ RowOf(n[1])'.count >= RowOf(n[1]).count
    BY <2>1 DEF Grows
  <2>3. Permitted(n) /\ RowOf(n[1]).count \in Nat /\ RowOf(n[1])'.count \in Nat
        /\ Latest(Initial(n))' = Latest(Initial(n))
    BY <2>1, <2>2 DEF PermitInv, Latest
  <2>4. QED
    BY <2>2, <2>3, ConfigAssumption DEF Permitted
<1>2. ASSUME NEW n \in Notification, Notified(n) PROVE Notified(n)'
  <2>1. PICK m \in Notification : m = Initial(n) /\ m[1] = n[1]
    BY InitialIsOne
  <2>2. Gone(n)' \/ (Gone(n)' = Gone(n) /\ deliveries'[m] = deliveries[m])
    BY <2>1 DEF Grows
  <2>3. QED
    BY <1>2, <2>1, <2>2 DEF Notified, Latest
<1>3. ASSUME NEW s \in Sender PROVE Notifications(work[s])'
  <2>1. work[s] \in Seq(Notification) /\ work'[s] = work[s]
    BY DEF PermitInv
  <2>2. ASSUME NEW j \in 1 .. Len(work[s]), work[s][j][2] = "ESCALATION"
        PROVE  Notified(work[s][j])'
    <3>1. PICK n \in Notification : n = work[s][j]
      BY <2>1
    <3>2. Notified(n)'
      BY <1>2, <2>2, <3>1 DEF PermitInv, Notifications
    <3>3. n = work'[s][j]
      BY <2>1, <3>1
    <3>4. QED
      BY <3>1, <3>2, <3>3, <2>1 DEF Notified, Gone, Latest, Initial, RowOf
  <2>3. QED
    BY <2>1, <2>2 DEF Notifications
<1>4. QED
  BY <1>1, <1>3 DEF PermitInv

-----------------------------------------------------------------------------
\* Recording a finding worsens an alert and counts it; it changes no resolved one.
LEMMA RecordPermits ==
  ASSUME IInv, PermitInv, NEW run, Record(run) PROVE PermitInv'
<1>1. alerts' = [k \in Incident |-> [i \in Instance |->
        IF k \in DOMAIN run.findings /\ i = Lifecycle!Target(run.x, k)
        THEN Lifecycle!Recorded(alerts[k][i], run.findings[k], <<run.x, run.attempt>>,
                                Lifecycle!Weight(run.x, k))
        ELSE alerts[k][i]]]
      /\ now' = now /\ deliveries' = deliveries /\ work' = work /\ attempt' = attempt
  BY DEF Record, Lifecycle!RecordAlerts, senders
<1>2. ASSUME NEW row, row.count \in Nat, NEW f, NEW source, NEW weight \in {0, 1},
             NEW new, new = Lifecycle!Recorded(row, f, source, weight)
      PROVE  /\ new.count \in Nat
             /\ row.status \in Lifecycle!KeptStatus =>
                  /\ new.status = row.status
                  /\ row.severity = "CRITICAL" => new.severity = "CRITICAL"
                  /\ new.count >= row.count
  BY <1>2 DEF Lifecycle!Recorded, Lifecycle!Opened, Lifecycle!Updated, Lifecycle!Worst,
     Lifecycle!KeptStatus, Lifecycle!ActiveStatus
<1>3. ASSUME NEW n \in Notification PROVE Grows(n) /\ RowOf(n[1])'.count \in Nat
  <2>1. PICK row : row = RowOf(n[1])
    OBVIOUS
  <2>2. PICK new : new = RowOf(n[1])'
    OBVIOUS
  <2>3. row.count \in Nat /\ Lifecycle!Weight(run.x, n[1][1]) \in {0, 1}
    BY <2>1 DEF PermitInv, Lifecycle!Weight
  <2>4. new = row \/ new = Lifecycle!Recorded(row, run.findings[n[1][1]],
                            <<run.x, run.attempt>>, Lifecycle!Weight(run.x, n[1][1]))
    BY <1>1, <2>1, <2>2, NotificationParts DEF RowOf
  <2>5. /\ new.count \in Nat
        /\ row.status \in Lifecycle!KeptStatus =>
             /\ new.status = row.status
             /\ row.severity = "CRITICAL" => new.severity = "CRITICAL"
             /\ new.count >= row.count
    BY <1>2, <2>3, <2>4
  <2>6. Gone(n)' = Gone(n)
    BY RecordMoves DEF IInv, TablesMove
  <2>7. QED
    BY <1>1, <2>1, <2>2, <2>5, <2>6 DEF Grows
<1>4. QED
  BY <1>1, <1>3, TablesPermit DEF PermitInv

LEMMA ChangePermits ==
  ASSUME IInv, PermitInv, NEW k \in Incident, NEW i \in Instance,
         NEW target \in {"ACKNOWLEDGED", "RESOLVED"}, Change(k, i, target)
  PROVE  PermitInv'
<1>1. alerts' = [alerts EXCEPT ![k][i] = Lifecycle!Moved(alerts[k][i], target)]
      /\ now' = now /\ deliveries' = deliveries /\ work' = work /\ attempt' = attempt
  BY DEF Change, Lifecycle!ChangeStatus, senders
<1>2. ASSUME NEW n \in Notification PROVE Grows(n) /\ RowOf(n[1])'.count \in Nat
  <2>1. PICK row : row = RowOf(n[1])
    OBVIOUS
  <2>2. PICK new : new = RowOf(n[1])'
    OBVIOUS
  <2>3. new = row \/ new = Lifecycle!Moved(row, target)
    BY <1>1, <2>1, <2>2, NotificationParts DEF RowOf, IInv, Shapes
  <2>4. new.count = row.count /\ new.severity = row.severity /\ row.count \in Nat
        /\ (row.status \in Lifecycle!KeptStatus => new.status \in Lifecycle!KeptStatus)
    BY <2>1, <2>3 DEF PermitInv, Lifecycle!Moved, Lifecycle!KeptStatus, Lifecycle!ActiveStatus
  <2>5. Gone(n)' = Gone(n)
    BY ChangeMoves DEF IInv, TablesMove
  <2>6. QED
    BY <1>1, <2>1, <2>2, <2>4, <2>5 DEF Grows
<1>3. QED
  BY <1>1, <1>2, TablesPermit DEF PermitInv

LEMMA PurgePermits ==
  ASSUME PermitInv, NEW at \in Int, Purge(at) PROVE PermitInv'
<1>1. alerts' = [k \in Incident |-> [i \in Instance |->
        IF Lifecycle!Expired(k, i, at) THEN Lifecycle!PurgedRow ELSE alerts[k][i]]]
      /\ deliveries' = [n \in Notification |->
           IF Lifecycle!Expired(n[1][1], n[1][2], at) THEN << >> ELSE deliveries[n]]
      /\ now' = now /\ work' = work /\ attempt' = attempt
  BY DEF Purge, Lifecycle!PurgeAlerts, senders
<1>2. ASSUME NEW n \in Notification PROVE Grows(n) /\ RowOf(n[1])'.count \in Nat
  <2>1. CASE Lifecycle!Expired(n[1][1], n[1][2], at)
    <3>1. RowOf(n[1])' = Lifecycle!PurgedRow
      BY <1>1, <2>1, NotificationParts DEF RowOf
    <3>2. Gone(n)' /\ RowOf(n[1])'.count = 0
      BY <3>1 DEF Gone, Lifecycle!PurgedRow, Lifecycle!NoRow
    <3>3. \A m \in Notification : m[1] = n[1] => deliveries'[m] = << >>
      BY <1>1, <2>1
    <3>4. Grows(n)
      BY <3>2, <3>3 DEF Grows
    <3>5. QED
      BY <3>2, <3>4
  <2>2. CASE ~Lifecycle!Expired(n[1][1], n[1][2], at)
    <3>1. RowOf(n[1])' = RowOf(n[1]) /\ RowOf(n[1]).count \in Nat
      BY <1>1, <2>2, NotificationParts DEF RowOf, PermitInv
    <3>2. Gone(n)' = Gone(n)
      BY <3>1 DEF Gone
    <3>3. \A m \in Notification : m[1] = n[1] => deliveries'[m] = deliveries[m]
      BY <1>1, <2>2
    <3>4. QED
      BY <3>1, <3>2, <3>3 DEF Grows
  <2>3. QED
    BY <2>1, <2>2
<1>3. QED
  BY <1>1, <1>2, TablesPermit DEF PermitInv

LEMMA IdlePermits ==
  ASSUME PermitInv, now' \in Nat, alerts' = alerts, UNCHANGED <<deliveries, work, attempt>>
  PROVE  PermitInv'
<1>1. ASSUME NEW n \in Notification PROVE Grows(n) /\ RowOf(n[1])'.count \in Nat
  BY DEF PermitInv, Grows, Gone, RowOf
<1>2. QED
  BY <1>1, TablesPermit

-----------------------------------------------------------------------------
\* A sender turns to other work that was notified.
LEMMA StartPermits ==
  ASSUME PermitInv, NEW s \in Sender, NEW q, Notifications(q), NEW at, NEW force,
         Start(s, q, at, force), UNCHANGED <<lifecycle, deliveries>>
  PROVE  PermitInv'
<1>1. now' = now /\ alerts' = alerts /\ work' = [work EXCEPT ![s] = q]
      /\ attempt' = [attempt EXCEPT ![s] = 0]
  BY DEF Start, lifecycle
<1>2. \A n : RowOf(n[1])' = RowOf(n[1]) /\ Latest(n)' = Latest(n)
  BY <1>1 DEF RowOf, Latest
<1>3. \A n \in Notification : Permitted(n)'
  BY <1>2 DEF PermitInv, Permitted, RowOf, Latest, Initial
<1>4. ASSUME NEW p, Notifications(p) PROVE Notifications(p)'
  BY <1>1, <1>4 DEF Notifications, Notified, Gone, RowOf, Latest, Initial
<1>5. ASSUME NEW t \in Sender PROVE Notifications(work[t])'
  <2>1. PICK p : p = work'[t] /\ Notifications(p)
    BY <1>1 DEF PermitInv
  <2>2. Notifications(p)'
    BY <1>4, <2>1
  <2>3. QED
    BY <2>1, <2>2 DEF Notifications, Notified, Gone, Latest, Initial, RowOf
<1>6. work' \in [Sender -> Seq(Notification)] /\ attempt' \in [Sender -> Nat]
  BY <1>1 DEF PermitInv, Notifications
<1>7. QED
  BY <1>1, <1>2, <1>3, <1>5, <1>6 DEF PermitInv, RowOf

LEMMA Nothing == Notifications(<< >>)
<1>1. << >> \in Seq(Notification) /\ Len(<< >>) = 0
  OBVIOUS
<1>2. QED
  BY <1>1 DEF Notifications

LEMMA AdvanceNotified ==
  ASSUME PermitInv, NEW s \in Sender, work[s] # << >>, Advance(s)
  PROVE  \E q, at, force : Notifications(q) /\ Start(s, q, at, force)
<1>1. CASE Len(work[s]) = 1
  BY <1>1, Nothing DEF Advance, Stop
<1>2. CASE Len(work[s]) # 1
  <2>1. Notifications(work[s]) /\ work[s] \in Seq(Notification)
    BY DEF PermitInv
  <2>2. PICK q : q = Tail(work[s])
    OBVIOUS
  <2>3. q \in Seq(Notification) /\ Len(q) = Len(work[s]) - 1
        /\ \A j \in 1 .. Len(q) : q[j] = work[s][j + 1] /\ j + 1 \in 1 .. Len(work[s])
    BY <2>1, <2>2
  <2>4. Notifications(q)
    BY <2>1, <2>3 DEF Notifications
  <2>5. QED
    BY <1>2, <2>2, <2>4 DEF Advance
<1>3. QED
  BY <1>1, <1>2

\* Changing the attempts of a notification that is not SENT takes nothing back.
LEMMA AttemptPermits ==
  ASSUME PermitInv, NEW c \in Notification, Latest(c) # "SENT",
         now' = now, alerts' = alerts,
         \A n \in Notification : n # c => deliveries'[n] = deliveries[n],
         deliveries'[c] # << >> =>
           /\ RowOf(c[1]).status \in Lifecycle!KeptStatus
           /\ c[2] = "ESCALATION" => /\ Latest(Initial(c)) = "SENT"
                                     /\ RowOf(c[1]).severity = "CRITICAL"
           /\ c[2] = "RECURRENCE" => RowOf(c[1]).count >= RecurrenceThreshold
  PROVE  /\ \A n \in Notification : Permitted(n)'
         /\ \A q : Notifications(q) => Notifications(q)'
<1>1. \A n : RowOf(n[1])' = RowOf(n[1]) /\ Gone(n)' = Gone(n)
  BY DEF RowOf, Gone
<1>2. ASSUME NEW n \in Notification, Latest(Initial(n)) = "SENT"
      PROVE  Latest(Initial(n))' = "SENT"
  <2>1. PICK m \in Notification : m = Initial(n) /\ m # c
    BY <1>2, InitialIsOne
  <2>2. QED
    BY <1>2, <2>1 DEF Latest, Initial
<1>3. ASSUME NEW n \in Notification PROVE Permitted(n)'
  <2> SUFFICES ASSUME deliveries'[n] # << >> PROVE Permitted(n)'
    BY DEF Permitted
  <2>1. /\ RowOf(n[1]).status \in Lifecycle!KeptStatus
        /\ n[2] = "ESCALATION" => /\ Latest(Initial(n)) = "SENT"
                                  /\ RowOf(n[1]).severity = "CRITICAL"
        /\ n[2] = "RECURRENCE" => RowOf(n[1]).count >= RecurrenceThreshold
    BY DEF PermitInv, Permitted
  <2>2. QED
    BY <1>1, <1>2, <2>1 DEF Permitted
<1>4. ASSUME NEW n \in Notification, Notified(n) PROVE Notified(n)'
  BY <1>1, <1>2, <1>4 DEF Notified
<1>5. ASSUME NEW q, Notifications(q) PROVE Notifications(q)'
  <2>1. ASSUME NEW j \in 1 .. Len(q), q[j][2] = "ESCALATION" PROVE Notified(q[j])'
    <3>1. PICK n \in Notification : n = q[j]
      BY <1>5 DEF Notifications
    <3>2. Notified(n)'
      BY <1>4, <1>5, <2>1, <3>1 DEF Notifications
    <3>3. QED
      BY <3>1, <3>2
  <2>2. QED
    BY <1>5, <2>1 DEF Notifications
<1>6. QED
  BY <1>3, <1>5

LEMMA ClaimPermits ==
  ASSUME IInv, PermitInv, NEW s \in Sender, Claim(s) PROVE PermitInv'
<1>1. PICK c \in Notification : c = work[s][1] /\ 1 \in 1 .. Len(work[s])
  BY DEF Claim, PermitInv
<1>2. Claimable(c, clock[s], forced[s])
  BY <1>1 DEF Claim
<1>3. now' = now /\ alerts' = alerts /\ work' = work
      /\ \A n \in Notification : n # c => deliveries'[n] = deliveries[n]
  BY <1>1 DEF Claim, lifecycle, IInv, Shapes
<1>4. c[2] = "ESCALATION" => Latest(Initial(c)) = "SENT"
  <2>1. ~Gone(c)
    BY <1>2, DueIsActive DEF Claimable
  <2>2. QED
    BY <1>1, <2>1 DEF PermitInv, Notifications, Notified
<1>5. c[2] \in Kind
  BY DEF Notification
<1>6. /\ RowOf(c[1]).status \in Lifecycle!KeptStatus
      /\ c[2] = "ESCALATION" => RowOf(c[1]).severity = "CRITICAL"
      /\ c[2] = "RECURRENCE" => RowOf(c[1]).count >= RecurrenceThreshold
  BY <1>2, <1>5 DEF Claimable, StillDue, Kind, Lifecycle!KeptStatus, Lifecycle!ActiveStatus
<1>7. Latest(c) # "SENT"
  BY <1>2 DEF Claimable
<1>8. /\ \A n \in Notification : Permitted(n)'
      /\ \A q : Notifications(q) => Notifications(q)'
  BY <1>3, <1>4, <1>6, <1>7, AttemptPermits
<1>9. ASSUME NEW t \in Sender PROVE Notifications(work[t])'
  <2>1. PICK q : q = work[t] /\ q = work'[t] /\ Notifications(q)
    BY <1>3 DEF PermitInv
  <2>2. Notifications(q)'
    BY <1>8, <2>1
  <2>3. QED
    BY <2>1, <2>2 DEF Notifications, Notified, Gone, Latest, Initial, RowOf
<1>10. attempt' \in [Sender -> Nat]
  <2>1. Len(deliveries[c]) \in Nat
    BY DEF IInv, Shapes
  <2>2. attempt' = [attempt EXCEPT ![s] = Len(deliveries[c]) + 1]
    BY <1>1 DEF Claim
  <2>3. QED
    BY <2>1, <2>2 DEF PermitInv
<1>11. QED
  BY <1>3, <1>8, <1>9, <1>10 DEF PermitInv, RowOf

LEMMA CompletePermits ==
  ASSUME IInv, PermitInv, NEW s \in Sender, Complete(s) PROVE PermitInv'
<1>1. PICK c \in Notification : c = work[s][1] /\ Busy(s, c)
  BY DEF Complete, PermitInv, Busy
<1>2. PICK q, at, force : Notifications(q) /\ Start(s, q, at, force)
  BY AdvanceNotified DEF Complete
<1>3. now' = now /\ alerts' = alerts /\ work' = [work EXCEPT ![s] = q]
      /\ attempt' = [attempt EXCEPT ![s] = 0]
      /\ \A n \in Notification : n # c => deliveries'[n] = deliveries[n]
  BY <1>1, <1>2 DEF Complete, lifecycle, IInv, Shapes, Start
<1>4. deliveries[c] # << >>
  <2>1. attempt[s] \in DOMAIN deliveries[c]
    BY <1>1 DEF Complete, Pending
  <2>2. QED
    BY <2>1
<1>5. Latest(c) # "SENT"
  <2>1. ~Gone(c)
    BY <1>4 DEF IInv, AttemptsInv
  <2>2. QED
    BY <1>1, <2>1 DEF IInv, ClaimInv
<1>6. Permitted(c)
  BY DEF PermitInv
<1>7. /\ \A n \in Notification : Permitted(n)'
      /\ \A p : Notifications(p) => Notifications(p)'
  BY <1>3, <1>4, <1>5, <1>6, AttemptPermits DEF Permitted
<1>8. ASSUME NEW t \in Sender PROVE Notifications(work[t])'
  <2>1. PICK p : p = work'[t] /\ Notifications(p)
    BY <1>2, <1>3 DEF PermitInv
  <2>2. Notifications(p)'
    BY <1>7, <2>1
  <2>3. QED
    BY <2>1, <2>2 DEF Notifications, Notified, Gone, Latest, Initial, RowOf
<1>9. work' \in [Sender -> Seq(Notification)] /\ attempt' \in [Sender -> Nat]
  BY <1>2, <1>3 DEF PermitInv, Notifications
<1>10. QED
  BY <1>3, <1>7, <1>8, <1>9 DEF PermitInv, RowOf

LEMMA SendPermits ==
  ASSUME PermitInv, NEW s \in Sender, NEW result, Send(s, result) PROVE PermitInv'
<1>1. now' = now /\ alerts' = alerts /\ UNCHANGED <<deliveries, work, attempt>>
  BY DEF Send, lifecycle
<1>2. now' \in Nat
  BY <1>1 DEF PermitInv
<1>3. QED
  BY <1>1, <1>2, IdlePermits

\* What a sweep reads is in the order of a list, and an escalation is due only for
\* an alert that was notified.
LEMMA DiscoverPermits ==
  ASSUME PermitInv, NEW s \in Sender, NEW at, Discover(s, at) PROVE PermitInv'
<1>1. PICK q, c : c \in Candidates(q, at) /\ Start(s, c, at, FALSE)
  BY DEF Discover
<1>2. PICK D : D = {n \in Notification : n[1] \in Range(q) /\ Due(n, at)}
  OBVIOUS
<1>3. IsFiniteSet(D)
  <2>1. IsFiniteSet(Alert)
    BY TablesAssumption, FS_Product DEF Alert
  <2>2. IsFiniteSet(Kind)
    <3>1. IsFiniteSet({}) /\ IsFiniteSet({} \cup {"INITIAL"})
          /\ IsFiniteSet(({} \cup {"INITIAL"}) \cup {"RECURRENCE"})
          /\ IsFiniteSet((({} \cup {"INITIAL"}) \cup {"RECURRENCE"}) \cup {"ESCALATION"})
      BY FS_EmptySet, FS_AddElement
    <3>2. Kind = (({} \cup {"INITIAL"}) \cup {"RECURRENCE"}) \cup {"ESCALATION"}
      BY DEF Kind
    <3>3. QED
      BY <3>1, <3>2
  <2>3. IsFiniteSet(Notification)
    BY <2>1, <2>2, FS_Product DEF Notification
  <2>4. QED
    BY <1>2, <2>3, FS_Subset
<1>4. Cardinality(D) \in Nat
  BY <1>3, FS_CardinalityType
<1>5. c \in [1 .. Cardinality(D) -> D]
  BY <1>1, <1>2 DEF Candidates, SetToSeqs
<1>6. c \in Seq(Notification) /\ Len(c) = Cardinality(D)
  <2>1. PICK size \in Nat : size = Cardinality(D)
    BY <1>4
  <2>2. c \in [1 .. size -> Notification]
    BY <1>2, <1>5, <2>1
  <2>3. QED
    BY <2>1, <2>2
<1>7. ASSUME NEW j \in 1 .. Len(c), c[j][2] = "ESCALATION" PROVE Notified(c[j])
  <2>1. c[j] \in Notification /\ Due(c[j], at)
    BY <1>2, <1>5, <1>6
  <2>2. QED
    BY <1>7, <2>1 DEF Due, Notified, Initial
<1>8. Notifications(c)
  BY <1>6, <1>7 DEF Notifications
<1>9. QED
  BY <1>1, <1>8, StartPermits DEF Discover

LEMMA RetryPermits ==
  ASSUME PermitInv, NEW s \in Sender, NEW n \in Notification, NEW at, Retry(s, n, at)
  PROVE  PermitInv'
<1>1. n[2] = "ESCALATION" => Notified(n)
  BY DEF Retry, Latest, PermitInv, Permitted, Notified
<1>2. <<n>> \in Seq(Notification) /\ Len(<<n>>) = 1 /\ <<n>>[1] = n
  OBVIOUS
<1>3. Notifications(<<n>>)
  BY <1>1, <1>2 DEF Notifications
<1>4. QED
  BY <1>3, StartPermits DEF Retry

-----------------------------------------------------------------------------
LEMMA NextPermits == IInv /\ PermitInv /\ [Next]_vars => PermitInv'
<1> SUFFICES ASSUME IInv, PermitInv, [Next]_vars PROVE PermitInv'
  OBVIOUS
<1>1. ASSUME NEW run \in Runs, Record(run) PROVE PermitInv'
  BY <1>1, RecordPermits
<1>2. ASSUME NEW k \in Incident, NEW i \in Instance,
             NEW target \in {"ACKNOWLEDGED", "RESOLVED"}, Change(k, i, target)
      PROVE  PermitInv'
  BY <1>2, ChangePermits
<1>3. ASSUME NEW at \in 0..now, Purge(at) PROVE PermitInv'
  BY <1>3, PurgePermits
<1>4. CASE Tick
  <2>1. now' \in Nat /\ alerts' = alerts /\ UNCHANGED <<deliveries, work, attempt>>
    BY <1>4 DEF Tick, Lifecycle!Tick, PermitInv, senders
  <2>2. QED
    BY <2>1, IdlePermits
<1>5. ASSUME NEW s \in Sender, NEW at \in 0..now, Discover(s, at) PROVE PermitInv'
  BY <1>5, DiscoverPermits
<1>6. ASSUME NEW s \in Sender, NEW n \in Notification, NEW at \in 0..now, Retry(s, n, at)
      PROVE  PermitInv'
  BY <1>6, RetryPermits
<1>7. ASSUME NEW s \in Sender, Claim(s) PROVE PermitInv'
  BY <1>7, ClaimPermits
<1>8. ASSUME NEW s \in Sender, Defer(s) PROVE PermitInv'
  <2>1. PICK q, at, force : Notifications(q) /\ Start(s, q, at, force)
    BY <1>8, AdvanceNotified DEF Defer
  <2>2. QED
    BY <1>8, <2>1, StartPermits DEF Defer
<1>9. ASSUME NEW s \in Sender, Complete(s) PROVE PermitInv'
  BY <1>9, CompletePermits
<1>10. ASSUME NEW s \in Sender, MissAttempt(s) \/ Crash(s) PROVE PermitInv'
  BY <1>10, Nothing, StartPermits DEF MissAttempt, Crash, Stop
<1>11. ASSUME NEW s \in Sender, NEW result \in Outcome, Send(s, result) PROVE PermitInv'
  BY <1>11, SendPermits
<1>12. CASE UNCHANGED vars
  <2>1. now' \in Nat /\ alerts' = alerts /\ UNCHANGED <<deliveries, work, attempt>>
    BY <1>12 DEF vars, lifecycle, senders, PermitInv
  <2>2. QED
    BY <2>1, IdlePermits
<1>13. QED
  BY <1>1, <1>2, <1>3, <1>4, <1>5, <1>6, <1>7, <1>8, <1>9, <1>10, <1>11, <1>12 DEF Next

LEMMA SpecFullInv == Spec => []FullInv
<1>1. Init => FullInv
  BY InitIInv, InitPermit DEF FullInv
<1>2. FullInv /\ [Next]_vars => FullInv'
  BY NextIInv, NextPermits DEF FullInv
<1>3. QED
  BY <1>1, <1>2, PTL DEF Spec

\* Whatever happens to an alert between the sweep that reads it and the attempt, one
\* escalates only what was critical and notified, and no attempt outlives its alert.
THEOREM AttemptsAreAlwaysPermitted == Spec => []AttemptsArePermitted
<1>1. FullInv => AttemptsArePermitted
  BY DEF FullInv, PermitInv, Permitted, Initial, AttemptsArePermitted
<1>2. QED
  BY <1>1, SpecFullInv, PTL

-----------------------------------------------------------------------------
\* A run that is recorded is one of the attempts AlertLifecycle records.
LEMMA RecordIsLifecycle ==
  ASSUME now \in Nat, NEW run \in Runs, Record(run) PROVE Lifecycle!Next
<1>1. run.x \in Execution /\ run.attempt \in Attempt /\ DOMAIN run.findings \in SUBSET Incident
  BY RunsAssumption
<1>2. run.findings \in [DOMAIN run.findings -> Lifecycle!Finding]
  <2>1. ASSUME NEW k \in DOMAIN run.findings PROVE run.findings[k] \in Lifecycle!Finding
    <3>1. run.findings[k] \in [severity : Lifecycle!Severity, seen : Nat]
      BY RunsAssumption
    <3>2. run.findings[k].seen \in 0..now
      BY <3>1 DEF Record
    <3>3. QED
      BY <3>1, <3>2 DEF Lifecycle!Finding
  <2>2. run.findings \in [DOMAIN run.findings -> [severity : Lifecycle!Severity, seen : Nat]]
    BY RunsAssumption
  <2>3. QED
    BY <2>1, <2>2
<1>3. QED
  BY <1>1, <1>2 DEF Record, Lifecycle!Next

\* No sweep, retry or crash touches the tables, and what else runs beside them is a
\* transaction of AlertLifecycle: all that it promises holds under delivery too.
THEOREM DeliveryKeepsLifecycle == Spec => Lifecycle!Spec
<1>1. Init => Lifecycle!Init
  BY DEF Init
<1>2. ASSUME now \in Nat, [Next]_vars PROVE [Lifecycle!Next]_(Lifecycle!vars)
  <2> USE DEF lifecycle, Lifecycle!vars
  <2>1. ASSUME NEW run \in Runs, Record(run) PROVE Lifecycle!Next
    BY <1>2, <2>1, RecordIsLifecycle
  <2>2. ASSUME NEW k \in Incident, NEW i \in Instance,
               NEW target \in {"ACKNOWLEDGED", "RESOLVED"}, Change(k, i, target)
        PROVE  Lifecycle!Next
    BY <2>2 DEF Change, Lifecycle!Next
  <2>3. ASSUME NEW at \in 0..now, Purge(at) PROVE Lifecycle!Next
    BY <2>3 DEF Purge, Lifecycle!Next
  <2>4. CASE Tick
    BY <2>4 DEF Tick, Lifecycle!Next
  <2>5. ASSUME NEW s \in Sender,
               \/ \E at \in 0..now : Discover(s, at)
               \/ \E n \in Notification, at \in 0..now : Retry(s, n, at)
               \/ Claim(s) \/ Defer(s) \/ Complete(s) \/ MissAttempt(s) \/ Crash(s)
               \/ \E result \in Outcome : Send(s, result)
        PROVE  UNCHANGED Lifecycle!vars
    BY <2>5 DEF Discover, Retry, Claim, Defer, Complete, MissAttempt, Crash, Send
  <2>6. CASE UNCHANGED vars
    BY <2>6 DEF vars
  <2>7. QED
    BY <1>2, <2>1, <2>2, <2>3, <2>4, <2>5, <2>6 DEF Next
<1>3. FullInv => now \in Nat
  BY DEF FullInv, PermitInv
<1>4. QED
  BY <1>1, <1>2, <1>3, SpecFullInv, PTL DEF Spec, Lifecycle!Spec

-----------------------------------------------------------------------------
\* The invariant AlertLifecycle_proofs finds inductive, of the tables as they are here.
TablesInv ==
  /\ Lifecycle!TypeOK
  /\ Lifecycle!OneActiveAlert
  /\ Lifecycle!CountsExecutions
  /\ Lifecycle!ReceiptsWithinAlert
  /\ Lifecycle!CountedAgainOnlyAfterPurge

\* The tables keep the invariant of AlertLifecycle_proofs through its steps.
LEMMA Tables ==
  /\ Lifecycle!Init => TablesInv
  /\ TablesInv /\ [Lifecycle!Next]_(Lifecycle!vars) => TablesInv'
<1>1. LP!IsFiniteSet(Execution)
  BY TablesAssumption DEF IsFiniteSet, LP!IsFiniteSet
<1>2. LP!Init => LP!IInv
  BY <1>1, TablesAssumption, LP!InitIInv
<1>3. LP!IInv /\ [LP!Next]_LP!vars => LP!IInv'
  BY <1>1, TablesAssumption, LP!NextIInv
<1>4. (TablesInv <=> LP!IInv) /\ (TablesInv' <=> LP!IInv')
  BY DEF TablesInv, LP!IInv,
     Lifecycle!TypeOK, LP!TypeOK, Lifecycle!OneActiveAlert, LP!OneActiveAlert,
     Lifecycle!CountsExecutions, LP!CountsExecutions,
     Lifecycle!ReceiptsWithinAlert, LP!ReceiptsWithinAlert,
     Lifecycle!CountedAgainOnlyAfterPurge, LP!CountedAgainOnlyAfterPurge,
     Lifecycle!Row, LP!Row, Lifecycle!KeptStatus, LP!KeptStatus,
     Lifecycle!ActiveStatus, LP!ActiveStatus, Lifecycle!Severity, LP!Severity,
     Lifecycle!Receipt, LP!Receipt, Lifecycle!Active, LP!Active,
     Lifecycle!CountedIn, LP!CountedIn, Lifecycle!Known, LP!Known,
     Lifecycle!Worst, LP!Worst, Lifecycle!Cardinality, LP!Cardinality
<1>5. Lifecycle!Init => LP!Init
  BY DEF Lifecycle!Init, LP!Init, Lifecycle!NoRow, LP!NoRow, Lifecycle!NoReceipt,
     LP!NoReceipt
<1>6. [Lifecycle!Next]_(Lifecycle!vars) => [LP!Next]_LP!vars
  BY DEF Lifecycle!Next, LP!Next, Lifecycle!vars, LP!vars, Lifecycle!RecordAlerts,
     LP!RecordAlerts, Lifecycle!ChangeStatus, LP!ChangeStatus,
     Lifecycle!PurgeAlerts, LP!PurgeAlerts, Lifecycle!Tick, LP!Tick,
     Lifecycle!IdentityLeft, LP!IdentityLeft, Lifecycle!Known, LP!Known,
     Lifecycle!Active, LP!Active, Lifecycle!Unused, LP!Unused,
     Lifecycle!Target, LP!Target, Lifecycle!Recorded, LP!Recorded,
     Lifecycle!Opened, LP!Opened, Lifecycle!Updated, LP!Updated,
     Lifecycle!Weight, LP!Weight, Lifecycle!Worst, LP!Worst, Lifecycle!Least,
     LP!Least, Lifecycle!Greatest, LP!Greatest, Lifecycle!ValidTransition,
     LP!ValidTransition, Lifecycle!Moved, LP!Moved, Lifecycle!Expired,
     LP!Expired, Lifecycle!PurgedRow, LP!PurgedRow, Lifecycle!NoRow, LP!NoRow,
     Lifecycle!NoReceipt, LP!NoReceipt, Lifecycle!Finding, LP!Finding,
     Lifecycle!ActiveStatus, LP!ActiveStatus, Lifecycle!Severity, LP!Severity
<1>7. QED
  BY <1>2, <1>3, <1>4, <1>5, <1>6

\* The tables and the senders' variables keep their types.
THEOREM TypeCorrect == Spec => []TypeOK
<1>1. Lifecycle!Spec => []TablesInv
  BY Tables, PTL DEF Lifecycle!Spec
<1>2. TablesInv /\ FullInv => TypeOK
  BY DEF TablesInv, FullInv, IInv, Shapes, PermitInv, TypeOK
<1>3. QED
  BY <1>1, <1>2, DeliveryKeepsLifecycle, SpecFullInv, PTL
=============================================================================
