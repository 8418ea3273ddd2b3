------------------------ MODULE WarehouseRefresh_proofs ------------------------
(* What loads and readers guarantee for every list of tables, every order the  *)
(* metrics read in, and any number of loaders, gates, metrics and loads.       *)
EXTENDS WarehouseRefresh, SequenceTheorems, WellFoundedInduction, TLAPS

\* A process holds a lock on every table it is done with.
ProcessInv(p) ==
  /\ pc[p] \in IF p \in Loader THEN {"idle", "stage", "look", "publish", "commit"}
               ELSE {"idle", "read", "commit"}
  /\ at[p] \in Nat \ {0}
  /\ pc[p] \in {"idle", "stage"} => at[p] = 1
  /\ pc[p] \in {"look", "publish", "read"} => at[p] <= Len(Tables(p))
  /\ pc[p] = "commit" => at[p] = Len(Tables(p)) + 1
  /\ \A i \in 1 .. at[p] - 1 : p \in holders[Tables(p)[i]]

\* What a reader has read is what it would read now: no load has committed since its
\* first table, and the snapshot of a gate is one load.
ReaderInv(r) ==
  /\ seen[r] \in Seq(Nat) /\ Len(seen[r]) = at[r] - 1
  /\ \A i \in 1 .. Len(seen[r]) : seen[r][i] = Content(r, Tables(r)[i]).read
  /\ r \in Gate /\ pc[r] # "idle" => \A t, u \in Table : snapshot[r][t] = snapshot[r][u]

\* A loader holds its tables alone.
Exclusive == \A t \in Table : \A l \in Loader : l \in holders[t] => holders[t] = {l}

Shapes ==
  /\ DOMAIN pc = Process /\ DOMAIN at = Process /\ DOMAIN version = Loader
  /\ DOMAIN holders = Table /\ DOMAIN seen = Reader /\ DOMAIN snapshot = Gate
  /\ loads \in Nat /\ \A l \in Loader : version[l] \in Nat
  /\ \A t \in Table : served[t] \in Nat

IInv == /\ Shapes /\ Exclusive /\ ServedIsOneLoad
        /\ \A p \in Process : ProcessInv(p)
        /\ \A r \in Reader : ReaderInv(r)

-----------------------------------------------------------------------------
LEMMA ListFacts ==
  ASSUME NEW p \in Process
  PROVE  /\ Tables(p) \in Seq(Table) /\ Len(Tables(p)) \in Nat \ {0}
         /\ \A i \in 1 .. Len(Tables(p)) : Tables(p)[i] \in Table
<1>1. Tables(p) \in Seq(Table) /\ Tables(p) # <<>>
  BY RefreshAssumption DEF Tables
<1>2. QED
  BY <1>1

LEMMA NothingSeen == <<>> \in Seq(Nat) /\ Len(<<>>) = 0 /\ 1 .. 0 = {}
OBVIOUS

\* What another process does not disturb.
LEMMA OtherProcess ==
  ASSUME NEW q \in Process, ProcessInv(q), pc'[q] = pc[q], at'[q] = at[q],
         \A t \in Table : q \in holders[t] => q \in holders'[t]
  PROVE  ProcessInv(q)'
<1>1. at[q] - 1 <= Len(Tables(q))
  BY ListFacts, RefreshAssumption DEF ProcessInv
<1>2. \A i \in 1 .. at[q] - 1 : Tables(q)[i] \in Table
  BY <1>1, ListFacts DEF ProcessInv
<1>3. QED
  BY <1>2 DEF ProcessInv

LEMMA OtherReader ==
  ASSUME NEW q \in Reader, ReaderInv(q), pc'[q] = pc[q], at'[q] = at[q], seen'[q] = seen[q],
         q \in Gate => snapshot'[q] = snapshot[q], served' = served
  PROVE  ReaderInv(q)'
BY DEF ReaderInv, Content

\* COMMIT or ROLLBACK.
Ended(p) ==
  /\ pc'[p] = "idle" /\ at'[p] = 1
  /\ \A q \in Process \ {p} : pc'[q] = pc[q] /\ at'[q] = at[q]
  /\ \A t \in Table : holders'[t] = holders[t] \ {p}
  /\ \A r \in Reader : seen'[r] = IF r = p THEN <<>> ELSE seen[r]
  /\ \A g \in Gate \ {p} : snapshot'[g] = snapshot[g]
  /\ DOMAIN pc' = Process /\ DOMAIN at' = Process /\ DOMAIN holders' = Table
  /\ DOMAIN seen' = Reader /\ DOMAIN snapshot' = Gate

LEMMA EndFacts == ASSUME Shapes, NEW p \in Process, End(p) PROVE Ended(p)
BY DEF Shapes, End, Goto, Ended

LEMMA EndedProcesses ==
  ASSUME IInv, NEW p \in Process, Ended(p)
  PROVE  Exclusive' /\ \A q \in Process : ProcessInv(q)'
<1>1. Exclusive'
  BY DEF IInv, Exclusive, Ended
<1>2. ProcessInv(p)'
  BY DEF Ended, ProcessInv, IInv
<1>3. ASSUME NEW q \in Process \ {p} PROVE ProcessInv(q)'
  BY <1>3, OtherProcess DEF Ended, IInv
<1>4. QED
  BY <1>1, <1>2, <1>3

LEMMA AbortKeeps ==
  ASSUME IInv, NEW p \in Process, Abort(p)
  PROVE  IInv'
<1>1. Ended(p) /\ UNCHANGED <<served, loads, version>>
  BY EndFacts DEF Abort, IInv
<1>2. Shapes'
  BY <1>1 DEF Shapes, Ended, IInv
<1>3. Exclusive' /\ \A q \in Process : ProcessInv(q)'
  BY <1>1, EndedProcesses
<1>4. ASSUME NEW r \in Reader PROVE ReaderInv(r)'
  <2>1. CASE r = p
    <3>1. pc'[r] = "idle" /\ at'[r] = 1 /\ seen'[r] = <<>>
      BY <1>1, <2>1 DEF Ended
    <3>2. Len(seen'[r]) = 0 /\ seen'[r] \in Seq(Nat) /\ 1 .. Len(seen'[r]) = {}
      BY <3>1, NothingSeen
    <3>3. QED
      BY <3>1, <3>2 DEF ReaderInv
  <2>2. CASE r # p
    <3>1. r \in Process /\ (r \in Gate => r \in Gate \ {p})
      BY <2>2 DEF Process, Reader
    <3>2. QED
      BY <1>1, <2>2, <3>1, OtherReader DEF Ended, IInv
  <2>3. QED
    BY <2>1, <2>2
<1>5. QED
  BY <1>1, <1>2, <1>3, <1>4 DEF IInv, ServedIsOneLoad

-----------------------------------------------------------------------------
\* A statement that takes or waits for a lock moves one process and frees no table.
LEMMA OthersKept ==
  ASSUME IInv, NEW p \in Process, served' = served,
         \A q \in Process \ {p} : pc'[q] = pc[q] /\ at'[q] = at[q],
         \A t \in Table : \A q \in Process : q \in holders[t] => q \in holders'[t],
         \A r \in Reader \ {p} : seen'[r] = seen[r],
         \A g \in Gate \ {p} : snapshot'[g] = snapshot[g]
  PROVE  /\ \A q \in Process \ {p} : ProcessInv(q)'
         /\ \A r \in Reader \ {p} : ReaderInv(r)'
<1>1. \A q \in Process \ {p} : ProcessInv(q)'
  BY OtherProcess DEF IInv
<1>2. ASSUME NEW r \in Reader \ {p} PROVE ReaderInv(r)'
  <2>1. r \in Process \ {p} /\ (r \in Gate => r \in Gate \ {p})
    BY DEF Process
  <2>2. QED
    BY <2>1, OtherReader DEF IInv
<1>3. QED
  BY <1>1, <1>2

LEMMA LoaderIsNoReader == \A l \in Loader : l \in Process /\ l \notin Reader /\ l \notin Gate /\ l \notin Metrics
BY RefreshAssumption DEF Process, Reader

LEMMA LoaderSteps ==
  ASSUME IInv, NEW l \in Loader, StartLoad(l) \/ Stage(l) \/ Look(l) \/ Publish(l)
  PROVE  IInv'
<1>0. /\ l \in Process /\ l \notin Reader /\ ProcessInv(l) /\ Shapes
      /\ Tables(l) = Published
  BY LoaderIsNoReader DEF IInv, Tables
<1>1. UNCHANGED <<served, seen, snapshot>> /\ ServedIsOneLoad'
  BY DEF StartLoad, Stage, Look, Publish, IInv, ServedIsOneLoad
<1>2. /\ \A q \in Process \ {l} : pc'[q] = pc[q] /\ at'[q] = at[q]
      /\ DOMAIN pc' = Process /\ DOMAIN at' = Process
  BY <1>0 DEF StartLoad, Stage, Look, Publish, Goto, Shapes
<1>3. ASSUME Publish(l)
      PROVE  /\ Current(l) \in Table /\ holders'[Current(l)] = {l} /\ DOMAIN holders' = Table
             /\ \A t \in Table \ {Current(l)} : holders'[t] = holders[t]
             /\ holders[Current(l)] \subseteq {l}
  <2>1. at[l] \in 1 .. Len(Tables(l)) /\ Current(l) \in Table
    BY <1>0, <1>3, ListFacts DEF Publish, ProcessInv, Current
  <2>2. holders[Current(l)] \subseteq {l}
    BY <1>3 DEF Publish, Blockers, Locks
  <2>3. holders' = [holders EXCEPT ![Current(l)] = holders[Current(l)] \cup {l}]
    BY <1>3 DEF Publish
  <2>4. QED
    BY <1>0, <2>1, <2>2, <2>3 DEF Shapes
<1>4. /\ \A t \in Table : \A q \in Process : q \in holders[t] => q \in holders'[t]
      /\ Exclusive' /\ DOMAIN holders' = Table
  <2>1. CASE Publish(l)
    BY <1>3, <2>1 DEF IInv, Exclusive
  <2>2. CASE StartLoad(l) \/ Stage(l) \/ Look(l)
    BY <2>2 DEF StartLoad, Stage, Look, locks, IInv, Exclusive, Shapes
  <2>3. QED
    BY <2>1, <2>2
<1>5. Shapes'
  <2>1. /\ DOMAIN version' = Loader /\ loads' \in Nat /\ \A k \in Loader : version'[k] \in Nat
    BY <1>0 DEF StartLoad, Stage, Look, Publish, Shapes
  <2>2. QED
    BY <1>0, <1>1, <1>2, <1>4, <2>1 DEF Shapes
<1>6. ProcessInv(l)'
  <2>1. CASE StartLoad(l)
    BY <1>0, <1>4, <2>1 DEF StartLoad, Goto, ProcessInv, Shapes
  <2>2. CASE Stage(l)
    BY <1>0, <1>4, <2>2, ListFacts DEF Stage, Goto, ProcessInv, Shapes
  <2>3. CASE Look(l)
    BY <1>0, <1>4, <2>3 DEF Look, Goto, ProcessInv, Shapes, locks
  <2>4. CASE Publish(l)
    <3>1. /\ at'[l] = at[l] + 1 /\ pc[l] = "publish"
          /\ pc'[l] = IF at[l] = Len(Published) THEN "commit" ELSE "look"
      BY <1>0, <2>4 DEF Publish, Goto, Shapes
    <3>2. \A i \in 1 .. at[l] : l \in holders'[Tables(l)[i]]
      <4>1. l \in holders'[Tables(l)[at[l]]]
        BY <1>3, <2>4 DEF Current
      <4>2. \A i \in 1 .. at[l] - 1 : Tables(l)[i] \in Table /\ l \in holders[Tables(l)[i]]
        BY <1>0, <3>1, ListFacts DEF ProcessInv
      <4>3. \A i \in 1 .. at[l] - 1 : l \in holders'[Tables(l)[i]]
        BY <1>0, <1>4, <4>2
      <4>4. QED
        BY <1>0, <4>1, <4>3 DEF ProcessInv
    <3>3. QED
      BY <1>0, <3>1, <3>2, ListFacts DEF ProcessInv
  <2>5. QED
    BY <2>1, <2>2, <2>3, <2>4
<1>7. QED
  BY <1>0, <1>1, <1>2, <1>4, <1>5, <1>6, OthersKept DEF IInv

LEMMA NothingMoved ==
  ASSUME IInv, UNCHANGED <<served, loads, pc, at, version, snapshot, seen, holders>>
  PROVE  IInv'
BY DEF IInv, Shapes, Exclusive, ServedIsOneLoad, ProcessInv, ReaderInv, Content

\* A load commits before any reader has read a table: it holds them all.
LEMMA NobodyHasRead ==
  ASSUME IInv, NEW l \in Loader, pc[l] = "commit", NEW r \in Reader
  PROVE  at[r] = 1 /\ Len(seen[r]) = 0
<1>1. /\ l \in Process /\ ProcessInv(l) /\ Tables(l) = Published
      /\ r \in Process \ {l} /\ ProcessInv(r) /\ ReaderInv(r)
  BY LoaderIsNoReader DEF IInv, Tables, Process
<1>2. \A t \in Table : holders[t] = {l}
  <2>1. \A i \in 1 .. Len(Published) : l \in holders[Published[i]]
    <3>1. at[l] - 1 = Len(Published)
      BY <1>1, ListFacts DEF ProcessInv
    <3>2. QED
      BY <1>1, <3>1 DEF ProcessInv
  <2>2. \A t \in Table : \E i \in 1 .. Len(Published) : t = Published[i]
    BY RefreshAssumption DEF Table, Range
  <2>3. QED
    BY <2>1, <2>2 DEF IInv, Exclusive
<1>3. at[r] = 1
  <2>1. SUFFICES ASSUME at[r] # 1 PROVE FALSE
    OBVIOUS
  <2>2. r \in holders[Tables(r)[1]] /\ Tables(r)[1] \in Table
    BY <1>1, <2>1, ListFacts DEF ProcessInv
  <2>3. QED
    BY <1>1, <1>2, <2>2
<1>4. QED
  BY <1>1, <1>3 DEF ReaderInv

LEMMA LoadCommits ==
  ASSUME IInv, NEW l \in Loader, CommitLoad(l)
  PROVE  IInv'
<1>0. l \in Process /\ l \notin Reader /\ Shapes
  BY LoaderIsNoReader DEF IInv
<1>1. Ended(l) /\ UNCHANGED <<loads, version>> /\ pc[l] = "commit"
  BY <1>0, EndFacts DEF CommitLoad
<1>2. \A t \in Table : served'[t] = version[l]
  BY DEF CommitLoad
<1>3. Shapes' /\ ServedIsOneLoad'
  BY <1>0, <1>1, <1>2 DEF Shapes, Ended, ServedIsOneLoad
<1>4. Exclusive' /\ \A q \in Process : ProcessInv(q)'
  BY <1>0, <1>1, EndedProcesses
<1>5. ASSUME NEW r \in Reader PROVE ReaderInv(r)'
  <2>1. r \in Process \ {l} /\ ReaderInv(r) /\ (r \in Gate => r \in Gate \ {l})
    BY <1>0 DEF IInv, Process
  <2>2. Len(seen[r]) = 0 /\ 1 .. Len(seen[r]) = {}
    BY <1>1, NobodyHasRead
  <2>3. pc'[r] = pc[r] /\ at'[r] = at[r] /\ seen'[r] = seen[r]
        /\ (r \in Gate => snapshot'[r] = snapshot[r])
    BY <1>0, <1>1, <2>1 DEF Ended
  <2>4. QED
    BY <2>1, <2>2, <2>3 DEF ReaderInv
<1>6. QED
  BY <1>3, <1>4, <1>5 DEF IInv

LEMMA ReaderIsNoLoader == \A r \in Reader : r \in Process /\ r \notin Loader
BY RefreshAssumption DEF Process

LEMMA ReadingStarts ==
  ASSUME IInv, NEW r \in Reader, StartReading(r)
  PROVE  IInv'
<1>0. r \in Process /\ r \notin Loader /\ ProcessInv(r) /\ ReaderInv(r) /\ Shapes
  BY ReaderIsNoLoader DEF IInv
<1>1. /\ UNCHANGED <<served, loads, at, version, seen, holders>>
      /\ pc[r] = "idle" /\ pc'[r] = "read" /\ DOMAIN pc' = Process
      /\ \A q \in Process \ {r} : pc'[q] = pc[q]
      /\ DOMAIN snapshot' = Gate /\ \A g \in Gate \ {r} : snapshot'[g] = snapshot[g]
      /\ r \in Gate => snapshot'[r] = served
  BY <1>0 DEF StartReading, Goto, Shapes, locks
<1>2. Shapes' /\ Exclusive' /\ ServedIsOneLoad'
  BY <1>0, <1>1 DEF IInv, Shapes, Exclusive, ServedIsOneLoad
<1>3. at[r] = 1 /\ Len(seen[r]) = 0 /\ 1 .. Len(seen[r]) = {}
  BY <1>0, <1>1 DEF ProcessInv, ReaderInv
<1>4. ProcessInv(r)'
  BY <1>0, <1>1, <1>3, ListFacts DEF ProcessInv
<1>5. ReaderInv(r)'
  BY <1>0, <1>1, <1>3 DEF ReaderInv, IInv, ServedIsOneLoad
<1>6. QED
  BY <1>0, <1>1, <1>2, <1>4, <1>5, OthersKept DEF IInv

LEMMA TableIsRead ==
  ASSUME IInv, NEW r \in Reader, ReadTable(r)
  PROVE  IInv'
<1>0. r \in Process /\ r \notin Loader /\ ProcessInv(r) /\ ReaderInv(r) /\ Shapes
  BY ReaderIsNoLoader DEF IInv
<1> DEFINE t == Current(r)
<1>1. /\ UNCHANGED <<served, loads, version, snapshot>> /\ pc[r] = "read"
      /\ pc'[r] = IF at[r] = Len(Tables(r)) THEN "commit" ELSE "read"
      /\ at'[r] = at[r] + 1
      /\ \A q \in Process \ {r} : pc'[q] = pc[q] /\ at'[q] = at[q]
      /\ DOMAIN pc' = Process /\ DOMAIN at' = Process
  BY <1>0 DEF ReadTable, Goto, Shapes
<1>2. at[r] \in 1 .. Len(Tables(r)) /\ t \in Table /\ t = Tables(r)[at[r]]
  BY <1>0, <1>1, ListFacts DEF ProcessInv, Current
<1>3. /\ DOMAIN seen' = Reader /\ seen'[r] = Append(seen[r], Content(r, t).read)
      /\ \A q \in Reader \ {r} : seen'[q] = seen[q]
  BY <1>0 DEF ReadTable, Shapes
<1>4. /\ DOMAIN holders' = Table /\ holders'[t] = holders[t] \cup {r}
      /\ \A u \in Table \ {t} : holders'[u] = holders[u]
  <2>1. holders' = [holders EXCEPT ![t] = holders[t] \cup {r}]
    BY DEF ReadTable, Content
  <2>2. QED
    BY <1>0, <1>2, <2>1 DEF Shapes
<1>5. \A l \in Loader : l \notin holders[t]
  BY <1>0, <1>1 DEF ReadTable, Blockers, Locks
<1>6. Shapes' /\ Exclusive' /\ ServedIsOneLoad'
  <2>1. Exclusive'
    BY <1>0, <1>4, <1>5 DEF IInv, Exclusive
  <2>2. QED
    BY <1>0, <1>1, <1>3, <1>4, <2>1 DEF IInv, Shapes, ServedIsOneLoad
<1>7. ProcessInv(r)'
  <2>1. \A i \in 1 .. at[r] : r \in holders'[Tables(r)[i]]
    <3>1. \A i \in 1 .. at[r] - 1 : Tables(r)[i] \in Table /\ r \in holders[Tables(r)[i]]
      BY <1>0, <1>2, ListFacts DEF ProcessInv
    <3>2. \A i \in 1 .. at[r] - 1 : r \in holders'[Tables(r)[i]]
      BY <1>4, <3>1
    <3>3. QED
      BY <1>0, <1>2, <1>4, <3>2 DEF ProcessInv
  <2>2. at[r] \in Nat \ {0} /\ at'[r] \in Nat \ {0} /\ at'[r] - 1 = at[r]
    BY <1>0, <1>1 DEF ProcessInv
  <2>3. /\ at[r] = Len(Tables(r)) => pc'[r] = "commit"
        /\ at[r] # Len(Tables(r)) => pc'[r] = "read" /\ at'[r] <= Len(Tables(r))
    BY <1>1, <1>2, <2>2, ListFacts, <1>0
  <2>4. \A i \in 1 .. at'[r] - 1 : r \in holders'[Tables(r)[i]]
    BY <2>1, <2>2
  <2>5. QED
    BY <1>0, <1>1, <2>2, <2>3, <2>4 DEF ProcessInv
<1>8. ReaderInv(r)'
  <2>1. Content(r, t).read \in Nat
    BY <1>0, <1>2 DEF Content, Shapes
  <2>2. /\ seen'[r] \in Seq(Nat) /\ Len(seen'[r]) = at[r]
        /\ seen'[r][at[r]] = Content(r, t).read
        /\ \A i \in 1 .. at[r] - 1 : seen'[r][i] = seen[r][i]
    BY <1>0, <1>3, <2>1, <1>2 DEF ReaderInv, ProcessInv
  <2>3. ASSUME NEW i \in 1 .. Len(seen'[r])
        PROVE  seen'[r][i] = Content(r, Tables(r)[i]).read
    <3>1. CASE i = at[r]
      BY <1>2, <2>2, <3>1
    <3>2. CASE i # at[r]
      <4>1. i \in 1 .. at[r] - 1 /\ Len(seen[r]) = at[r] - 1
        BY <1>0, <2>2, <3>2 DEF ReaderInv, ProcessInv
      <4>2. QED
        BY <1>0, <2>2, <4>1 DEF ReaderInv
    <3>3. QED
      BY <3>1, <3>2
  <2>4. \A i \in 1 .. Len(seen'[r]) : Content(r, Tables(r)[i])'.read = Content(r, Tables(r)[i]).read
    BY <1>1 DEF Content
  <2>5. Len(seen'[r]) = at'[r] - 1
    BY <1>0, <1>1, <2>2 DEF ProcessInv
  <2>6. QED
    BY <1>0, <1>1, <2>2, <2>3, <2>4, <2>5 DEF ReaderInv
<1>9. \A u \in Table : \A q \in Process : q \in holders[u] => q \in holders'[u]
  BY <1>4
<1>10. QED
  BY <1>0, <1>1, <1>3, <1>6, <1>7, <1>8, <1>9, OthersKept DEF IInv

-----------------------------------------------------------------------------
LEMMA InitIInv == Init => IInv
<1> SUFFICES ASSUME Init PROVE IInv
  OBVIOUS
<1>1. Shapes /\ Exclusive /\ ServedIsOneLoad
  BY DEF Init, Shapes, Exclusive, ServedIsOneLoad
<1>2. ASSUME NEW p \in Process PROVE ProcessInv(p)
  BY DEF Init, ProcessInv
<1>3. ASSUME NEW r \in Reader PROVE ReaderInv(r)
  <2>1. seen[r] = <<>> /\ pc[r] = "idle" /\ at[r] = 1
    BY ReaderIsNoLoader DEF Init
  <2>2. QED
    BY <2>1, NothingSeen DEF ReaderInv
<1>4. QED
  BY <1>1, <1>2, <1>3 DEF IInv

LEMMA NextIInv == IInv /\ [Next]_vars => IInv'
<1> SUFFICES ASSUME IInv, [Next]_vars PROVE IInv'
  OBVIOUS
<1>1. ASSUME NEW p \in Process, Abort(p) PROVE IInv'
  BY <1>1, AbortKeeps
<1>2. ASSUME NEW p, Wait(p) PROVE IInv'
  BY <1>2, NothingMoved DEF Wait
<1>3. ASSUME NEW l \in Loader, StartLoad(l) \/ LoaderStep(l) PROVE IInv'
  BY <1>1, <1>2, <1>3, LoaderIsNoReader, LoaderSteps, LoadCommits DEF LoaderStep, NameTaken
<1>4. ASSUME NEW r \in Reader, StartReading(r) \/ ReaderStep(r) PROVE IInv'
  BY <1>1, <1>2, <1>4, ReaderIsNoLoader, ReadingStarts, TableIsRead
     DEF ReaderStep, TableMissing, EndReading
<1>5. ASSUME NEW p \in Process, Fail(p) PROVE IInv'
  BY <1>1, <1>5 DEF Fail
<1>6. ASSUME NEW S \in SUBSET Process, BreakDeadlock(S) PROVE IInv'
  BY <1>1, <1>6 DEF BreakDeadlock
<1>7. CASE UNCHANGED vars
  BY <1>7, NothingMoved DEF vars, locks
<1>8. QED
  BY <1>3, <1>4, <1>5, <1>6, <1>7 DEF Next

\* What a reader has read is one load: all tables have the contents of one load, and
\* the snapshot of a gate is one.
LEMMA ReadsAreOne == IInv => ReadersSeeOneLoad
<1> SUFFICES ASSUME IInv, NEW r \in Reader, NEW i \in DOMAIN seen[r], NEW j \in DOMAIN seen[r]
             PROVE  seen[r][i] = seen[r][j]
  BY DEF ReadersSeeOneLoad
<1>1. r \in Process /\ ProcessInv(r) /\ ReaderInv(r) /\ DOMAIN seen[r] = 1 .. Len(seen[r])
  BY ReaderIsNoLoader DEF IInv, ReaderInv
<1>2. i \in 1 .. Len(Tables(r)) /\ j \in 1 .. Len(Tables(r)) /\ at[r] # 1
  BY <1>1, ListFacts, ReaderIsNoLoader DEF ProcessInv, ReaderInv
<1>3. Tables(r)[i] \in Table /\ Tables(r)[j] \in Table
  BY <1>1, <1>2, ListFacts
<1>4. pc[r] # "idle"
  BY <1>1, <1>2 DEF ProcessInv
<1>5. Content(r, Tables(r)[i]).read = Content(r, Tables(r)[j]).read
  BY <1>1, <1>3, <1>4 DEF Content, ReaderInv, IInv, ServedIsOneLoad
<1>6. QED
  BY <1>1, <1>5 DEF ReaderInv

-----------------------------------------------------------------------------
\* The committed tables come from one load, however many loads race, fail or wait.
THEOREM ServedAsAWhole == Spec => []ServedIsOneLoad
<1>1. IInv => ServedIsOneLoad
  BY DEF IInv
<1>2. QED
  BY <1>1, InitIInv, NextIInv, PTL DEF Spec

\* No transaction reads two loads, though the metrics have no snapshot: the locks on
\* what they have read keep every load from committing.
THEOREM ReadAsAWhole == Spec => []ReadersSeeOneLoad
<1>1. QED
  BY InitIInv, NextIInv, ReadsAreOne, PTL DEF Spec

-----------------------------------------------------------------------------
(* The queues.                                                               *)

\* A queue is a list of processes whose next statement locks the table.
QueueInv(t) ==
  /\ queue[t] \in Seq(Process)
  /\ \A i, j \in 1 .. Len(queue[t]) : queue[t][i] = queue[t][j] => i = j
  /\ \A i \in 1 .. Len(queue[t]) :
       LET p == queue[t][i] IN pc[p] \in {"publish", "read"} /\ Tables(p)[at[p]] = t

\* A process holds only tables it is done with.
HoldInv(p) == \A t \in Table : p \in holders[t] => \E i \in 1 .. at[p] - 1 : Tables(p)[i] = t

QueuesInv ==
  /\ DOMAIN queue = Table
  /\ \A t \in Table : QueueInv(t)
  /\ \A p \in Process : HoldInv(p)

\* A request that leaves its queue leaves the others in their order.
LEMMA Leaves ==
  ASSUME NEW q \in Seq(Process), NEW p, NEW r, r = RemoveFirst(q, p),
         \A i, j \in 1 .. Len(q) : q[i] = q[j] => i = j
  PROVE  /\ r \in Seq(Process)
         /\ \A i, j \in 1 .. Len(r) : r[i] = r[j] => i = j
         /\ \A i \in 1 .. Len(r) : r[i] # p /\ \E j \in 1 .. Len(q) : r[i] = q[j]
<1>1. CASE \A i \in 1 .. Len(q) : q[i] # p
  <2>1. r = q
    BY <1>1 DEF RemoveFirst
  <2>2. QED
    BY <1>1, <2>1
<1>2. CASE \E i \in 1 .. Len(q) : q[i] = p
  <2>1. PICK m \in 1 .. Len(q) : q[m] = p
    BY <1>2
  <2>2. SelectInSeq(q, LAMBDA v : v = p) = m
    <3>1. {i \in 1 .. Len(q) : q[i] = p} = {m}
      BY <2>1
    <3>2. Min({m}) = m
      BY DEF Min
    <3>3. QED
      BY <3>1, <3>2 DEF SelectInSeq
  <2>3. r = SubSeq(q, 1, m - 1) \o SubSeq(q, m + 1, Len(q))
    BY <1>2, <2>2 DEF RemoveFirst, RemoveAt
  <2>4. /\ r \in Seq(Process) /\ Len(r) = Len(q) - 1
        /\ \A i \in 1 .. Len(r) : r[i] = IF i < m THEN q[i] ELSE q[i + 1]
    <3>0. Len(q) \in Nat /\ m \in 1 .. Len(q)
      OBVIOUS
    <3>8. PICK a : a = SubSeq(q, 1, m - 1)
      OBVIOUS
    <3>9. PICK b : b = SubSeq(q, m + 1, Len(q))
      OBVIOUS
    <3>1. a \in Seq(Process) /\ Len(a) = m - 1 /\ \A i \in 1 .. m - 1 : a[i] = q[i]
      BY <3>0, <3>8
    <3>2. b \in Seq(Process) /\ Len(b) = Len(q) - m /\ \A i \in 1 .. Len(q) - m : b[i] = q[m + i]
      BY <3>0, <3>9
    <3>3. r = a \o b
      BY <2>3, <3>8, <3>9
    <3>4. r \in Seq(Process) /\ Len(r) = Len(a) + Len(b)
      <4>1. a \in Seq(Process) /\ b \in Seq(Process)
        BY <3>1, <3>2
      <4>2. a \o b \in Seq(Process)
        BY <4>1
      <4>3. Len(a \o b) = Len(a) + Len(b)
        BY <4>1
      <4>4. QED
        BY <3>3, <4>2, <4>3
    <3>5. Len(r) \in Nat /\ Len(r) = Len(q) - 1
      BY <3>0, <3>1, <3>2, <3>4
    <3>6. ASSUME NEW i \in 1 .. Len(r) PROVE r[i] = IF i < m THEN q[i] ELSE q[i + 1]
      <4>1. i \in 1 .. Len(a) + Len(b) /\ Len(a) \in Nat /\ Len(b) \in Nat
        BY <3>1, <3>2, <3>4
      <4>2. r[i] = IF i <= Len(a) THEN a[i] ELSE b[i - Len(a)]
        BY <3>1, <3>2, <3>3, <4>1
      <4>3. CASE i < m
        BY <3>0, <3>1, <4>1, <4>2, <4>3
      <4>4. CASE ~(i < m)
        <5>1. i - Len(a) \in 1 .. Len(q) - m /\ m + (i - Len(a)) = i + 1 /\ ~(i <= Len(a))
          BY <3>0, <3>1, <3>2, <4>1, <4>4
        <5>2. QED
          BY <3>2, <4>2, <4>4, <5>1
      <4>5. QED
        BY <4>3, <4>4
    <3>7. QED
      BY <3>4, <3>5, <3>6
  <2>5. ASSUME NEW i \in 1 .. Len(r)
        PROVE  \E k \in 1 .. Len(q) : k = (IF i < m THEN i ELSE i + 1) /\ r[i] = q[k] /\ k # m
    <3>1. i \in Nat /\ Len(q) \in Nat /\ Len(r) = Len(q) - 1 /\ m \in Nat
      BY <2>4
    <3>2. CASE i < m
      BY <2>4, <3>1, <3>2
    <3>3. CASE ~(i < m)
      <4>1. i + 1 \in 1 .. Len(q) /\ i + 1 # m /\ r[i] = q[i + 1]
        BY <2>4, <3>1, <3>3
      <4>2. QED
        BY <3>3, <4>1
    <3>4. QED
      BY <3>2, <3>3
  <2>6. ASSUME NEW i \in 1 .. Len(r), NEW j \in 1 .. Len(r), r[i] = r[j] PROVE i = j
    <3>1. (IF i < m THEN i ELSE i + 1) = (IF j < m THEN j ELSE j + 1)
      BY <2>5, <2>6
    <3>2. i \in Nat /\ j \in Nat /\ m \in Nat
      BY <2>4
    <3>3. QED
      BY <3>1, <3>2
  <2>7. \A i \in 1 .. Len(r) : r[i] # p /\ \E j \in 1 .. Len(q) : r[i] = q[j]
    BY <2>1, <2>5
  <2>8. QED
    BY <2>4, <2>6, <2>7
<1>3. QED
  BY <1>1, <1>2

\* A step of one process takes its request out of the queues, or it had none.
LEMMA OneMoves ==
  ASSUME QueuesInv, NEW p \in Process,
         \A q \in Process \ {p} : pc'[q] = pc[q] /\ at'[q] = at[q],
         DOMAIN queue' = Table,
         \/ pc[p] \notin {"publish", "read"} /\ \A t \in Table : queue'[t] = queue[t]
         \/ \A t \in Table : queue'[t] = RemoveFirst(queue[t], p),
         \A t \in Table : \A q \in Process \ {p} : q \in holders'[t] => q \in holders[t],
         HoldInv(p)'
  PROVE  QueuesInv'
<1>1. ASSUME NEW q \in Process \ {p}, NEW t \in Table,
             pc[q] \in {"publish", "read"}, Tables(q)[at[q]] = t
      PROVE  pc'[q] \in {"publish", "read"} /\ Tables(q)[at'[q]] = t
  BY <1>1
<1>2. ASSUME NEW t \in Table PROVE QueueInv(t)'
  <2>1. QueueInv(t)
    BY DEF QueuesInv
  <2>2. CASE pc[p] \notin {"publish", "read"} /\ queue'[t] = queue[t]
    <3>1. \A i \in 1 .. Len(queue[t]) : queue[t][i] \in Process \ {p}
      BY <2>1, <2>2 DEF QueueInv
    <3>2. QED
      BY <1>1, <2>1, <2>2, <3>1 DEF QueueInv
  <2>3. CASE queue'[t] = RemoveFirst(queue[t], p)
    <3>1. /\ queue'[t] \in Seq(Process)
          /\ \A i, j \in 1 .. Len(queue'[t]) : queue'[t][i] = queue'[t][j] => i = j
          /\ \A i \in 1 .. Len(queue'[t]) :
               queue'[t][i] # p /\ \E j \in 1 .. Len(queue[t]) : queue'[t][i] = queue[t][j]
      BY <2>1, <2>3, Leaves DEF QueueInv
    <3>2. ASSUME NEW i \in 1 .. Len(queue'[t]), NEW q, q = queue'[t][i]
          PROVE  pc'[q] \in {"publish", "read"} /\ Tables(q)[at'[q]] = t
      <4>1. PICK j \in 1 .. Len(queue[t]) : q = queue[t][j]
        BY <3>1, <3>2
      <4>2. q \in Process /\ q # p
        <5>1. q # p
          BY <3>1, <3>2
        <5>2. queue[t] \in Seq(Process)
          BY <2>1 DEF QueueInv
        <5>3. q \in Process
          BY <4>1, <5>2
        <5>4. QED
          BY <5>1, <5>3
      <4>3. pc[q] \in {"publish", "read"} /\ Tables(q)[at[q]] = t
        BY <2>1, <4>1 DEF QueueInv
      <4>4. QED
        BY <1>1, <4>2, <4>3
    <3>3. QED
      BY <3>1, <3>2 DEF QueueInv, Tables
  <2>4. QED
    BY <2>2, <2>3
<1>3. ASSUME NEW q \in Process PROVE HoldInv(q)'
  BY <1>3 DEF QueuesInv, HoldInv, Tables
<1>4. QED
  BY <1>2, <1>3 DEF QueuesInv

\* What follows the end of a transaction.
LEMMA EndQueues ==
  ASSUME Shapes, QueuesInv, NEW p \in Process, End(p)
  PROVE  QueuesInv'
<1>1. Ended(p)
  BY EndFacts
<1>2. DOMAIN queue' = Table /\ \A t \in Table : queue'[t] = RemoveFirst(queue[t], p)
  BY DEF End, Dequeued
<1>3. HoldInv(p)'
  BY <1>1 DEF HoldInv, Ended
<1>4. QED
  BY <1>1, <1>2, <1>3, OneMoves DEF Ended

\* A request goes to the end of the queue of the table its statement locks.
LEMMA WaitQueues ==
  ASSUME IInv, QueuesInv, NEW p \in Process, Wait(p)
  PROVE  QueuesInv'
<1>1. PICK t : t = Tables(p)[at[p]]
  OBVIOUS
<1>2. /\ pc[p] \in {"publish", "read"} /\ UNCHANGED <<pc, at, holders>>
      /\ queue' = [queue EXCEPT ![t] = Append(queue[t], p)]
  BY <1>1 DEF Wait, Blockers, Locks, Current
<1>3. ProcessInv(p)
  BY DEF IInv
<1>4. t \in Table
  BY <1>1, <1>2, <1>3, ListFacts DEF ProcessInv
<1>5. QueueInv(t) /\ \A i \in 1 .. Len(queue[t]) : queue[t][i] # p
  BY <1>4 DEF QueuesInv, Wait, Waiting, Range, QueueInv
<1>6. /\ queue'[t] = Append(queue[t], p) /\ DOMAIN queue' = Table
      /\ \A u \in Table \ {t} : queue'[u] = queue[u]
  BY <1>2, <1>4 DEF QueuesInv
<1>7. QueueInv(t)'
  <2>1. queue[t] \in Seq(Process)
    BY <1>5 DEF QueueInv
  <2>2. /\ queue'[t] \in Seq(Process) /\ Len(queue'[t]) = Len(queue[t]) + 1
        /\ queue'[t][Len(queue[t]) + 1] = p
        /\ \A i \in 1 .. Len(queue[t]) : queue'[t][i] = queue[t][i]
    BY <1>6, <2>1
  <2>3. ASSUME NEW i \in 1 .. Len(queue'[t]), NEW j \in 1 .. Len(queue'[t]),
               queue'[t][i] = queue'[t][j]
        PROVE  i = j
    <3>1. \A k \in 1 .. Len(queue'[t]) : k = Len(queue[t]) + 1 \/ k \in 1 .. Len(queue[t])
      BY <2>1, <2>2
    <3>2. \A k, m \in 1 .. Len(queue[t]) : queue[t][k] = queue[t][m] => k = m
      BY <1>5 DEF QueueInv
    <3>3. \A k \in 1 .. Len(queue[t]) : queue'[t][k] # p
      BY <1>5, <2>2
    <3>4. CASE i \in 1 .. Len(queue[t]) /\ j \in 1 .. Len(queue[t])
      BY <2>2, <2>3, <3>2, <3>4
    <3>5. QED
      BY <2>2, <2>3, <3>1, <3>3, <3>4
  <2>4. ASSUME NEW i \in 1 .. Len(queue'[t]), NEW q, q = queue'[t][i]
        PROVE  pc[q] \in {"publish", "read"} /\ Tables(q)[at[q]] = t
    <3>1. CASE i = Len(queue[t]) + 1
      BY <1>1, <1>2, <2>2, <2>4, <3>1
    <3>2. CASE i # Len(queue[t]) + 1
      <4>1. i \in 1 .. Len(queue[t]) /\ q = queue[t][i]
        BY <2>1, <2>2, <2>4, <3>2
      <4>2. QED
        BY <1>5, <4>1 DEF QueueInv
    <3>3. QED
      BY <3>1, <3>2
  <2>5. QED
    BY <1>2, <2>2, <2>3, <2>4 DEF QueueInv, Tables
<1>8. ASSUME NEW u \in Table \ {t} PROVE QueueInv(u)'
  BY <1>2, <1>6 DEF QueuesInv, QueueInv, Tables
<1>9. \A q \in Process : HoldInv(q)'
  BY <1>2 DEF QueuesInv, HoldInv, Tables
<1>10. QED
  BY <1>6, <1>7, <1>8, <1>9 DEF QueuesInv

\* A loader moves on within its transaction.
LEMMA LoaderQueues ==
  ASSUME IInv, QueuesInv, NEW l \in Loader, StartLoad(l) \/ Stage(l) \/ Look(l) \/ Publish(l)
  PROVE  QueuesInv'
<1>0. l \in Process /\ ProcessInv(l) /\ Shapes /\ HoldInv(l) /\ DOMAIN queue = Table
  BY LoaderIsNoReader DEF IInv, QueuesInv
<1>1. \A q \in Process \ {l} : pc'[q] = pc[q] /\ at'[q] = at[q]
  BY <1>0 DEF StartLoad, Stage, Look, Publish, Goto, Shapes
<1>2. CASE StartLoad(l) \/ Stage(l) \/ Look(l)
  <2>1. pc[l] \notin {"publish", "read"} /\ UNCHANGED <<at, queue, holders>>
    BY <1>2 DEF StartLoad, Stage, Look, locks
  <2>2. HoldInv(l)'
    BY <1>0, <2>1 DEF HoldInv, Tables
  <2>3. QED
    BY <1>0, <1>1, <2>1, <2>2, OneMoves
<1>3. CASE Publish(l)
  <2>1. PICK t : t = Tables(l)[at[l]]
    OBVIOUS
  <2>2. /\ at'[l] = at[l] + 1 /\ pc[l] = "publish"
        /\ holders' = [holders EXCEPT ![t] = holders[t] \cup {l}]
        /\ DOMAIN queue' = Table
        /\ \A u \in Table : queue'[u] = RemoveFirst(queue[u], l)
    BY <1>0, <1>3, <2>1 DEF Publish, Shapes, Dequeued, Current
  <2>3. at[l] \in 1 .. Len(Tables(l)) /\ at[l] \in Nat /\ t \in Table
    BY <1>0, <2>1, <2>2, ListFacts DEF ProcessInv
  <2>4. /\ \A u \in Table : \A q \in Process \ {l} : q \in holders'[u] => q \in holders[u]
        /\ \A u \in Table : l \in holders'[u] => l \in holders[u] \/ u = t
    BY <1>0, <2>2, <2>3 DEF Shapes
  <2>5. ASSUME NEW u \in Table, l \in holders'[u]
        PROVE  \E i \in 1 .. at'[l] - 1 : Tables(l)[i] = u
    <3>1. CASE l \in holders[u]
      BY <1>0, <2>2, <2>3, <3>1 DEF HoldInv
    <3>2. CASE u = t
      BY <2>1, <2>2, <2>3, <3>2
    <3>3. QED
      BY <2>4, <2>5, <3>1, <3>2
  <2>6. HoldInv(l)'
    BY <2>5 DEF HoldInv, Tables
  <2>7. QED
    BY <1>0, <1>1, <2>2, <2>4, <2>6, OneMoves
<1>4. QED
  BY <1>2, <1>3

LEMMA StartQueues ==
  ASSUME IInv, QueuesInv, NEW r \in Reader, StartReading(r)
  PROVE  QueuesInv'
<1>0. r \in Process /\ Shapes /\ HoldInv(r) /\ DOMAIN queue = Table
  BY ReaderIsNoLoader DEF IInv, QueuesInv
<1>1. /\ pc[r] \notin {"publish", "read"} /\ UNCHANGED <<at, queue, holders>>
      /\ \A q \in Process \ {r} : pc'[q] = pc[q]
  BY <1>0 DEF StartReading, Goto, Shapes, locks
<1>2. HoldInv(r)'
  BY <1>0, <1>1 DEF HoldInv, Tables
<1>3. QED
  BY <1>0, <1>1, <1>2, OneMoves

LEMMA ReadQueues ==
  ASSUME IInv, QueuesInv, NEW r \in Reader, ReadTable(r)
  PROVE  QueuesInv'
<1>0. r \in Process /\ ProcessInv(r) /\ Shapes /\ HoldInv(r) /\ DOMAIN queue = Table
  BY ReaderIsNoLoader DEF IInv, QueuesInv
<1>1. PICK t : t = Tables(r)[at[r]]
  OBVIOUS
<1>2. /\ \A q \in Process \ {r} : pc'[q] = pc[q] /\ at'[q] = at[q]
      /\ at'[r] = at[r] + 1 /\ pc[r] = "read"
      /\ holders' = [holders EXCEPT ![t] = holders[t] \cup {r}]
      /\ DOMAIN queue' = Table
      /\ \A u \in Table : queue'[u] = RemoveFirst(queue[u], r)
  BY <1>0, <1>1 DEF ReadTable, Shapes, Dequeued, Current, Goto, Content
<1>3. at[r] \in 1 .. Len(Tables(r)) /\ at[r] \in Nat /\ t \in Table
  BY <1>0, <1>1, <1>2, ListFacts, ReaderIsNoLoader DEF ProcessInv
<1>4. /\ \A u \in Table : \A q \in Process \ {r} : q \in holders'[u] => q \in holders[u]
      /\ \A u \in Table : r \in holders'[u] => r \in holders[u] \/ u = t
  BY <1>0, <1>2, <1>3 DEF Shapes
<1>5. ASSUME NEW u \in Table, r \in holders'[u]
      PROVE  \E i \in 1 .. at'[r] - 1 : Tables(r)[i] = u
  <2>1. CASE r \in holders[u]
    BY <1>0, <1>2, <1>3, <2>1 DEF HoldInv
  <2>2. CASE u = t
    BY <1>1, <1>2, <1>3, <2>2
  <2>3. QED
    BY <1>4, <1>5, <2>1, <2>2
<1>6. HoldInv(r)'
  BY <1>5 DEF HoldInv, Tables
<1>7. QED
  BY <1>0, <1>2, <1>4, <1>6, OneMoves

LEMMA InitQueues == Init => QueuesInv
<1> SUFFICES ASSUME Init PROVE QueuesInv
  OBVIOUS
<1>1. DOMAIN queue = Table /\ \A t \in Table : queue[t] = <<>> /\ holders[t] = {}
  BY DEF Init
<1>2. \A t \in Table : QueueInv(t)
  <2>1. <<>> \in Seq(Process) /\ 1 .. Len(<<>>) = {}
    OBVIOUS
  <2>2. QED
    BY <1>1, <2>1 DEF QueueInv
<1>3. \A p \in Process : HoldInv(p)
  BY <1>1 DEF HoldInv
<1>4. QED
  BY <1>1, <1>2, <1>3 DEF QueuesInv

LEMMA NextQueues == IInv /\ QueuesInv /\ [Next]_vars => QueuesInv'
<1> SUFFICES ASSUME IInv, QueuesInv, [Next]_vars PROVE QueuesInv'
  OBVIOUS
<1>1. ASSUME NEW p \in Process, End(p) PROVE QueuesInv'
  BY <1>1, EndQueues DEF IInv
<1>2. ASSUME NEW p \in Process, Wait(p) PROVE QueuesInv'
  BY <1>2, WaitQueues
<1>3. ASSUME NEW l \in Loader, StartLoad(l) \/ LoaderStep(l) PROVE QueuesInv'
  BY <1>1, <1>2, <1>3, LoaderIsNoReader, LoaderQueues DEF LoaderStep, NameTaken, Abort, CommitLoad
<1>4. ASSUME NEW r \in Reader, StartReading(r) \/ ReaderStep(r) PROVE QueuesInv'
  BY <1>1, <1>2, <1>4, ReaderIsNoLoader, StartQueues, ReadQueues
     DEF ReaderStep, TableMissing, EndReading, Abort
<1>5. ASSUME NEW p \in Process, Fail(p) PROVE QueuesInv'
  BY <1>1, <1>5 DEF Fail, Abort
<1>6. ASSUME NEW S \in SUBSET Process, BreakDeadlock(S) PROVE QueuesInv'
  BY <1>1, <1>6 DEF BreakDeadlock, Abort
<1>7. CASE UNCHANGED vars
  BY <1>7 DEF vars, locks, QueuesInv, QueueInv, HoldInv, Tables
<1>8. QED
  BY <1>3, <1>4, <1>5, <1>6, <1>7 DEF Next

-----------------------------------------------------------------------------
(* Rings.                                                                    *)

LEMMA LeastNumber ==
  ASSUME NEW N \in SUBSET Nat, N # {}
  PROVE  \E m \in N : \A n \in N : m <= n
<1>1. PICK m \in N : \A n \in N : <<n, m>> \notin OpToRel(<, Nat)
  BY NatLessThanWellFounded, WFMin
<1>2. \A n \in N : ~(n < m)
  BY <1>1 DEF OpToRel
<1>3. QED
  BY <1>2

LEMMA GreatestNumber ==
  ASSUME NEW k \in Nat, NEW I \in SUBSET (1 .. k), I # {}
  PROVE  \E m \in I : \A n \in I : n <= m
<1> DEFINE D == {k - i : i \in I}
<1>1. D \in SUBSET Nat /\ D # {}
  <2>1. \A i \in I : k - i \in Nat
    OBVIOUS
  <2>2. PICK i \in I : TRUE
    OBVIOUS
  <2>3. k - i \in D
    OBVIOUS
  <2>4. QED
    BY <2>1, <2>3
<1>2. PICK d \in D : \A e \in D : d <= e
  <2> HIDE DEF D
  <2>1. QED
    BY <1>1, LeastNumber
<1>3. PICK m \in I : d = k - m
  OBVIOUS
<1>4. ASSUME NEW n \in I PROVE n <= m
  <2>1. k - n \in D /\ n \in Nat /\ m \in Nat
    OBVIOUS
  <2>2. k - m <= k - n
    BY <1>2, <1>3, <2>1
  <2>3. QED
    BY <2>1, <2>2
<1>5. QED
  BY <1>4

\* Where a loader or a gate waits, and how far it has come.
LEMMA WaitsAt ==
  ASSUME IInv, QueuesInv, NEW p \in Process, p \notin Metrics, Waiting(p)
  PROVE  /\ Tables(p) = Published /\ at[p] \in 1 .. Len(Published)
         /\ at[p] \in Nat
         /\ Current(p) = Published[at[p]] /\ Current(p) \in Table
         /\ \E i \in 1 .. Len(queue[Current(p)]) : queue[Current(p)][i] = p
<1>1. Tables(p) = Published /\ ProcessInv(p)
  BY DEF Tables, IInv
<1>2. PICK t \in Table : p \in Range(queue[t])
  BY DEF Waiting
<1>3. PICK i \in 1 .. Len(queue[t]) : queue[t][i] = p
  BY <1>2 DEF QueuesInv, QueueInv, Range
<1>4. pc[p] \in {"publish", "read"} /\ Tables(p)[at[p]] = t
  BY <1>3 DEF QueuesInv, QueueInv
<1>5. at[p] \in 1 .. Len(Published) /\ at[p] \in Nat
  BY <1>1, <1>4, ListFacts DEF ProcessInv
<1>6. QED
  BY <1>1, <1>2, <1>3, <1>4, <1>5 DEF Current

LEMMA PublishedOnce ==
  \A i, j \in 1 .. Len(Published) : Published[i] = Published[j] => i = j
<1>1. Published \in Seq(Table) /\ IsInjective(Published)
  BY RefreshAssumption
<1>2. DOMAIN Published = 1 .. Len(Published)
  BY <1>1
<1>3. QED
  BY <1>1, <1>2 DEF IsInjective

\* Of the transactions in a ring without metrics, take those that have come least far.
\* They wait for the same table, and the last of them in its queue blocks none of the
\* ring: whoever it blocked would have come less far or stand behind it.
LEMMA NoRing ==
  ASSUME IInv, QueuesInv, NEW S \in SUBSET Process, Deadlocked(S), S \cap Metrics = {}
  PROVE  FALSE
<1>1. /\ S # {} /\ \A p \in S : p \in Process /\ p \notin Metrics /\ Waiting(p)
      /\ \A p \in S : \E q \in S : p \in Blockers(q)
  BY DEF Deadlocked
<1>2. ASSUME NEW p \in S
      PROVE  /\ Tables(p) = Published /\ at[p] \in 1 .. Len(Published)
             /\ at[p] \in Nat
             /\ Current(p) = Published[at[p]] /\ Current(p) \in Table
             /\ \E i \in 1 .. Len(queue[Current(p)]) : queue[Current(p)][i] = p
  BY <1>1, WaitsAt
<1>3. PICK f \in S : \A p \in S : at[f] <= at[p]
  <2> DEFINE N == {at[p] : p \in S}
  <2>1. N \in SUBSET Nat /\ N # {}
    BY <1>1, <1>2
  <2>2. PICK m \in N : \A n \in N : m <= n
    <3> HIDE DEF N
    <3>1. QED
      BY <2>1, LeastNumber
  <2>3. QED
    BY <2>2
<1>4. PICK t : t = Current(f)
  OBVIOUS
<1>5. t \in Table /\ t = Published[at[f]] /\ QueueInv(t) /\ Len(queue[t]) \in Nat
  BY <1>2, <1>4 DEF QueuesInv, QueueInv
<1> DEFINE I == {i \in 1 .. Len(queue[t]) : queue[t][i] \in S /\ at[queue[t][i]] = at[f]}
<1>6. PICK g \in I : \A i \in I : i <= g
  <2>1. I # {}
    <3>1. PICK i \in 1 .. Len(queue[t]) : queue[t][i] = f
      BY <1>2, <1>4
    <3>2. i \in I
      BY <3>1
    <3>3. QED
      BY <3>2
  <2>2. I \in SUBSET (1 .. Len(queue[t]))
    OBVIOUS
  <2> HIDE DEF I
  <2>3. QED
    BY <1>5, <2>1, <2>2, GreatestNumber
<1>7. PICK p \in S : p = queue[t][g] /\ at[p] = at[f] /\ g \in 1 .. Len(queue[t])
  OBVIOUS
<1>8. PICK q \in S : p \in Blockers(q)
  BY <1>1
<1>9. p \in holders[Current(q)] \/ p \in Ahead(q)
  BY <1>8 DEF Blockers
<1>10. ASSUME p \in holders[Current(q)] PROVE FALSE
  <2>1. PICK i \in 1 .. at[p] - 1 : Published[i] = Current(q)
    <3>1. HoldInv(p)
      BY <1>1 DEF QueuesInv
    <3>2. Current(q) \in Table
      BY <1>2
    <3>3. PICK i \in 1 .. at[p] - 1 : Tables(p)[i] = Current(q)
      BY <1>10, <3>1, <3>2 DEF HoldInv
    <3>4. Tables(p) = Published
      BY <1>2
    <3>5. QED
      BY <3>3, <3>4
  <2>2. i \in 1 .. Len(Published) /\ i < at[p] /\ i \in Nat
    <3>1. at[p] \in 1 .. Len(Published) /\ at[p] \in Nat
      BY <1>2
    <3>2. Len(Published) \in Nat
      BY RefreshAssumption
    <3>3. QED
      BY <3>1, <3>2
  <2>3. i = at[q]
    BY <1>2, <2>1, <2>2, PublishedOnce
  <2>4. QED
    BY <1>2, <1>3, <1>7, <2>2, <2>3
<1>11. ASSUME p \in Ahead(q) PROVE FALSE
  <2>1. PICK u : u = Current(q)
    OBVIOUS
  <2>2. u \in Table /\ QueueInv(u)
    BY <1>2, <2>1 DEF QueuesInv
  <2>3. PICK i \in DOMAIN queue[u] : queue[u][i] = p /\ \A k \in 1 .. i : queue[u][k] # q
    BY <1>11, <2>1 DEF Ahead
  <2>4. i \in 1 .. Len(queue[u])
    BY <2>2, <2>3 DEF QueueInv
  <2>5. u = t
    <3>1. Tables(p)[at[p]] = u
      BY <2>2, <2>3, <2>4 DEF QueueInv
    <3>2. QED
      BY <1>2, <1>5, <1>7, <3>1
  <2>6. at[q] = at[f]
    <3>1. at[q] \in 1 .. Len(Published) /\ Published[at[q]] = u
      BY <1>2, <2>1
    <3>2. at[f] \in 1 .. Len(Published) /\ Published[at[f]] = t
      BY <1>2, <1>5
    <3>3. QED
      BY <2>5, <3>1, <3>2, PublishedOnce
  <2>7. i = g
    BY <1>5, <1>7, <2>3, <2>4, <2>5 DEF QueueInv
  <2>8. PICK j \in 1 .. Len(queue[t]) : queue[t][j] = q
    <3>1. \E j \in 1 .. Len(queue[Current(q)]) : queue[Current(q)][j] = q
      BY <1>2
    <3>2. QED
      BY <2>1, <2>5, <3>1
  <2>9. j \in I
    BY <2>6, <2>8
  <2>10. j <= g
    BY <1>6, <2>9
  <2>11. j \in 1 .. i
    BY <1>5, <2>4, <2>5, <2>7, <2>8, <2>10
  <2>12. QED
    BY <2>3, <2>5, <2>8, <2>11
<1>12. QED
  BY <1>9, <1>10, <1>11

\* Loads and gates never wait for one another in a ring, however many there are and
\* whatever the tables: every ring has a metrics transaction.
THEOREM RingsHaveMetrics == Spec => []RingsNeedMetrics
<1>1. IInv /\ QueuesInv => RingsNeedMetrics
  BY NoRing DEF RingsNeedMetrics
<1>2. Init => IInv /\ QueuesInv
  BY InitIInv, InitQueues
<1>3. IInv /\ QueuesInv /\ [Next]_vars => (IInv /\ QueuesInv)'
  BY NextIInv, NextQueues
<1>4. QED
  BY <1>1, <1>2, <1>3, PTL DEF Spec

-----------------------------------------------------------------------------
(* The refinement.                                                           *)

\* What the mapping to ServedSnapshot needs beside IInv: whose contents are tables.
SnapInv ==
  /\ DOMAIN served = Table
  /\ \A g \in Gate : pc[g] # "idle" => DOMAIN snapshot[g] = Table

Base == [g \in Gate |-> IF pc[g] = "idle" THEN {} ELSE Range(snapshot[g])]
View == [r \in Reader |-> Range(seen[r])]

LEMMA InitSnap == Init => SnapInv
BY DEF Init, SnapInv, Reader, Process

LEMMA EndKeepsSnap ==
  ASSUME IInv, SnapInv, NEW p \in Process, Ended(p), DOMAIN served' = Table PROVE SnapInv'
BY DEF SnapInv, Ended, Process, Reader

LEMMA NextSnap == IInv /\ SnapInv /\ [Next]_vars => SnapInv'
<1> SUFFICES ASSUME IInv, SnapInv, [Next]_vars PROVE SnapInv'
  OBVIOUS
<1>0. Shapes /\ \A g \in Gate : g \in Reader /\ g \in Process /\ g \notin Loader
  BY RefreshAssumption DEF IInv, Process, Reader
<1>1. ASSUME NEW p \in Process, Abort(p) PROVE SnapInv'
  BY <1>0, <1>1, EndFacts, EndKeepsSnap DEF Abort, SnapInv
<1>2. ASSUME UNCHANGED <<served, snapshot>>, \A g \in Gate : pc'[g] = pc[g] \/ pc[g] # "idle" PROVE SnapInv'
  BY <1>2 DEF SnapInv
<1>3. ASSUME NEW l \in Loader, StartLoad(l) \/ LoaderStep(l) PROVE SnapInv'
  <2>1. l \in Process /\ \A g \in Gate : g # l
    BY <1>0, LoaderIsNoReader
  <2>2. CASE StartLoad(l) \/ Stage(l) \/ Look(l) \/ Publish(l)
    BY <1>0, <1>2, <2>1, <2>2 DEF StartLoad, Stage, Look, Publish, Goto, Shapes
  <2>3. CASE Wait(l)
    BY <1>2, <2>3 DEF Wait
  <2>4. CASE NameTaken(l)
    BY <1>1, <2>1, <2>4 DEF NameTaken
  <2>5. CASE CommitLoad(l)
    BY <1>0, <2>1, <2>5, EndFacts, EndKeepsSnap DEF CommitLoad
  <2>6. QED
    BY <1>3, <2>2, <2>3, <2>4, <2>5 DEF LoaderStep
<1>4. ASSUME NEW r \in Reader, StartReading(r) \/ ReaderStep(r) PROVE SnapInv'
  <2>1. r \in Process
    BY ReaderIsNoLoader
  <2>2. CASE StartReading(r)
    BY <1>0, <2>1, <2>2 DEF StartReading, Goto, Shapes, SnapInv
  <2>3. CASE Wait(r)
    BY <1>2, <2>3 DEF Wait
  <2>4. CASE ReadTable(r)
    BY <1>0, <1>2, <2>1, <2>4 DEF ReadTable, Goto, Shapes
  <2>5. CASE TableMissing(r) \/ EndReading(r)
    BY <1>1, <2>1, <2>5 DEF TableMissing, EndReading
  <2>6. QED
    BY <1>4, <2>2, <2>3, <2>4, <2>5 DEF ReaderStep
<1>5. ASSUME NEW p \in Process, Fail(p) PROVE SnapInv'
  BY <1>1, <1>5 DEF Fail
<1>6. ASSUME NEW S \in SUBSET Process, BreakDeadlock(S) PROVE SnapInv'
  BY <1>1, <1>6 DEF BreakDeadlock
<1>7. CASE UNCHANGED vars
  BY <1>2, <1>7 DEF vars
<1>8. QED
  BY <1>3, <1>4, <1>5, <1>6, <1>7 DEF Next

LEMMA TableExists == \E t : t \in Table
<1>1. Published[1] \in Table
  BY RefreshAssumption DEF Table
<1>2. QED
  BY <1>1

LEMMA RangeOfOne ==
  ASSUME NEW f, DOMAIN f = Table, NEW t \in Table, \A u \in Table : f[u] = f[t]
  PROVE  Range(f) = {f[t]}
BY DEF Range

LEMMA ServedRange ==
  ASSUME IInv, SnapInv, NEW t \in Table PROVE Range(served) = {served[t]}
BY RangeOfOne DEF IInv, SnapInv, ServedIsOneLoad

\* What a transaction sees is what its next statement reads of any table.
LEMMA SeenIsContent ==
  ASSUME IInv, SnapInv, NEW r \in Reader, pc[r] # "idle", NEW t \in Table
  PROVE  /\ Snapshot!Seen(r) = {Content(r, t).read}
         /\ r \in Gate => Base[r] = {snapshot[r][t]}
<1>1. Range(served) = {served[t]}
  BY ServedRange
<1>2. r \in Gate => Base[r] = {snapshot[r][t]}
  <2>1. SUFFICES ASSUME r \in Gate PROVE Range(snapshot[r]) = {snapshot[r][t]}
    BY DEF Base
  <2>2. DOMAIN snapshot[r] = Table /\ \A u \in Table : snapshot[r][u] = snapshot[r][t]
    BY <2>1 DEF IInv, ReaderInv, SnapInv
  <2>3. QED
    BY <2>2, RangeOfOne
<1>3. Snapshot!Seen(r) = IF r \in Gate /\ Base[r] # Range(served) THEN {0} ELSE Range(served)
  BY DEF Snapshot!Seen, Snapshot!Empty, Base
<1>4. QED
  BY <1>1, <1>2, <1>3 DEF Content

LEMMA ViewFacts ==
  ASSUME IInv, SnapInv, NEW r \in Reader
  PROVE  /\ at[r] = 1 => View[r] = {}
         /\ at[r] # 1 => pc[r] # "idle" /\ View[r] = Snapshot!Seen(r)
<1>1. /\ r \in Process /\ ProcessInv(r) /\ ReaderInv(r) /\ DOMAIN seen[r] = 1 .. Len(seen[r])
      /\ Len(seen[r]) = at[r] - 1 /\ at[r] \in Nat \ {0} /\ View[r] = Range(seen[r])
  BY ReaderIsNoLoader DEF IInv, ReaderInv, ProcessInv, View
<1>2. CASE at[r] = 1
  <2>1. DOMAIN seen[r] = {}
    BY <1>1, <1>2
  <2>2. QED
    BY <1>1, <1>2, <2>1 DEF Range
<1>3. CASE at[r] # 1
  <2>1. pc[r] # "idle" /\ 1 \in DOMAIN seen[r]
    BY <1>1, <1>3 DEF ProcessInv
  <2>2. PICK t : t \in Table
    BY TableExists
  <2>3. \A i \in 1 .. Len(seen[r]) : Tables(r)[i] \in Table
    <3>1. Len(seen[r]) <= Len(Tables(r))
      BY <1>1, ListFacts DEF ProcessInv
    <3>2. QED
      BY <1>1, <3>1, ListFacts
  <2>4. \A i \in DOMAIN seen[r] : seen[r][i] = Content(r, t).read
    <3>1. SUFFICES ASSUME NEW i \in DOMAIN seen[r] PROVE seen[r][i] = Content(r, t).read
      OBVIOUS
    <3>2. seen[r][i] = Content(r, Tables(r)[i]).read /\ Tables(r)[i] \in Table
      BY <1>1, <2>3 DEF ReaderInv
    <3>3. {Content(r, Tables(r)[i]).read} = {Content(r, t).read}
      BY <2>1, <2>2, <3>2, SeenIsContent
    <3>4. QED
      BY <3>2, <3>3
  <2>5. Range(seen[r]) = {Content(r, t).read}
    BY <2>1, <2>4 DEF Range
  <2>6. QED
    BY <1>1, <1>3, <2>1, <2>2, <2>5, SeenIsContent
<1>4. QED
  BY <1>2, <1>3

LEMMA InitSnapshot == Init => Snapshot!Init
<1> SUFFICES ASSUME Init PROVE Snapshot!Init
  OBVIOUS
<1>1. IInv /\ SnapInv
  BY InitIInv, InitSnap
<1>2. PICK t : t \in Table
  BY TableExists
<1>3. Snapshot!IsOne(Range(served))
  BY <1>1, <1>2, ServedRange DEF Snapshot!IsOne
<1>4. Base = [g \in Gate |-> {}]
  BY DEF Init, Base, Process, Reader
<1>5. \A r \in Reader : View[r] = {}
  BY <1>1, ViewFacts, ReaderIsNoLoader DEF Init
<1>6. View = [r \in Reader |-> {}]
  BY <1>5 DEF View
<1>7. QED
  BY <1>3, <1>4, <1>6 DEF Snapshot!Init, Snapshot!Reader, Reader, Base, View

\* COMMIT or ROLLBACK of a reader, and of a loader when it leaves the tables alone.
LEMMA EndLeaves ==
  ASSUME IInv, NEW p \in Process, Ended(p), served' = served
  PROVE  Snapshot!Next \/ UNCHANGED Snapshot!vars
<1>1. Base' = [g \in Gate |-> IF g = p THEN {} ELSE Base[g]]
  BY DEF Base, Ended, Process, Reader
<1>2. \A r \in Reader : View'[r] = IF r = p THEN {} ELSE View[r]
  BY DEF View, Ended, Range
<1>3. CASE p \in Reader
  <2>1. View' = [View EXCEPT ![p] = {}]
    BY <1>2, <1>3 DEF View
  <2>2. Snapshot!Leave(p)
    BY <1>1, <2>1 DEF Snapshot!Leave, Base, View
  <2>3. QED
    BY <1>3, <2>2 DEF Snapshot!Next, Snapshot!Reader, Reader
<1>4. CASE p \notin Reader
  <2>1. Base' = Base /\ View' = View
    BY <1>1, <1>2, <1>4 DEF Base, View, Reader
  <2>2. QED
    BY <2>1 DEF Snapshot!vars, Base, View
<1>5. QED
  BY <1>3, <1>4

\* A step that the readers cannot tell.
LEMMA Unseen ==
  ASSUME UNCHANGED <<served, seen, snapshot>>,
         \A g \in Gate : (pc'[g] = "idle") <=> (pc[g] = "idle")
  PROVE  UNCHANGED Snapshot!vars
<1>1. Base' = Base /\ View' = View
  BY DEF Base, View
<1>2. QED
  BY <1>1 DEF Snapshot!vars, Base, View

LEMMA CommitReplaces ==
  ASSUME IInv, SnapInv, NEW l \in Loader, CommitLoad(l)
  PROVE  Snapshot!Replace
<1>1. l \in Process /\ pc[l] = "commit" /\ Ended(l) /\ \A r \in Reader : r # l
  BY LoaderIsNoReader, EndFacts DEF CommitLoad, IInv
<1>2. \A r \in Reader : at[r] = 1
  BY <1>1, NobodyHasRead
<1>3. \A r \in Reader : View[r] = {}
  BY <1>2, ViewFacts
<1>4. Range(served') = {version[l]}
  BY TableExists DEF CommitLoad, Range
<1>5. Base' = Base /\ View' = View
  BY <1>1 DEF Base, View, Ended, Reader, Process
<1>6. Snapshot!IsOne(Range(served'))
  BY <1>4 DEF Snapshot!IsOne
<1>7. QED
  BY <1>3, <1>5, <1>6 DEF Snapshot!Replace, Snapshot!Reader, Reader, Base, View

LEMMA ReadingBegins ==
  ASSUME IInv, SnapInv, NEW r \in Reader, StartReading(r)
  PROVE  Snapshot!Next \/ UNCHANGED Snapshot!vars
<1>1. /\ r \in Process /\ at[r] = 1 /\ pc[r] = "idle" /\ pc'[r] = "read"
      /\ UNCHANGED <<served, seen>> /\ \A q \in Process \ {r} : pc'[q] = pc[q]
      /\ \A g \in Gate : snapshot'[g] = IF g = r THEN served ELSE snapshot[g]
  BY ReaderIsNoLoader DEF StartReading, Goto, IInv, Shapes, ProcessInv
<1>2. View' = View
  BY <1>1 DEF View
<1>3. CASE r \in Gate
  <2>1. \A g \in Gate : Base'[g] = IF g = r THEN Range(served) ELSE Base[g]
    BY <1>1, <1>3 DEF Base, Process, Reader
  <2>2. Base' = [Base EXCEPT ![r] = Range(served)] /\ Base[r] = {}
    BY <1>1, <1>3, <2>1 DEF Base
  <2>3. View[r] = {}
    BY <1>1, ViewFacts
  <2>4. Snapshot!Begin(r)
    BY <1>1, <1>2, <1>3, <2>2, <2>3 DEF Snapshot!Begin, Base, View
  <2>5. QED
    BY <1>3, <2>4 DEF Snapshot!Next
<1>4. CASE r \notin Gate
  <2>1. \A g \in Gate : Base'[g] = Base[g]
    BY <1>1, <1>4 DEF Base, Process, Reader
  <2>2. Base' = Base
    BY <2>1 DEF Base
  <2>3. QED
    BY <1>1, <1>2, <2>2 DEF Snapshot!vars, Base, View
<1>5. QED
  BY <1>3, <1>4

\* The first table a transaction reads is what it sees, every other shows the same.
LEMMA ReadingSees ==
  ASSUME IInv, SnapInv, NEW r \in Reader, ReadTable(r)
  PROVE  Snapshot!Next \/ UNCHANGED Snapshot!vars
<1>1. /\ r \in Process /\ Shapes /\ ProcessInv(r) /\ ReaderInv(r) /\ pc[r] = "read"
      /\ UNCHANGED <<served, snapshot>> /\ pc'[r] # "idle"
      /\ \A q \in Process \ {r} : pc'[q] = pc[q]
      /\ served[Current(r)] # 0 /\ (r \in Gate => snapshot[r][Current(r)] # 0)
  BY ReaderIsNoLoader DEF ReadTable, Goto, IInv, Shapes
<1>2. PICK t : t = Current(r) /\ t \in Table
  BY <1>1, ListFacts DEF ProcessInv, Current
<1>3. /\ seen'[r] = Append(seen[r], Content(r, t).read)
      /\ \A q \in Reader \ {r} : seen'[q] = seen[q]
  BY <1>1, <1>2 DEF ReadTable, Shapes
<1>4. View'[r] = View[r] \cup {Content(r, t).read}
  <2>1. Content(r, t).read \in Nat /\ seen[r] \in Seq(Nat)
    BY <1>1, <1>2 DEF Content, Shapes, ReaderInv
  <2>2. /\ DOMAIN seen[r] = 1 .. Len(seen[r]) /\ DOMAIN seen'[r] = 1 .. Len(seen[r]) + 1
        /\ seen'[r][Len(seen[r]) + 1] = Content(r, t).read
        /\ \A i \in 1 .. Len(seen[r]) : seen'[r][i] = seen[r][i]
        /\ Len(seen[r]) \in Nat
    BY <1>3, <2>1
  <2>3. Range(seen'[r]) = Range(seen[r]) \cup {Content(r, t).read}
    BY <2>2 DEF Range
  <2>4. QED
    BY <2>3 DEF View
<1>5. Snapshot!Seen(r) = {Content(r, t).read}
  BY <1>1, <1>2, SeenIsContent
<1>6. Base' = Base
  <2>1. \A g \in Gate : Base'[g] = Base[g]
    BY <1>1 DEF Base, Process, Reader
  <2>2. QED
    BY <2>1 DEF Base
<1>7. \A q \in Reader \ {r} : View'[q] = View[q]
  BY <1>3 DEF View
<1>8. CASE at[r] # 1
  <2>1. \A q \in Reader : View'[q] = View[q]
    BY <1>4, <1>5, <1>7, <1>8, ViewFacts
  <2>2. View' = View
    BY <2>1 DEF View
  <2>3. QED
    BY <1>1, <1>6, <2>2 DEF Snapshot!vars, Base, View
<1>9. CASE at[r] = 1
  <2>1. View[r] = {}
    BY <1>9, ViewFacts
  <2>2. View' = [View EXCEPT ![r] = Snapshot!Seen(r)]
    <3>1. \A q \in Reader : View'[q] = IF q = r THEN Snapshot!Seen(r) ELSE View[q]
      BY <1>4, <1>5, <1>7, <2>1
    <3>2. QED
      BY <3>1 DEF View
  <2>3. Range(served) # {0} /\ (r \in Gate => Base[r] \notin {{}, {0}})
    <3>1. Range(served) = {served[t]}
      BY <1>2, ServedRange
    <3>2. r \in Gate => Base[r] = {snapshot[r][t]}
      BY <1>1, <1>2, SeenIsContent
    <3>3. QED
      BY <1>1, <1>2, <3>1, <3>2
  <2>4. Snapshot!See(r)
    BY <1>1, <1>6, <2>1, <2>2, <2>3 DEF Snapshot!See, Snapshot!Empty, Base, View
  <2>5. QED
    BY <2>4 DEF Snapshot!Next, Snapshot!Reader, Reader
<1>10. QED
  BY <1>8, <1>9

LEMMA NextSnapshot == IInv /\ SnapInv /\ [Next]_vars => [Snapshot!Next]_Snapshot!vars
<1> SUFFICES ASSUME IInv, SnapInv, [Next]_vars PROVE Snapshot!Next \/ UNCHANGED Snapshot!vars
  OBVIOUS
<1>0. Shapes /\ \A g \in Gate : g \in Reader /\ g \in Process /\ g \notin Loader
  BY RefreshAssumption DEF IInv, Process, Reader
<1>1. ASSUME NEW p \in Process, Abort(p) PROVE Snapshot!Next \/ UNCHANGED Snapshot!vars
  BY <1>0, <1>1, EndFacts, EndLeaves DEF Abort
<1>2. ASSUME NEW p, Wait(p) PROVE UNCHANGED Snapshot!vars
  BY <1>2, Unseen DEF Wait
<1>3. ASSUME NEW l \in Loader, StartLoad(l) \/ LoaderStep(l) PROVE Snapshot!Next \/ UNCHANGED Snapshot!vars
  <2>1. l \in Process /\ \A g \in Gate : g # l
    BY <1>0, LoaderIsNoReader
  <2>2. CASE StartLoad(l) \/ Stage(l) \/ Look(l) \/ Publish(l)
    BY <1>0, <2>1, <2>2, Unseen DEF StartLoad, Stage, Look, Publish, Goto, Shapes
  <2>3. CASE NameTaken(l)
    BY <1>1, <2>1, <2>3 DEF NameTaken
  <2>4. CASE CommitLoad(l)
    BY <2>4, CommitReplaces DEF Snapshot!Next
  <2>5. QED
    BY <1>2, <1>3, <2>2, <2>3, <2>4 DEF LoaderStep
<1>4. ASSUME NEW r \in Reader, StartReading(r) \/ ReaderStep(r) PROVE Snapshot!Next \/ UNCHANGED Snapshot!vars
  BY <1>1, <1>2, <1>4, ReaderIsNoLoader, ReadingBegins, ReadingSees DEF ReaderStep, TableMissing, EndReading
<1>5. ASSUME NEW p \in Process, Fail(p) PROVE Snapshot!Next \/ UNCHANGED Snapshot!vars
  BY <1>1, <1>5 DEF Fail
<1>6. ASSUME NEW S \in SUBSET Process, BreakDeadlock(S) PROVE Snapshot!Next \/ UNCHANGED Snapshot!vars
  BY <1>1, <1>6 DEF BreakDeadlock
<1>7. CASE UNCHANGED vars
  BY <1>7, Unseen DEF vars
<1>8. QED
  BY <1>3, <1>4, <1>5, <1>6, <1>7 DEF Next

\* The tables of a domain are what ServedSnapshot promises: one content, replaced at
\* once and only when nobody has seen it, at which every transaction looks once.
THEOREM TablesAreOneSnapshot == Spec => Refinement
<1>1. Init => IInv /\ SnapInv
  BY InitIInv, InitSnap
<1>2. IInv /\ SnapInv /\ [Next]_vars => (IInv /\ SnapInv)'
  BY NextIInv, NextSnap
<1>3. QED
  BY <1>1, <1>2, InitSnapshot, NextSnapshot, PTL DEF Spec, Refinement, Snapshot!Spec

\* No transaction works on what has been replaced under it: what it has read is served
\* until it ends, unless it is a gate that began before a load and found tables emptied.
THEOREM ViewsStayCurrent == Spec => []Snapshot!ViewIsCurrent
<1>1. ASSUME IInv, SnapInv PROVE Snapshot!ViewIsCurrent
  <2>1. SUFFICES ASSUME NEW r \in Reader
                 PROVE  View[r] \in {{}, Range(served)} \/ (r \in Gate /\ View[r] = {0})
    BY DEF Snapshot!ViewIsCurrent, Snapshot!Reader, Snapshot!Empty, Reader, View
  <2>2. View[r] = {} \/ View[r] = Snapshot!Seen(r)
    BY <1>1, ViewFacts
  <2>3. QED
    BY <2>2 DEF Snapshot!Seen, Snapshot!Empty
<1>2. Init => IInv /\ SnapInv
  BY InitIInv, InitSnap
<1>3. IInv /\ SnapInv /\ [Next]_vars => (IInv /\ SnapInv)'
  BY NextIInv, NextSnap
<1>4. QED
  BY <1>1, <1>2, <1>3, PTL DEF Spec
=============================================================================
