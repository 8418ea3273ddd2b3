----------------------- MODULE MarketplaceLake_proofs -----------------------
(* What Bronze, Silver and the serving tables guarantee for any number of     *)
(* records, Gold tables, restarts, runs and retries, wherever a query or an   *)
(* attempt of a task dies.                                                    *)
EXTENDS MarketplaceLake, WellFoundedInduction, TLAPS

\* A query's logs follow one another, and the files of a logged batch are there.
StreamInv(q) ==
  /\ done[q] \in Nat /\ sunk[q] \in Nat /\ planned[q] \in Nat
  /\ done[q] <= sunk[q] /\ sunk[q] <= planned[q] /\ planned[q] <= Len(topic)
  /\ sunk[q] \in {done[q], planned[q]}
  /\ bronze[q] \in Dataset
  /\ Rows(bronze[q]) \subseteq 1 .. Len(topic)
  /\ \A o \in 1 .. sunk[q] : Destination(o) = q => bronze[q][o] > 0
  /\ q \in written => sunk[q] < planned[q] /\ \A o \in Batch(q) : bronze[q][o] > 0

StreamsInv ==
  /\ topic \in Seq(Record) /\ Len(topic) <= MaxRecords
  /\ written \subseteq up /\ up \subseteq Query
  /\ DOMAIN planned = Query /\ DOMAIN sunk = Query /\ DOMAIN done = Query
  /\ DOMAIN bronze = Query
  /\ \A q \in Query : StreamInv(q)

\* A dataset of rows of the topic that has one row of each of its events.
Once(d) ==
  /\ d \in Dataset
  /\ Rows(d) \subseteq 1 .. Len(topic)
  /\ \A o, p \in Rows(d) : d[o] = 1 /\ (topic[o].event = topic[p].event => o = p)

Gold == Range(GoldTables)

\* What a build has written is what it read makes of it, table after table; what
\* follows it finds all of it.
DagInv ==
  /\ task \in 0 .. 7 /\ step \in Nat
  /\ DOMAIN lake = Lake /\ DOMAIN served = Gold
  /\ listed \in Dataset /\ Rows(listed) \subseteq 1 .. Len(topic)
  /\ \A d \in {"valid"} \cup Gold : lake[d] = Absent \/ Once(lake[d])
  /\ \A g \in Gold : served[g] = Absent \/ Once(served[g])
  /\ task = 2 /\ step > 0 =>
       /\ step <= 4 /\ input = listed
       /\ step > 2 => lake["valid"] = SilverValid(listed)
  /\ task > 2 => lake["valid"] = SilverValid(listed) /\ lake["rejected"] = SilverRejected(listed)
  /\ task = 4 /\ step > 0 =>
       /\ step <= 2 * Len(GoldTables) /\ Once(input)
       /\ \A j \in 1 .. Len(GoldTables) : 2 * j < step => lake[GoldTables[j]] = input
  /\ task > 4 => \A g, h \in Gold : lake[g] = lake[h]
  /\ task > 5 => \A g \in Gold : lake[g] # Absent /\ ~Has(lake[g], "critical")

IInv == StreamsInv /\ DagInv /\ ServedIsOneSnapshot

-----------------------------------------------------------------------------
(* Names, lists and datasets.                                                *)

\* The tasks by their numbers.
LEMMA TaskNumbers ==
  ASSUME task \in 0 .. 7
  PROVE  /\ Len(Tasks) = 7
         /\ Running("check_bronze_available") <=> task = 1
         /\ Running("build_silver") <=> task = 2
         /\ Running("quality_check_silver") <=> task = 3
         /\ Running("build_gold") <=> task = 4
         /\ Running("quality_check_gold") <=> task = 5
         /\ Running("load_gold_to_warehouse") <=> task = 6
         /\ Running("quality_check_warehouse") <=> task = 7
BY DEF Running, Tasks

\* Gold tables are listed once each and are none of Silver's.
LEMMA GoldNames ==
  /\ Len(GoldTables) \in Nat /\ Len(GoldTables) > 0
  /\ "valid" \notin Gold /\ "rejected" \notin Gold
  /\ \A j \in 1 .. Len(GoldTables) : GoldTables[j] \in Gold
  /\ \A g \in Gold : \E j \in 1 .. Len(GoldTables) : g = GoldTables[j]
  /\ \A i, j \in 1 .. Len(GoldTables) : GoldTables[i] = GoldTables[j] => i = j
  /\ Lake = {"valid", "rejected"} \cup Gold
<1>1. GoldTables \in Seq(Range(GoldTables)) /\ GoldTables # <<>> /\ IsInjective(GoldTables)
      /\ {"valid", "rejected"} \cap Range(GoldTables) = {}
  BY LakeAssumption
<1>2. Len(GoldTables) \in Nat /\ DOMAIN GoldTables = 1 .. Len(GoldTables)
  BY <1>1
<1>3. Len(GoldTables) > 0
  BY <1>1, <1>2
<1>4. QED
  BY <1>1, <1>2, <1>3 DEF Gold, Range, IsInjective, Lake

\* A set of offsets that is not empty has a greatest member.
LEMMA Greatest ==
  ASSUME NEW S \in SUBSET Offset, S # {}
  PROVE  \E m \in S : \A p \in S : p <= m
<1>1. MaxRecords \in Nat
  BY LakeAssumption
<1> DEFINE D == {MaxRecords - p : p \in S}
<1>2. D \in SUBSET Nat /\ D # {}
  BY <1>1 DEF Offset
<1>3. PICK d \in D : \A e \in D : <<e, d>> \notin OpToRel(<, Nat)
  <2> HIDE DEF D
  <2>1. QED
    BY <1>2, NatLessThanWellFounded, WFMin
<1>4. \A e \in D : ~(e < d)
  BY <1>2, <1>3 DEF OpToRel
<1>5. PICK m \in S : d = MaxRecords - m
  OBVIOUS
<1>6. ASSUME NEW p \in S PROVE p <= m
  <2>1. MaxRecords - p \in D
    OBVIOUS
  <2>2. ~(MaxRecords - p < MaxRecords - m)
    BY <1>4, <1>5, <2>1
  <2>3. QED
    BY <1>1, <2>2 DEF Offset
<1>7. QED
  BY <1>6

\* The rows of a dataset, and of what Silver makes of it.
LEMMA RowsOf ==
  ASSUME NEW d \in Dataset
  PROVE  /\ Rows(d) \subseteq Offset
         /\ \A o \in Offset : d[o] \in Nat /\ (o \in Rows(d) <=> d[o] > 0)
BY DEF Dataset, Rows

LEMMA SilverRows ==
  ASSUME NEW d \in Dataset
  PROVE  /\ SilverValid(d) \in Dataset /\ SilverRejected(d) \in Dataset
         /\ \A o \in Offset :
              /\ SilverValid(d)[o] \in {0, 1}
              /\ o \in Rows(SilverValid(d)) <=>
                   /\ o \in Rows(d) /\ ~Rejected(o)
                   /\ \A p \in Rows(d) : ~Rejected(p) /\ topic[p].event = topic[o].event => p <= o
              /\ Rejected(o) /\ o \in Rows(d) => SilverRejected(d)[o] = d[o]
              /\ o \in Rows(SilverRejected(d)) <=> o \in Rows(d) /\ Rejected(o)
<1>1. \A o \in Offset : d[o] \in Nat
  BY DEF Dataset
<1>2. \A o \in Offset :
        SilverValid(d)[o] =
          IF o \in Accepted(d)
             /\ \A p \in Accepted(d) : topic[p].event = topic[o].event => p <= o
          THEN 1 ELSE 0
  BY DEF SilverValid
<1>3. \A o \in Offset :
        SilverRejected(d)[o] = IF o \in Rows(d) /\ Rejected(o) THEN d[o] ELSE 0
  BY DEF SilverRejected
<1>4. SilverValid(d) \in Dataset /\ SilverRejected(d) \in Dataset
  BY <1>1 DEF SilverValid, SilverRejected, Dataset
<1>5. \A o : o \in Accepted(d) <=> o \in Rows(d) /\ ~Rejected(o)
  BY DEF Accepted
<1>6. \A o \in Offset : o \in Rows(SilverValid(d)) <=> SilverValid(d)[o] > 0
  BY DEF Rows
<1>7. \A o \in Offset : o \in Rows(SilverRejected(d)) <=> SilverRejected(d)[o] > 0
  BY DEF Rows
<1>8. \A o \in Offset : o \in Rows(d) <=> d[o] > 0
  BY DEF Rows
<1>9. QED
  BY <1>1, <1>2, <1>3, <1>4, <1>5, <1>6, <1>7, <1>8

\* Silver keeps one row of each event.
LEMMA SilverOnce ==
  ASSUME NEW d \in Dataset, Rows(d) \subseteq 1 .. Len(topic)
  PROVE  Once(SilverValid(d))
<1> DEFINE s == SilverValid(d)
<1>1. s \in Dataset
  BY SilverRows
<1>2. Rows(s) \subseteq Offset
  BY <1>1, RowsOf
<1>3. Rows(s) \subseteq Rows(d)
  BY <1>2, SilverRows
<1>4. ASSUME NEW o \in Rows(s), NEW p \in Rows(s)
      PROVE  s[o] = 1 /\ (topic[o].event = topic[p].event => o = p)
  <2>1. o \in Offset /\ p \in Offset /\ o \in Nat /\ p \in Nat
    BY <1>2 DEF Offset
  <2>2. s[o] > 0 /\ s[o] \in {0, 1}
    BY <1>1, <2>1, RowsOf, SilverRows
  <2>3. topic[o].event = topic[p].event => p <= o /\ o <= p
    BY <1>3, <2>1, SilverRows
  <2>4. QED
    BY <2>1, <2>2, <2>3
<1>5. QED
  BY <1>1, <1>3, <1>4 DEF Once

-----------------------------------------------------------------------------
(* The streaming queries.                                                    *)

\* A query whose logs and files stay is as it was.
LEMMA OtherQuery ==
  ASSUME NEW p \in Query, StreamInv(p), topic' = topic,
         planned'[p] = planned[p], sunk'[p] = sunk[p], done'[p] = done[p],
         bronze'[p] = bronze[p], p \in written' => p \in written
  PROVE  StreamInv(p)'
BY DEF StreamInv, Destination, Batch, Rows

\* What is logged of a topic stays logged when it grows.
LEMMA ProduceStreams ==
  ASSUME StreamsInv, NEW r \in Record, Produce(r)
  PROVE  StreamsInv'
<1>1. /\ topic' = Append(topic, r) /\ Len(topic) < MaxRecords
      /\ UNCHANGED <<up, planned, sunk, done, written, bronze>>
  BY DEF Produce, streams
<1>2. topic \in Seq(Record)
  BY DEF StreamsInv
<1>3. /\ topic' \in Seq(Record) /\ Len(topic') = Len(topic) + 1
      /\ \A o \in 1 .. Len(topic) : topic'[o] = topic[o]
      /\ Len(topic) \in Nat
  BY <1>1, <1>2
<1>4. Len(topic') <= MaxRecords
  BY <1>1, <1>3, LakeAssumption
<1>5. ASSUME NEW q \in Query PROVE StreamInv(q)'
  <2>1. StreamInv(q)
    BY DEF StreamsInv
  <2>2. \A o \in 1 .. Len(topic) : Destination(o)' = Destination(o)
    BY <1>3 DEF Destination
  <2>3. Batch(q)' = Batch(q)
    <3>1. done[q] + 1 .. planned[q] \subseteq 1 .. Len(topic)
      BY <1>3, <2>1 DEF StreamInv
    <3>2. \A o \in done[q] + 1 .. planned[q] : Destination(o)' = Destination(o)
      BY <2>2, <3>1
    <3>3. QED
      BY <1>1, <3>2 DEF Batch
  <2>4. \A o \in 1 .. sunk'[q] : Destination(o)' = q => bronze'[q][o] > 0
    BY <1>1, <1>3, <2>1, <2>2 DEF StreamInv
  <2>5. QED
    BY <1>1, <1>3, <2>1, <2>3, <2>4 DEF StreamInv, Rows
<1>6. QED
  BY <1>1, <1>3, <1>4, <1>5 DEF StreamsInv

LEMMA StartStreams ==
  ASSUME StreamsInv, StartQueries
  PROVE  StreamsInv'
<1>1. UNCHANGED <<topic, planned, sunk, done, written, bronze>> /\ up' = Query /\ up = {}
  BY DEF StartQueries
<1>2. \A q \in Query : StreamInv(q)'
  BY <1>1, OtherQuery DEF StreamsInv
<1>3. QED
  BY <1>1, <1>2 DEF StreamsInv

LEMMA PlanStreams ==
  ASSUME StreamsInv, NEW q \in Query, PlanBatch(q)
  PROVE  StreamsInv'
<1>1. /\ planned[q] = done[q] /\ done[q] < Len(topic)
      /\ planned' = [planned EXCEPT ![q] = Len(topic)]
      /\ UNCHANGED <<topic, up, sunk, done, written, bronze>>
  BY DEF PlanBatch
<1>2. /\ StreamInv(q) /\ planned'[q] = Len(topic) /\ DOMAIN planned' = Query
      /\ \A p \in Query : p # q => planned'[p] = planned[p]
      /\ Len(topic) \in Nat
  BY <1>1 DEF StreamsInv
<1>3. q \notin written
  BY <1>1, <1>2 DEF StreamInv
<1>4. StreamInv(q)'
  BY <1>1, <1>2, <1>3 DEF StreamInv, Destination, Rows
<1>5. \A p \in Query : StreamInv(p)'
  BY <1>1, <1>2, <1>4, OtherQuery DEF StreamsInv
<1>6. QED
  BY <1>1, <1>2, <1>5 DEF StreamsInv

LEMMA WriteStreams ==
  ASSUME StreamsInv, NEW q \in Query, WriteFiles(q)
  PROVE  StreamsInv'
<1>1. /\ q \in up \ written /\ sunk[q] < planned[q] /\ written' = written \cup {q}
      /\ bronze' = [bronze EXCEPT ![q] =
           [o \in Offset |-> bronze[q][o] + IF o \in Batch(q) THEN 1 ELSE 0]]
      /\ UNCHANGED <<topic, up, planned, sunk, done>>
  BY DEF WriteFiles
<1>2. /\ StreamInv(q) /\ DOMAIN bronze' = Query
      /\ \A o \in Offset : bronze'[q][o] = bronze[q][o] + IF o \in Batch(q) THEN 1 ELSE 0
      /\ bronze'[q] = [o \in Offset |-> bronze[q][o] + IF o \in Batch(q) THEN 1 ELSE 0]
      /\ \A p \in Query : p # q => bronze'[p] = bronze[p]
      /\ Len(topic) \in Nat /\ Len(topic) <= MaxRecords
  BY <1>1 DEF StreamsInv
<1>3. /\ \A o \in Offset : bronze[q][o] \in Nat
      /\ \A o \in Batch(q) : o \in Offset /\ o \in 1 .. Len(topic)
  BY <1>2, LakeAssumption DEF StreamInv, Dataset, Batch, Offset
<1>4. /\ bronze'[q] \in Dataset
      /\ Rows(bronze'[q]) \subseteq 1 .. Len(topic)
      /\ \A o \in Offset : bronze'[q][o] >= bronze[q][o]
      /\ \A o \in Batch(q) : bronze'[q][o] > 0
  <2>1. \A o \in Offset : bronze'[q][o] \in Nat /\ bronze'[q][o] >= bronze[q][o]
    BY <1>2, <1>3
  <2>2. bronze'[q] \in Dataset
    BY <1>2, <2>1 DEF Dataset
  <2>3. \A o \in Offset : bronze'[q][o] > 0 => bronze[q][o] > 0 \/ o \in Batch(q)
    BY <1>2, <1>3
  <2>4. Rows(bronze'[q]) \subseteq 1 .. Len(topic)
    BY <1>2, <1>3, <2>3 DEF StreamInv, Rows
  <2>5. \A o \in Batch(q) : bronze'[q][o] > 0
    BY <1>2, <1>3
  <2>6. QED
    BY <2>1, <2>2, <2>4, <2>5
<1>5. \A o \in 1 .. sunk[q] : o \in Offset /\ (Destination(o) = q => bronze'[q][o] > 0)
  <2> SUFFICES ASSUME NEW o \in 1 .. sunk[q]
               PROVE  o \in Offset /\ (Destination(o) = q => bronze'[q][o] > 0)
    OBVIOUS
  <2>1. o \in Offset
    BY <1>2, LakeAssumption DEF StreamInv, Offset
  <2>2. Destination(o) = q => bronze[q][o] > 0
    BY <1>2 DEF StreamInv
  <2>3. bronze[q][o] \in Nat /\ bronze'[q][o] \in Nat /\ bronze'[q][o] >= bronze[q][o]
    BY <1>3, <1>4, <2>1 DEF Dataset
  <2>4. QED
    BY <2>1, <2>2, <2>3
<1>6. StreamInv(q)'
  <2>1. Batch(q)' = Batch(q) /\ \A o : Destination(o)' = Destination(o)
    BY <1>1 DEF Batch, Destination
  <2>2. Rows(bronze[q])' = Rows(bronze'[q])
    BY DEF Rows
  <2>3. QED
    BY <1>1, <1>2, <1>4, <1>5, <2>1, <2>2 DEF StreamInv
<1>7. \A p \in Query : StreamInv(p)'
  BY <1>1, <1>2, <1>6, OtherQuery DEF StreamsInv
<1>8. QED
  BY <1>1, <1>2, <1>7 DEF StreamsInv

LEMMA SinkStreams ==
  ASSUME StreamsInv, NEW q \in Query, CommitSink(q)
  PROVE  StreamsInv'
<1>1. /\ q \in written /\ sunk' = [sunk EXCEPT ![q] = planned[q]] /\ written' = written \ {q}
      /\ UNCHANGED <<topic, up, planned, done, bronze>>
  BY DEF CommitSink
<1>2. /\ StreamInv(q) /\ sunk'[q] = planned[q] /\ DOMAIN sunk' = Query
      /\ \A p \in Query : p # q => sunk'[p] = sunk[p]
  BY <1>1 DEF StreamsInv
<1>3. sunk[q] = done[q] /\ \A o \in Batch(q) : bronze[q][o] > 0
  BY <1>1, <1>2 DEF StreamInv
<1>4. \A o \in 1 .. planned[q] : Destination(o) = q => bronze[q][o] > 0
  <2> SUFFICES ASSUME NEW o \in 1 .. planned[q], Destination(o) = q PROVE bronze[q][o] > 0
    OBVIOUS
  <2>1. o \in 1 .. sunk[q] \/ o \in done[q] + 1 .. planned[q]
    BY <1>2, <1>3 DEF StreamInv
  <2>2. QED
    BY <1>2, <1>3, <2>1 DEF StreamInv, Batch
<1>5. StreamInv(q)'
  BY <1>1, <1>2, <1>4 DEF StreamInv, Destination, Rows
<1>6. \A p \in Query : StreamInv(p)'
  BY <1>1, <1>2, <1>5, OtherQuery DEF StreamsInv
<1>7. QED
  BY <1>1, <1>2, <1>6 DEF StreamsInv

LEMMA CommitStreams ==
  ASSUME StreamsInv, NEW q \in Query, CommitBatch(q)
  PROVE  StreamsInv'
<1>1. /\ sunk[q] = planned[q] /\ done' = [done EXCEPT ![q] = planned[q]]
      /\ UNCHANGED <<topic, up, planned, sunk, written, bronze>>
  BY DEF CommitBatch
<1>2. /\ StreamInv(q) /\ done'[q] = planned[q] /\ DOMAIN done' = Query
      /\ \A p \in Query : p # q => done'[p] = done[p]
  BY <1>1 DEF StreamsInv
<1>3. q \notin written
  BY <1>1, <1>2 DEF StreamInv
<1>4. StreamInv(q)'
  BY <1>1, <1>2, <1>3 DEF StreamInv, Destination, Rows
<1>5. \A p \in Query : StreamInv(p)'
  BY <1>1, <1>2, <1>4, OtherQuery DEF StreamsInv
<1>6. QED
  BY <1>1, <1>2, <1>5 DEF StreamsInv

\* A query that stops may lose the files of its batch, and none that were logged.
LEMMA StopStreams ==
  ASSUME StreamsInv, NEW S \in SUBSET Query, Stop(S)
  PROVE  StreamsInv'
<1>1. PICK cleaned \in SUBSET (S \cap written) :
        bronze' = [q \in Query |->
          IF q \in cleaned
          THEN [o \in Offset |-> bronze[q][o] - IF o \in Batch(q) THEN 1 ELSE 0]
          ELSE bronze[q]]
  BY DEF Stop
<1>2. up' = up \ S /\ written' = written \ S /\ UNCHANGED <<topic, planned, sunk, done>>
  BY DEF Stop
<1>3. ASSUME NEW q \in Query PROVE StreamInv(q)'
  <2>1. StreamInv(q)
    BY DEF StreamsInv
  <2>2. CASE q \notin cleaned
    BY <1>1, <1>2, <2>1, <2>2, OtherQuery
  <2>3. CASE q \in cleaned
    <3>1. /\ q \in written /\ q \notin written' /\ sunk[q] = done[q]
          /\ \A o \in Batch(q) : bronze[q][o] > 0
      BY <1>1, <1>2, <2>1, <2>3 DEF StreamInv
    <3>2. /\ bronze'[q] = [o \in Offset |-> bronze[q][o] - IF o \in Batch(q) THEN 1 ELSE 0]
          /\ \A o \in Offset : bronze'[q][o] = bronze[q][o] - IF o \in Batch(q) THEN 1 ELSE 0
      BY <1>1, <2>3
    <3>3. \A o \in Offset : bronze[q][o] \in Nat
      BY <2>1 DEF StreamInv, Dataset
    <3>4. \A o \in Offset : bronze'[q][o] \in Nat /\ bronze'[q][o] <= bronze[q][o]
      BY <3>1, <3>2, <3>3
    <3>5. bronze'[q] \in Dataset
      BY <3>2, <3>4 DEF Dataset
    <3>6. Rows(bronze[q])' \subseteq 1 .. Len(topic)
      BY <2>1, <3>3, <3>4 DEF StreamInv, Rows
    <3>7. \A o \in 1 .. sunk[q] : o \notin Batch(q)
      BY <2>1, <3>1 DEF StreamInv, Batch
    <3>8. \A o \in 1 .. sunk[q] : Destination(o) = q => bronze'[q][o] > 0
      <4>1. \A o \in 1 .. sunk[q] : o \in Offset
        BY <2>1, LakeAssumption DEF StreamInv, StreamsInv, Offset
      <4>2. QED
        BY <2>1, <3>2, <3>3, <3>7, <4>1 DEF StreamInv
    <3>9. QED
      BY <1>2, <2>1, <3>1, <3>5, <3>6, <3>8 DEF StreamInv, Destination
  <2>4. QED
    BY <2>2, <2>3
<1>4. QED
  BY <1>1, <1>2, <1>3 DEF StreamsInv

\* What does not touch the topic or a query.
LEMMA StreamsRest ==
  ASSUME StreamsInv, UNCHANGED <<topic, streams>>
  PROVE  StreamsInv'
<1>1. UNCHANGED <<topic, up, planned, sunk, done, written, bronze>>
  BY DEF streams
<1>2. \A q \in Query : StreamInv(q)'
  BY <1>1, OtherQuery DEF StreamsInv
<1>3. QED
  BY <1>1, <1>2 DEF StreamsInv

-----------------------------------------------------------------------------
(* The DAG.                                                                  *)

\* Rows of the topic keep their meaning when it grows.
LEMMA GrownDag ==
  ASSUME DagInv, ServedIsOneSnapshot, Len(topic) \in Nat, Len(topic') \in Nat,
         Len(topic) <= Len(topic'), \A o \in 1 .. Len(topic) : topic'[o] = topic[o],
         UNCHANGED <<attempt, data>>
  PROVE  DagInv' /\ ServedIsOneSnapshot'
<1>1. /\ task' = task /\ step' = step /\ input' = input
      /\ lake' = lake /\ served' = served /\ listed' = listed
  BY DEF attempt, data
<1>2. ASSUME NEW d \in Dataset, Rows(d) \subseteq 1 .. Len(topic)
      PROVE  /\ Rows(d) \subseteq 1 .. Len(topic')
             /\ \A o \in Rows(d) : topic'[o] = topic[o]
  BY <1>2
<1>3. ASSUME NEW d, Once(d)
      PROVE  /\ d \in Dataset
             /\ Rows(d) \subseteq 1 .. Len(topic')
             /\ \A o, p \in Rows(d) : d[o] = 1 /\ (topic'[o].event = topic'[p].event => o = p)
             /\ \A o \in Rows(d) : topic'[o] = topic[o]
  BY <1>2, <1>3 DEF Once
<1>4. SilverValid(listed)' = SilverValid(listed) /\ SilverRejected(listed)' = SilverRejected(listed)
  <2>1. \A o \in Rows(listed) : topic'[o] = topic[o]
    BY <1>2 DEF DagInv
  <2>2. \A o \in Rows(listed) : Rejected(o)' = Rejected(o)
    BY <2>1 DEF Rejected
  <2>3. Rows(listed)' = Rows(listed)
    BY <1>1 DEF Rows
  <2>4. Accepted(listed)' = Accepted(listed)
    BY <1>1, <2>2, <2>3 DEF Accepted
  <2>5. \A o \in Accepted(listed) : topic'[o] = topic[o]
    BY <2>1 DEF Accepted
  <2>6. SilverValid(listed)' = SilverValid(listed)
    BY <1>1, <2>4, <2>5 DEF SilverValid
  <2>7. SilverRejected(listed)' = SilverRejected(listed)
    BY <1>1, <2>2, <2>3 DEF SilverRejected
  <2>8. QED
    BY <2>6, <2>7
<1>5. \A d \in {"valid"} \cup Gold : lake'[d] = Absent \/ Once(lake[d])'
  BY <1>1, <1>3 DEF DagInv, Once, Rows
<1>6. \A g \in Gold : served'[g] = Absent \/ Once(served[g])'
  BY <1>1, <1>3 DEF DagInv, Once, Rows
<1>7. task = 4 /\ step > 0 => Once(input)'
  BY <1>1, <1>3 DEF DagInv, Once, Rows
<1>8. listed' \in Dataset /\ Rows(listed)' \subseteq 1 .. Len(topic')
  BY <1>1, <1>2 DEF DagInv, Rows
<1>9. task > 5 => \A g \in Gold : lake[g] # Absent /\ ~Has(lake[g], "critical")'
  <2>1. ASSUME task > 5, NEW g \in Gold
        PROVE  lake[g] # Absent /\ \A o \in Rows(lake[g]) : topic'[o] = topic[o]
    BY <1>3, <2>1 DEF DagInv
  <2>2. ASSUME task > 5, NEW g \in Gold
        PROVE  ~Has(lake[g], "critical")'
    BY <1>1, <2>1, <2>2 DEF DagInv, Has, Rows
  <2>3. QED
    BY <1>1, <2>1, <2>2
<1>10. DagInv'
  BY <1>1, <1>4, <1>5, <1>6, <1>7, <1>8, <1>9 DEF DagInv
<1>11. ASSUME NEW g \in Gold, served'[g] # Absent PROVE ~Has(served[g], "critical")'
  BY <1>1, <1>3, <1>11 DEF DagInv, ServedIsOneSnapshot, Has, Rows, Gold
<1>12. ServedIsOneSnapshot'
  BY <1>1, <1>11 DEF ServedIsOneSnapshot, Gold
<1>13. QED
  BY <1>10, <1>12

\* At the start of an attempt only what earlier tasks have left is claimed.
LEMMA AtStart ==
  ASSUME DagInv, ServedIsOneSnapshot, UNCHANGED <<topic, lake, served, listed>>,
         task' \in 0 .. 7, step' = 0,
         task' > 2 => lake["valid"] = SilverValid(listed)
                      /\ lake["rejected"] = SilverRejected(listed),
         task' > 4 => \A g, h \in Gold : lake[g] = lake[h],
         task' > 5 => \A g \in Gold : lake[g] # Absent /\ ~Has(lake[g], "critical")
  PROVE  DagInv' /\ ServedIsOneSnapshot'
<1>1. /\ \A d : Once(lake[d])' <=> Once(lake[d])
      /\ \A d : Once(served[d])' <=> Once(served[d])
      /\ \A d : Has(lake[d], "critical")' <=> Has(lake[d], "critical")
      /\ \A d : Has(served[d], "critical")' <=> Has(served[d], "critical")
      /\ SilverValid(listed)' = SilverValid(listed)
      /\ SilverRejected(listed)' = SilverRejected(listed)
      /\ Rows(listed)' = Rows(listed)
  BY DEF Once, Rows, Has, SilverValid, SilverRejected, Accepted, Rejected
<1>2. DagInv'
  BY <1>1 DEF DagInv
<1>3. ServedIsOneSnapshot'
  BY <1>1 DEF ServedIsOneSnapshot
<1>4. QED
  BY <1>2, <1>3

\* An attempt that fails is repeated or ends its run.
LEMMA FailKeeps ==
  ASSUME DagInv, ServedIsOneSnapshot, Fail, UNCHANGED <<topic, lake, served, listed>>
  PROVE  DagInv' /\ ServedIsOneSnapshot'
<1>1. task' \in {task, 0} /\ step' = 0 /\ task \in 0 .. 7
  BY DEF Fail, Begin, DagInv
<1>2. QED
  BY <1>1, AtStart DEF DagInv

LEMMA TriggerKeeps ==
  ASSUME DagInv, ServedIsOneSnapshot, TriggerRun
  PROVE  DagInv' /\ ServedIsOneSnapshot'
<1>1. task' = 1 /\ step' = 0 /\ UNCHANGED <<topic, lake, served, listed>>
  BY DEF TriggerRun, Begin, data
<1>2. QED
  BY <1>1, AtStart

LEMMA DiesKeeps ==
  ASSUME DagInv, ServedIsOneSnapshot, AttemptDies
  PROVE  DagInv' /\ ServedIsOneSnapshot'
<1>1. Fail /\ UNCHANGED <<topic, lake, served, listed>>
  BY DEF AttemptDies, data
<1>2. QED
  BY <1>1, FailKeeps

LEMMA CheckBronzeKeeps ==
  ASSUME DagInv, ServedIsOneSnapshot, CheckBronze
  PROVE  DagInv' /\ ServedIsOneSnapshot'
<1>1. UNCHANGED <<topic, lake, served, listed>> /\ (Succeed \/ Fail)
  BY DEF CheckBronze, data
<1>2. task = 1
  BY TaskNumbers DEF CheckBronze, DagInv
<1>3. CASE Succeed
  <2>1. task' = 2 /\ step' = 0
    BY <1>2, <1>3, TaskNumbers DEF Succeed, Begin
  <2>2. QED
    BY <1>1, <2>1, AtStart
<1>4. QED
  BY <1>1, <1>3, FailKeeps

\* A gate that lets a dataset pass has found it without critical rows.
LEMMA QualityKeeps ==
  ASSUME DagInv, ServedIsOneSnapshot, QualityCheck
  PROVE  DagInv' /\ ServedIsOneSnapshot'
<1>1. UNCHANGED <<topic, lake, served, listed>>
      /\ (((\A d \in Checked : Passes(d)) /\ Succeed) \/ Fail)
  BY DEF QualityCheck, data
<1>2. task \in 0 .. 7
  BY DEF DagInv
<1>3. task \in {3, 5, 7}
  BY <1>2, TaskNumbers DEF QualityCheck, Checked
<1>4. CASE Succeed /\ \A d \in Checked : Passes(d)
  <2>1. task' = (IF task = 7 THEN 0 ELSE task + 1) /\ step' = 0
    BY <1>2, <1>4, TaskNumbers DEF Succeed, Begin
  <2>2. task = 5 => \A g \in Gold : lake[g] # Absent /\ ~Has(lake[g], "critical")
    <3>1. task = 5 => Checked = {lake[g] : g \in Gold}
      BY <1>2, TaskNumbers DEF Checked, Gold
    <3>2. QED
      BY <1>4, <3>1 DEF Passes, HasRows
  <2>3. QED
    BY <1>1, <1>3, <2>1, <2>2, AtStart DEF DagInv
<1>5. QED
  BY <1>1, <1>4, FailKeeps

\* The load takes over tables that are equal and have passed their gate.
LEMMA LoadKeeps ==
  ASSUME DagInv, ServedIsOneSnapshot, LoadGold
  PROVE  DagInv' /\ ServedIsOneSnapshot'
<1>1. task = 6
  BY TaskNumbers DEF LoadGold, DagInv
<1>2. UNCHANGED <<topic, lake, listed>>
  BY DEF LoadGold
<1>3. CASE served' = [g \in Range(GoldTables) |-> lake[g]] /\ Succeed
  <2>1. task' = 7 /\ step' = 0
    BY <1>1, <1>3, TaskNumbers DEF Succeed, Begin
  <2>2. DOMAIN served' = Gold /\ \A g \in Gold : served'[g] = lake[g]
    BY <1>3 DEF Gold
  <2>3. /\ \A g, h \in Gold : lake[g] = lake[h]
        /\ \A g \in Gold : ~Has(lake[g], "critical")
    BY <1>1 DEF DagInv
  <2>4. /\ \A d : Once(lake[d])' <=> Once(lake[d])
        /\ \A d : Once(served[d])' <=> Once(served'[d])
        /\ \A d : Has(lake[d], "critical")' <=> Has(lake[d], "critical")
        /\ \A d : Has(served[d], "critical")' <=> Has(served'[d], "critical")
        /\ SilverValid(listed)' = SilverValid(listed)
        /\ SilverRejected(listed)' = SilverRejected(listed)
        /\ Rows(listed)' = Rows(listed)
    BY <1>2 DEF Once, Rows, Has, SilverValid, SilverRejected, Accepted, Rejected
  <2>5. \A g \in Gold : served'[g] = Absent \/ Once(served[g])'
    BY <2>2, <2>4 DEF DagInv
  <2>6. DagInv'
    BY <1>1, <1>2, <2>1, <2>2, <2>4, <2>5 DEF DagInv
  <2>7. ServedIsOneSnapshot'
    BY <2>2, <2>3, <2>4 DEF ServedIsOneSnapshot, Gold
  <2>8. QED
    BY <2>6, <2>7
<1>4. CASE Fail /\ UNCHANGED served
  BY <1>2, <1>4, FailKeeps
<1>5. QED
  BY <1>3, <1>4 DEF LoadGold

\* What a step of a build leaves to be shown: the tables it has written so far.
LEMMA BuildStep ==
  ASSUME DagInv, ServedIsOneSnapshot, UNCHANGED <<topic, served>>,
         task' \in 2 .. 5, step' \in Nat, DOMAIN lake' = Lake,
         listed' \in Dataset, Rows(listed') \subseteq 1 .. Len(topic),
         \A d \in {"valid"} \cup Gold : lake'[d] = Absent \/ Once(lake'[d]),
         task' = 2 /\ step' > 0 =>
           /\ step' <= 4 /\ input' = listed'
           /\ step' > 2 => lake'["valid"] = SilverValid(listed'),
         task' > 2 => lake'["valid"] = SilverValid(listed')
                      /\ lake'["rejected"] = SilverRejected(listed'),
         task' = 4 /\ step' > 0 =>
           /\ step' <= 2 * Len(GoldTables) /\ Once(input')
           /\ \A j \in 1 .. Len(GoldTables) : 2 * j < step' => lake'[GoldTables[j]] = input',
         task' > 4 => \A g, h \in Gold : lake'[g] = lake'[h]
  PROVE  DagInv' /\ ServedIsOneSnapshot'
<1>1. /\ \A d : Once(lake[d])' <=> Once(lake'[d])
      /\ \A d : Once(served[d])' <=> Once(served[d])
      /\ Once(input)' <=> Once(input')
      /\ \A d : Has(served[d], "critical")' <=> Has(served[d], "critical")
      /\ SilverValid(listed)' = SilverValid(listed')
      /\ SilverRejected(listed)' = SilverRejected(listed')
      /\ Rows(listed)' = Rows(listed')
  BY DEF Once, Rows, Has, SilverValid, SilverRejected, Accepted, Rejected
<1>2. DagInv'
  BY <1>1 DEF DagInv
<1>3. ServedIsOneSnapshot'
  BY <1>1 DEF ServedIsOneSnapshot
<1>4. QED
  BY <1>2, <1>3

LEMMA ReadBronzeKeeps ==
  ASSUME StreamsInv, DagInv, ServedIsOneSnapshot, ReadBronze
  PROVE  DagInv' /\ ServedIsOneSnapshot'
<1>1. task = 2
  BY TaskNumbers DEF ReadBronze, DagInv
<1>2. UNCHANGED <<topic, lake, served>>
  BY DEF ReadBronze
<1>3. CASE BronzeReadable
  <2>1. /\ input' = bronze["valid"] /\ listed' = bronze["valid"] /\ step' = 1 /\ task' = 2
    BY <1>1, <1>3 DEF ReadBronze
  <2>2. bronze["valid"] \in Dataset /\ Rows(bronze["valid"]) \subseteq 1 .. Len(topic)
    BY DEF StreamsInv, StreamInv, Query
  <2>3. DOMAIN lake = Lake /\ \A d \in {"valid"} \cup Gold : lake[d] = Absent \/ Once(lake[d])
    BY DEF DagInv
  <2>4. QED
    BY <1>2, <2>1, <2>2, <2>3, BuildStep
<1>4. CASE ~BronzeReadable
  <2>1. Fail /\ UNCHANGED listed
    BY <1>4 DEF ReadBronze
  <2>2. QED
    BY <1>2, <2>1, FailKeeps
<1>5. QED
  BY <1>3, <1>4

LEMMA ReadSilverKeeps ==
  ASSUME DagInv, ServedIsOneSnapshot, ReadSilver
  PROVE  DagInv' /\ ServedIsOneSnapshot'
<1>1. task = 4
  BY TaskNumbers DEF ReadSilver, DagInv
<1>2. UNCHANGED <<topic, lake, served, listed>>
  BY DEF ReadSilver, data
<1>3. CASE HasRows(lake["valid"]) /\ ~Has(lake["valid"], "insane")
  <2>1. input' = lake["valid"] /\ step' = 1 /\ task' = 4
    BY <1>1, <1>3 DEF ReadSilver
  <2>2. Once(lake["valid"])
    BY <1>3 DEF DagInv, HasRows
  <2>3. \A j \in 1 .. Len(GoldTables) : ~(2 * j < 1)
    OBVIOUS
  <2>4. 1 <= 2 * Len(GoldTables)
    BY GoldNames
  <2>5. /\ DOMAIN lake = Lake /\ \A d \in {"valid"} \cup Gold : lake[d] = Absent \/ Once(lake[d])
        /\ listed \in Dataset /\ Rows(listed) \subseteq 1 .. Len(topic)
        /\ lake["valid"] = SilverValid(listed) /\ lake["rejected"] = SilverRejected(listed)
    BY <1>1 DEF DagInv
  <2>6. QED
    BY <1>2, <2>1, <2>2, <2>3, <2>4, <2>5, BuildStep
<1>4. CASE ~(HasRows(lake["valid"]) /\ ~Has(lake["valid"], "insane"))
  <2>1. Fail
    BY <1>4 DEF ReadSilver
  <2>2. QED
    BY <1>2, <2>1, FailKeeps
<1>5. QED
  BY <1>3, <1>4

\* The Silver build writes its valid rows, then its rejected rows.
LEMMA RewriteSilverKeeps ==
  ASSUME DagInv, ServedIsOneSnapshot, Rewrite, task = 2
  PROVE  DagInv' /\ ServedIsOneSnapshot'
<1>1. /\ step \in 1 .. 4 /\ input = listed
      /\ step > 2 => lake["valid"] = SilverValid(listed)
      /\ listed \in Dataset /\ Rows(listed) \subseteq 1 .. Len(topic)
      /\ DOMAIN lake = Lake
      /\ \A d \in {"valid"} \cup Gold : lake[d] = Absent \/ Once(lake[d])
  BY DEF DagInv, Rewrite
<1>2. Outputs = <<"valid", "rejected">> /\ Len(Outputs) = 2
  BY TaskNumbers DEF Outputs
<1>3. UNCHANGED <<topic, served, listed>>
  BY DEF Rewrite
<1>4. PICK d : d = Outputs[(step + 1) \div 2]
  OBVIOUS
<1>5. lake' = [lake EXCEPT ![d] = IF step % 2 = 1 THEN Absent ELSE Output(d)]
  BY <1>4 DEF Rewrite
<1>6. IF step = 4 THEN task' = 3 /\ step' = 0
      ELSE step' = step + 1 /\ UNCHANGED <<task, input>>
  BY <1>2, TaskNumbers DEF Rewrite, Succeed, Begin
<1>7. "valid" \in Lake /\ "rejected" \in Lake /\ "valid" \notin Gold /\ "rejected" \notin Gold
      /\ Gold \subseteq Lake
  BY GoldNames
<1>8. Once(SilverValid(listed))
  BY <1>1, SilverOnce
<1>9. Output("valid") = SilverValid(listed) /\ Output("rejected") = SilverRejected(listed)
  BY <1>1 DEF Output
<1>10. CASE step \in {1, 2}
  <2>1. d = "valid" /\ (step % 2 = 1 <=> step = 1)
    BY <1>2, <1>4, <1>10
  <2>2. /\ DOMAIN lake' = Lake /\ \A e \in Gold : lake'[e] = lake[e]
        /\ lake'["valid"] = IF step = 1 THEN Absent ELSE SilverValid(listed)
    BY <1>1, <1>5, <1>7, <1>9, <2>1
  <2>3. step' = step + 1 /\ task' = 2 /\ input' = listed
    BY <1>1, <1>6, <1>10
  <2>4. step' \in Nat /\ step' <= 4 /\ (step' > 2 => step # 1)
    BY <1>10, <2>3
  <2>5. QED
    BY <1>1, <1>3, <1>8, <2>2, <2>3, <2>4, BuildStep
<1>11. CASE step \in {3, 4}
  <2>1. d = "rejected" /\ (step % 2 = 1 <=> step = 3)
    BY <1>2, <1>4, <1>11
  <2>2. /\ DOMAIN lake' = Lake /\ \A e \in {"valid"} \cup Gold : lake'[e] = lake[e]
        /\ lake'["rejected"] = IF step = 3 THEN Absent ELSE SilverRejected(listed)
    BY <1>1, <1>5, <1>7, <1>9, <2>1
  <2>3. lake'["valid"] = SilverValid(listed)
    BY <1>1, <1>11, <2>2
  <2>4. CASE step = 3
    <3>1. step' = 4 /\ task' = 2 /\ input' = listed
      BY <1>1, <1>6, <2>4
    <3>2. QED
      BY <1>1, <1>3, <2>2, <2>3, <3>1, BuildStep
  <2>5. CASE step = 4
    <3>1. step' = 0 /\ task' = 3
      BY <1>6, <2>5
    <3>2. QED
      BY <1>1, <1>3, <2>2, <2>3, <2>5, <3>1, BuildStep
  <2>6. QED
    BY <1>11, <2>4, <2>5
<1>12. QED
  BY <1>1, <1>10, <1>11

\* The Gold build writes its tables in their order; with the last one all agree.
LEMMA RewriteGoldKeeps ==
  ASSUME DagInv, ServedIsOneSnapshot, Rewrite, task = 4
  PROVE  DagInv' /\ ServedIsOneSnapshot'
<1> DEFINE n == Len(GoldTables)
<1>1. /\ step \in 1 .. 2 * n /\ Once(input)
      /\ \A j \in 1 .. n : 2 * j < step => lake[GoldTables[j]] = input
      /\ listed \in Dataset /\ Rows(listed) \subseteq 1 .. Len(topic)
      /\ lake["valid"] = SilverValid(listed) /\ lake["rejected"] = SilverRejected(listed)
      /\ DOMAIN lake = Lake
      /\ \A d \in {"valid"} \cup Gold : lake[d] = Absent \/ Once(lake[d])
  BY GoldNames DEF DagInv, Rewrite
<1>2. Outputs = GoldTables
  BY TaskNumbers DEF Outputs
<1>3. UNCHANGED <<topic, served, listed>>
  BY DEF Rewrite
<1>4. PICK k : k = (step + 1) \div 2
  OBVIOUS
<1>5. n \in Nat /\ step \in Nat
  BY <1>1, GoldNames
<1>6. /\ k \in 1 .. n
      /\ \/ step = 2 * k - 1 /\ step % 2 = 1
         \/ step = 2 * k /\ step % 2 = 0
  <2>1. PICK s \in Nat : s = step
    BY <1>5
  <2>2. k = (s + 1) \div 2 /\ 1 <= s /\ s <= 2 * n
    BY <1>1, <1>4, <1>5, <2>1
  <2>3. k \in Nat /\ (s = 2 * k - 1 \/ s = 2 * k)
    BY <2>2
  <2>4. (s = 2 * k - 1 => s % 2 = 1) /\ (s = 2 * k => s % 2 = 0)
    BY <2>3
  <2>5. 1 <= k /\ k <= n
    BY <1>5, <2>2, <2>3
  <2>6. QED
    BY <1>5, <2>1, <2>3, <2>4, <2>5
<1>7. PICK d : d = GoldTables[k]
  OBVIOUS
<1>8. d \in Gold /\ d # "valid" /\ d # "rejected" /\ d \in Lake
  BY <1>6, <1>7, GoldNames
<1>9. Output(d) = input
  BY <1>8 DEF Output
<1>10. lake' = [lake EXCEPT ![d] = IF step % 2 = 1 THEN Absent ELSE input]
  BY <1>2, <1>4, <1>7, <1>9 DEF Rewrite
<1>11. IF step = 2 * n THEN task' = 5 /\ step' = 0
       ELSE step' = step + 1 /\ UNCHANGED <<task, input>>
  <2>1. IF step = 2 * n THEN Succeed ELSE step' = step + 1 /\ UNCHANGED <<task, try, input>>
    BY <1>2 DEF Rewrite
  <2>2. Succeed => task' = 5 /\ step' = 0
    BY TaskNumbers DEF Succeed, Begin
  <2>3. QED
    BY <2>1, <2>2
<1>12. /\ DOMAIN lake' = Lake
       /\ lake'["valid"] = lake["valid"] /\ lake'["rejected"] = lake["rejected"]
       /\ \A e \in Gold : e # d => lake'[e] = lake[e]
       /\ lake'[d] = IF step % 2 = 1 THEN Absent ELSE input
  BY <1>1, <1>8, <1>10, GoldNames
<1>13. \A e \in {"valid"} \cup Gold : lake'[e] = Absent \/ Once(lake'[e])
  BY <1>1, <1>12
<1>14. ASSUME NEW j \in 1 .. n, 2 * j < step + 1 PROVE lake'[GoldTables[j]] = input
  <2>1. CASE j = k
    <3>1. step % 2 = 0
      BY <1>5, <1>6, <1>14, <2>1
    <3>2. QED
      BY <1>7, <1>12, <2>1, <3>1
  <2>2. CASE j # k
    <3>1. 2 * j < step
      BY <1>5, <1>6, <1>14, <2>2
    <3>2. GoldTables[j] # d /\ GoldTables[j] \in Gold
      BY <1>6, <1>7, <2>2, GoldNames
    <3>3. QED
      BY <1>1, <1>12, <3>1, <3>2
  <2>3. QED
    BY <2>1, <2>2
<1>15. CASE step = 2 * n
  <2>1. task' = 5 /\ step' = 0
    BY <1>11, <1>15
  <2>2. \A j \in 1 .. n : lake'[GoldTables[j]] = input
    BY <1>5, <1>14, <1>15
  <2>3. \A g \in Gold : lake'[g] = input
    BY <2>2, GoldNames
  <2>4. QED
    BY <1>1, <1>3, <1>12, <1>13, <2>1, <2>3, BuildStep
<1>16. CASE step # 2 * n
  <2>1. step' = step + 1 /\ task' = 4 /\ input' = input
    BY <1>11, <1>16
  <2>2. step' \in Nat /\ step' <= 2 * n
    BY <1>1, <1>5, <1>16, <2>1
  <2>3. \A j \in 1 .. n : 2 * j < step' => lake'[GoldTables[j]] = input
    BY <1>14, <2>1
  <2>4. QED
    BY <1>1, <1>3, <1>12, <1>13, <2>1, <2>2, <2>3, BuildStep
<1>17. QED
  BY <1>15, <1>16

-----------------------------------------------------------------------------
(* The invariant.                                                            *)

LEMMA InitIInv == Init => IInv
<1> SUFFICES ASSUME Init PROVE IInv
  OBVIOUS
<1>1. /\ topic = <<>> /\ up = {} /\ written = {} /\ task = 0 /\ step = 0
      /\ planned = [q \in Query |-> 0] /\ sunk = planned /\ done = planned
      /\ bronze = [q \in Query |-> Nothing] /\ listed = Nothing
      /\ lake = [d \in Lake |-> Absent] /\ served = [g \in Range(GoldTables) |-> Absent]
  BY DEF Init
<1>2. MaxRecords \in Nat
  BY LakeAssumption
<1>3. Nothing \in Dataset /\ \A o \in Offset : Nothing[o] = 0
  BY DEF Nothing, Dataset
<1>4. Rows(Nothing) = {}
  BY <1>3 DEF Rows
<1>5. topic \in Seq(Record) /\ Len(topic) = 0
  BY <1>1
<1>6. ASSUME NEW q \in Query PROVE StreamInv(q)
  <2>1. planned[q] = 0 /\ sunk[q] = 0 /\ done[q] = 0 /\ bronze[q] = Nothing
    BY <1>1
  <2>2. QED
    BY <1>1, <1>3, <1>4, <1>5, <2>1 DEF StreamInv
<1>7. StreamsInv
  BY <1>1, <1>2, <1>5, <1>6 DEF StreamsInv
<1>8. DagInv
  BY <1>1, <1>3, <1>4, GoldNames DEF DagInv, Gold
<1>9. ServedIsOneSnapshot
  BY <1>1 DEF ServedIsOneSnapshot
<1>10. QED
  BY <1>7, <1>8, <1>9 DEF IInv

\* The queries: the topic stays or grows, and the DAG is left alone.
LEMMA QueryStep ==
  ASSUME IInv, UNCHANGED <<topic, attempt, data>>
  PROVE  DagInv' /\ ServedIsOneSnapshot'
<1>1. Len(topic) \in Nat
  BY DEF IInv, StreamsInv
<1>2. QED
  BY <1>1, GrownDag DEF IInv

LEMMA NextIInv == IInv /\ [Next]_vars => IInv'
<1> SUFFICES ASSUME IInv, [Next]_vars PROVE IInv'
  OBVIOUS
<1> USE DEF IInv
<1>1. ASSUME NEW r \in Record, Produce(r) PROVE IInv'
  <2>1. topic' = Append(topic, r) /\ UNCHANGED <<attempt, data>> /\ topic \in Seq(Record)
    BY <1>1 DEF Produce, StreamsInv
  <2>2. /\ Len(topic) \in Nat /\ Len(topic') \in Nat /\ Len(topic) <= Len(topic')
        /\ \A o \in 1 .. Len(topic) : topic'[o] = topic[o]
    BY <2>1
  <2>3. QED
    BY <1>1, <2>1, <2>2, ProduceStreams, GrownDag
<1>2. CASE StartQueries
  BY <1>2, StartStreams, QueryStep DEF StartQueries
<1>3. CASE StopQueries
  <2>1. PICK S \in SUBSET Query : Stop(S)
    <3>1. up \in SUBSET Query /\ {"invalid"} \in SUBSET Query
      BY DEF StreamsInv, Query
    <3>2. QED
      BY <1>3, <3>1 DEF StopQueries
  <2>2. UNCHANGED <<topic, attempt, data>>
    BY <2>1 DEF Stop
  <2>3. QED
    BY <2>1, <2>2, StopStreams, QueryStep
<1>4. ASSUME NEW q \in Query, PlanBatch(q) PROVE IInv'
  BY <1>4, PlanStreams, QueryStep DEF PlanBatch
<1>5. ASSUME NEW q \in Query, WriteFiles(q) PROVE IInv'
  BY <1>5, WriteStreams, QueryStep DEF WriteFiles
<1>6. ASSUME NEW q \in Query, CommitSink(q) PROVE IInv'
  BY <1>6, SinkStreams, QueryStep DEF CommitSink
<1>7. ASSUME NEW q \in Query, CommitBatch(q) PROVE IInv'
  BY <1>7, CommitStreams, QueryStep DEF CommitBatch
<1>8. CASE TriggerRun
  BY <1>8, StreamsRest, TriggerKeeps DEF TriggerRun
<1>9. CASE AttemptDies
  BY <1>9, StreamsRest, DiesKeeps DEF AttemptDies
<1>10. CASE CheckBronze
  BY <1>10, StreamsRest, CheckBronzeKeeps DEF CheckBronze
<1>11. CASE ReadBronze
  BY <1>11, StreamsRest, ReadBronzeKeeps DEF ReadBronze
<1>12. CASE Rewrite
  <2>1. task \in {2, 4}
    BY <1>12, TaskNumbers DEF Rewrite, DagInv
  <2>2. QED
    BY <1>12, <2>1, StreamsRest, RewriteSilverKeeps, RewriteGoldKeeps DEF Rewrite
<1>13. CASE ReadSilver
  BY <1>13, StreamsRest, ReadSilverKeeps DEF ReadSilver
<1>14. CASE QualityCheck
  BY <1>14, StreamsRest, QualityKeeps DEF QualityCheck
<1>15. CASE LoadGold
  BY <1>15, StreamsRest, LoadKeeps DEF LoadGold
<1>16. CASE UNCHANGED vars
  <2>1. UNCHANGED <<topic, streams, attempt, data>>
    BY <1>16 DEF vars
  <2>2. QED
    BY <2>1, StreamsRest, QueryStep
<1>17. QED
  BY <1>1, <1>2, <1>3, <1>4, <1>5, <1>6, <1>7, <1>8, <1>9, <1>10, <1>11, <1>12, <1>13,
     <1>14, <1>15, <1>16 DEF Next, TaskStep

LEMMA SpecIInv == Spec => []IInv
BY InitIInv, NextIInv, PTL DEF Spec

-----------------------------------------------------------------------------
(* What follows from it.                                                     *)

\* Whatever the queries' logs and wherever they stop, a record that a query has
\* committed is among the rows of its dataset.
THEOREM SpecBronzeMissesNothing == Spec => []BronzeMissesNothing
<1>1. IInv => BronzeMissesNothing
  <2> SUFFICES ASSUME IInv, NEW q \in Query, NEW o \in 1 .. done[q], Destination(o) = q
               PROVE  bronze[q][o] > 0
    BY DEF BronzeMissesNothing
  <2>1. StreamInv(q)
    BY DEF IInv, StreamsInv
  <2>2. o \in 1 .. sunk[q]
    BY <2>1 DEF StreamInv
  <2>3. QED
    BY <2>1, <2>2 DEF StreamInv
<1>2. QED
  BY SpecIInv, <1>1, PTL

\* A served Gold table counts one row of each event, although producers repeat
\* events, Bronze repeats rows and the builds are retried.
THEOREM SpecEventsAreServedOnce == Spec => []EventsAreServedOnce
<1>1. IInv => EventsAreServedOnce
  BY DEF IInv, DagInv, Once, Gold, EventsAreServedOnce
<1>2. QED
  BY SpecIInv, <1>1, PTL

\* The serving tables come from one Silver snapshot that passed the gates.
THEOREM SpecServedIsOneSnapshot == Spec => []ServedIsOneSnapshot
<1>1. IInv => ServedIsOneSnapshot
  BY DEF IInv
<1>2. QED
  BY SpecIInv, <1>1, PTL

\* Past the Silver build, every row it read is rejected or represented by exactly
\* one row of its event that is at least as new, and there is no other row.
THEOREM SpecSilverAccountsForBronze == Spec => []SilverAccountsForBronze
<1>1. IInv => SilverAccountsForBronze
  <2> SUFFICES ASSUME IInv, task > 2 PROVE SilverAccountsForBronze
    BY DEF SilverAccountsForBronze
  <2> DEFINE V == lake["valid"]
             R == lake["rejected"]
  <2>1. /\ V = SilverValid(listed) /\ R = SilverRejected(listed)
        /\ listed \in Dataset /\ Rows(listed) \subseteq 1 .. Len(topic)
    BY DEF IInv, DagInv
  <2>2. Once(V)
    BY <2>1, SilverOnce
  <2>3. /\ V \in Dataset /\ R \in Dataset
        /\ Rows(V) \subseteq Offset /\ Rows(R) \subseteq Offset /\ Rows(listed) \subseteq Offset
    BY <2>1, SilverRows, RowsOf
  <2>4. Rows(V) \cup Rows(R) \subseteq Rows(listed)
    BY <2>1, <2>3, SilverRows
  <2>5. ASSUME NEW o \in Rows(listed), Rejected(o) PROVE R[o] = listed[o]
    BY <2>1, <2>3, <2>5, SilverRows
  <2>6. ASSUME NEW o \in Rows(listed), ~Rejected(o)
        PROVE  \E p \in Rows(V) : p >= o /\ topic[p].event = topic[o].event
    <3> DEFINE S == {p \in Rows(listed) : ~Rejected(p) /\ topic[p].event = topic[o].event}
    <3>1. o \in S /\ S \in SUBSET Offset
      BY <2>3, <2>6
    <3>2. PICK m \in S : \A p \in S : p <= m
      <4> HIDE DEF S
      <4>1. QED
        BY <3>1, Greatest
    <3>3. /\ m \in Offset /\ m \in Rows(listed) /\ ~Rejected(m)
          /\ topic[m].event = topic[o].event
          /\ \A p \in Rows(listed) : ~Rejected(p) /\ topic[p].event = topic[m].event => p <= m
      BY <3>1, <3>2
    <3>4. m \in Rows(V)
      BY <2>1, <3>3, SilverRows
    <3>5. m >= o
      BY <3>1, <3>2 DEF Offset
    <3>6. QED
      BY <3>3, <3>4, <3>5
  <2>7. \A o, p \in Rows(V) : topic[o].event = topic[p].event => o = p
    BY <2>2 DEF Once
  <2>8. QED
    BY <2>4, <2>5, <2>6, <2>7 DEF SilverAccountsForBronze
<1>2. QED
  BY SpecIInv, <1>1, PTL
=============================================================================
