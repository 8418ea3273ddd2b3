--------------------------- MODULE MarketplaceLake ---------------------------
(***************************************************************************)
(* Marketplace events from the topic to the serving tables: the two Bronze *)
(* streaming queries (src/streaming/spark_streaming.py) and the tasks of   *)
(* pulse_analytics_pipeline that turn Bronze into Silver, Gold and         *)
(* analytics tables behind their quality gates.                            *)
(*                                                                         *)
(* Bronze valid and invalid are written by two queries with checkpoints of *)
(* their own.  The DAG runs its tasks one after another, each with one     *)
(* retry, and reads the physical Parquet files of Bronze, whether the sink *)
(* has committed them or not.  Silver and Gold outputs are deleted and     *)
(* rewritten one after another; any step may be the last of its process.   *)
(*                                                                         *)
(* A dataset is the number of rows it has of each topic offset.  A Gold    *)
(* table stands for the Silver rows it was aggregated from.                *)
(***************************************************************************)
EXTENDS Naturals, Sequences, FiniteSets, SequencesExt

CONSTANTS
    Record,     \* what producers write: an event identity and a class
    GoldTables, \* the tables of write_gold_tables, in order
    Absent,     \* a dataset without data files
    Retries,    \* TASK_RETRIES
    MaxRecords, MaxRestarts, MaxRuns  \* bounds

ASSUME LakeAssumption ==
    /\ \A r \in Record : r.class \in {"malformed", "rejected", "insane", "critical", "good"}
    /\ GoldTables \in Seq(Range(GoldTables)) /\ GoldTables # <<>> /\ IsInjective(GoldTables)
    /\ {"valid", "rejected"} \cap Range(GoldTables) = {}
    /\ {Retries, MaxRecords, MaxRestarts, MaxRuns} \subseteq Nat

Query == {"valid", "invalid"}
Offset == 1 .. MaxRecords
Dataset == [Offset -> Nat]
Lake == {"valid", "rejected"} \cup Range(GoldTables)
Tasks == <<"check_bronze_available", "build_silver", "quality_check_silver", "build_gold",
           "quality_check_gold", "load_gold_to_warehouse", "quality_check_warehouse">>

VARIABLES
    topic,    \* the records of the partition
    up,       \* queries that run
    planned,  \* per query: end of the latest batch in the offset log
    sunk,     \* per query: end of the latest batch in the sink's log
    done,     \* per query: end of the latest batch in the commit log
    written,  \* queries that have written the files of their batch
    bronze,   \* per query: its physical rows
    torn,     \* whether an interrupted write left an unreadable file in valid
    restarts, \* how often the streaming job was started
    task,     \* position in Tasks of the task that runs, 0 for no DAG run
    try,      \* its attempt
    step,     \* how far the attempt has come
    input,    \* what the attempt has read
    lake,     \* Silver and Gold on disk
    served,   \* per Gold table: what the warehouse serves
    runs,     \* DAG runs triggered
    listed    \* what the latest Silver build read (kept for the properties)

streams == <<up, planned, sunk, done, written, bronze, torn, restarts>>
attempt == <<task, try, step, input>>
data == <<lake, served, listed>>
vars == <<topic, streams, attempt, data, runs>>

Nothing == [o \in Offset |-> 0]

TypeOK ==
    /\ topic \in Seq(Record) /\ Len(topic) <= MaxRecords
    /\ up \subseteq Query /\ written \subseteq up
    /\ \A q \in Query : done[q] <= sunk[q] /\ sunk[q] <= planned[q] /\ planned[q] <= Len(topic)
    /\ bronze \in [Query -> Dataset]
    /\ torn \in BOOLEAN
    /\ task \in 0 .. Len(Tasks) /\ try \in 1 .. Retries + 1
    /\ input \in Dataset \cup {Absent}
    /\ lake \in [Lake -> Dataset \cup {Absent}]
    /\ served \in [Range(GoldTables) -> Dataset \cup {Absent}]

Init ==
    /\ topic = <<>>
    /\ up = {} /\ written = {}
    /\ planned = [q \in Query |-> 0] /\ sunk = planned /\ done = planned
    /\ bronze = [q \in Query |-> Nothing] /\ torn = FALSE /\ restarts = 0
    /\ task = 0 /\ try = 1 /\ step = 0 /\ input = Absent
    /\ lake = [d \in Lake |-> Absent]
    /\ served = [g \in Range(GoldTables) |-> Absent]
    /\ runs = 0 /\ listed = Nothing

-----------------------------------------------------------------------------
(* The topic and the streaming queries.                                     *)

\* Producers append, the same event more than once if need be.
Produce(r) ==
    /\ Len(topic) < MaxRecords
    /\ topic' = Append(topic, r)
    /\ UNCHANGED <<streams, attempt, data, runs>>

\* classify_marketplace_events: each record has one of the two destinations.
Destination(o) == IF topic[o].class = "malformed" THEN "invalid" ELSE "valid"

\* Plausible fault: without their checkpoints queries start at the latest offset.
StartAtLatest ==
    /\ up = {} /\ restarts < MaxRestarts
    /\ up' = Query /\ restarts' = restarts + 1
    /\ planned' = [q \in Query |-> Len(topic)] /\ sunk' = planned' /\ done' = planned'
    /\ UNCHANGED <<topic, written, bronze, torn, attempt, data, runs>>

\* A query goes on where its checkpoint stands, at first with the earliest offset.
StartQueries ==
    /\ up = {} /\ restarts < MaxRestarts
    /\ up' = Query /\ restarts' = restarts + 1
    /\ UNCHANGED <<topic, planned, sunk, done, written, bronze, torn, attempt, data, runs>>

\* The next batch ends with the latest offset; its end is logged before it runs.
PlanBatch(q) ==
    /\ q \in up /\ planned[q] = done[q] /\ done[q] < Len(topic)
    /\ planned' = [planned EXCEPT ![q] = Len(topic)]
    /\ UNCHANGED <<topic, up, sunk, done, written, bronze, torn, restarts, attempt, data, runs>>

\* The batch at hand: what is logged and not committed.
Batch(q) == {o \in done[q] + 1 .. planned[q] : Destination(o) = q}

WriteFiles(q) ==
    /\ q \in up \ written /\ sunk[q] < planned[q]
    /\ written' = written \cup {q}
    /\ bronze' = [bronze EXCEPT ![q] = [o \in Offset |-> @[o] + IF o \in Batch(q) THEN 1 ELSE 0]]
    /\ UNCHANGED <<topic, up, planned, sunk, done, torn, restarts, attempt, data, runs>>

\* The sink logs the files; a batch it has logged is not written again.
CommitSink(q) ==
    /\ q \in written
    /\ sunk' = [sunk EXCEPT ![q] = planned[q]]
    /\ written' = written \ {q}
    /\ UNCHANGED <<topic, up, planned, done, bronze, torn, restarts, attempt, data, runs>>

CommitBatch(q) ==
    /\ q \in up /\ done[q] < planned[q] /\ sunk[q] = planned[q]
    /\ done' = [done EXCEPT ![q] = planned[q]]
    /\ UNCHANGED <<topic, up, planned, sunk, written, bronze, torn, restarts, attempt, data, runs>>

\* main waits for the valid query: when that ends, spark.stop() ends both; the
\* invalid query may fail unnoticed.  Files that were not logged stay, or are
\* removed, and a file of the valid query may stay unfinished.
Stop(S) ==
    /\ up' = up \ S /\ written' = written \ S
    /\ \E cleaned \in SUBSET (S \cap written) :
          bronze' = [q \in Query |->
              IF q \in cleaned
              THEN [o \in Offset |-> bronze[q][o] - IF o \in Batch(q) THEN 1 ELSE 0]
              ELSE bronze[q]]
    /\ torn' \in {torn, torn \/ ("valid" \in S \ written /\ sunk["valid"] < planned["valid"])}
    /\ UNCHANGED <<topic, planned, sunk, done, restarts, attempt, data, runs>>

StopQueries == up # {} /\ (Stop(up) \/ (up = Query /\ Stop({"invalid"})))

-----------------------------------------------------------------------------
(* The DAG.                                                                 *)

Running(name) == task > 0 /\ Tasks[task] = name

Begin(t, n) == task' = t /\ try' = n /\ step' = 0 /\ input' = Absent

\* One active run at a time.
TriggerRun ==
    /\ task = 0 /\ runs < MaxRuns
    /\ runs' = runs + 1
    /\ Begin(1, 1)
    /\ UNCHANGED <<topic, streams, data>>

Succeed == Begin(IF task = Len(Tasks) THEN 0 ELSE task + 1, 1)

\* The attempt fails: it is retried, or the run ends and nothing downstream runs.
Fail == Begin(IF try <= Retries THEN task ELSE 0, IF try <= Retries THEN try + 1 ELSE 1)

\* The process dies, is killed, or loses what it depends on.
AttemptDies ==
    /\ task > 0
    /\ Fail
    /\ UNCHANGED <<topic, streams, data, runs>>

HasRows(d) == d # Absent /\ d # Nothing

\* read_parquet_data_files on Bronze valid: every physical file.
BronzeReadable == ~torn /\ HasRows(bronze["valid"])

CheckBronze ==
    /\ Running("check_bronze_available")
    /\ IF BronzeReadable THEN Succeed ELSE Fail
    /\ UNCHANGED <<topic, streams, data, runs>>

\* classify_silver_events
Rejected(o) == topic[o].class = "rejected"

Rows(d) == {o \in Offset : d[o] > 0}

Accepted(rows) == {o \in Rows(rows) : ~Rejected(o)}

\* Plausible fault: only copies of one record are told apart, not its later versions.
SilverPerRecord(rows) == [o \in Offset |-> IF o \in Accepted(rows) THEN 1 ELSE 0]

\* Plausible fault: versions are ranked before they are classified.
SilverRankedFirst(rows) ==
    [o \in Offset |->
        IF /\ o \in Accepted(rows)
           /\ \A p \in Rows(rows) : topic[p].event = topic[o].event => p <= o
        THEN 1 ELSE 0]

\* The newest accepted row of each event; its copies are equal and one is kept.
SilverValid(rows) ==
    [o \in Offset |->
        IF o \in Accepted(rows)
           /\ \A p \in Accepted(rows) : topic[p].event = topic[o].event => p <= o
        THEN 1 ELSE 0]

SilverRejected(rows) == [o \in Offset |-> IF o \in Rows(rows) /\ Rejected(o) THEN rows[o] ELSE 0]

Outputs == IF Running("build_silver") THEN <<"valid", "rejected">> ELSE GoldTables

Output(d) ==
    CASE d = "valid" -> SilverValid(input)
      [] d = "rejected" -> SilverRejected(input)
      [] OTHER -> input

\* Both write their outputs in turn: an output is removed, then written.
Rewrite ==
    /\ Running("build_silver") \/ Running("build_gold")
    /\ step > 0
    /\ LET d == Outputs[(step + 1) \div 2] IN
       lake' = [lake EXCEPT ![d] = IF step % 2 = 1 THEN Absent ELSE Output(d)]
    /\ IF step = 2 * Len(Outputs) THEN Succeed
       ELSE step' = step + 1 /\ UNCHANGED <<task, try, input>>
    /\ UNCHANGED <<topic, streams, served, listed, runs>>

\* build_silver_snapshot lists the files of Bronze valid once.
ReadBronze ==
    /\ Running("build_silver") /\ step = 0
    /\ IF BronzeReadable
       THEN input' = bronze["valid"] /\ listed' = input' /\ step' = 1 /\ UNCHANGED <<task, try>>
       ELSE Fail /\ UNCHANGED listed
    /\ UNCHANGED <<topic, streams, lake, served, runs>>

Has(d, class) == \E o \in Rows(d) : topic[o].class = class

\* build_gold reads Silver valid and raises on insane aggregates before it writes.
ReadSilver ==
    /\ Running("build_gold") /\ step = 0
    /\ IF HasRows(lake["valid"]) /\ ~Has(lake["valid"], "insane")
       THEN input' = lake["valid"] /\ step' = 1 /\ UNCHANGED <<task, try>>
       ELSE Fail
    /\ UNCHANGED <<topic, streams, data, runs>>

\* What a quality task reads.
Checked ==
    CASE Running("quality_check_silver") -> {lake["valid"]}
      [] Running("quality_check_gold") -> {lake[g] : g \in Range(GoldTables)}
      [] Running("quality_check_warehouse") -> {served[g] : g \in Range(GoldTables)}
      [] OTHER -> {}

\* Every dataset is readable and none breaks a critical rule.
Passes(d) == HasRows(d) /\ ~Has(d, "critical")

QualityCheck ==
    /\ Checked # {}
    /\ IF \A d \in Checked : Passes(d) THEN Succeed ELSE Fail
    /\ UNCHANGED <<topic, streams, data, runs>>

\* Plausible fault: every table in a transaction of its own.
LoadGoldPerTable ==
    /\ Running("load_gold_to_warehouse")
    /\ \E g \in Range(GoldTables) : HasRows(lake[g]) /\ served' = [served EXCEPT ![g] = lake[g]]
    /\ IF \A g \in Range(GoldTables) : served'[g] = lake[g] THEN Succeed
       ELSE Fail
    /\ UNCHANGED <<topic, streams, lake, listed, runs>>

\* All tables in one transaction, of which WarehouseRefresh has the details.
LoadGold ==
    /\ Running("load_gold_to_warehouse")
    /\ IF \A g \in Range(GoldTables) : HasRows(lake[g])
       THEN served' = [g \in Range(GoldTables) |-> lake[g]] /\ Succeed
       ELSE Fail /\ UNCHANGED served
    /\ UNCHANGED <<topic, streams, lake, listed, runs>>

TaskStep ==
    CheckBronze \/ ReadBronze \/ Rewrite \/ ReadSilver \/ QualityCheck \/ LoadGold

Next ==
    \/ \E r \in Record : Produce(r)
    \/ StartQueries \/ StopQueries
    \/ \E q \in Query : PlanBatch(q) \/ WriteFiles(q) \/ CommitSink(q) \/ CommitBatch(q)
    \/ TriggerRun \/ AttemptDies \/ TaskStep

Spec == Init /\ [][Next]_vars

-----------------------------------------------------------------------------
(* Correctness.                                                             *)

\* Bronze misses nothing: a record that a query has committed is among its rows
\* if it is the query's, over crashes between any two of the query's logs; so
\* "invalid messages are never silently discarded".
BronzeMissesNothing ==
    \A q \in Query : \A o \in 1 .. done[q] : Destination(o) = q => bronze[q][o] > 0

\* Served metrics count every event once, however often it was published or its
\* Bronze files were rewritten: one row of each offset, one offset of each event.
EventsAreServedOnce ==
    \A g \in Range(GoldTables) : served[g] # Absent =>
        \A o, p \in Rows(served[g]) :
            served[g][o] = 1 /\ (topic[o].event = topic[p].event => o = p)

\* The serving tables always come from one Silver snapshot, although Gold is
\* rewritten table by table and any attempt may end halfway; and whatever was
\* rewritten between its gates and the load, nothing in it breaks a critical rule.
ServedIsOneSnapshot ==
    /\ \A g, h \in Range(GoldTables) : served[g] = served[h]
    /\ \A g \in Range(GoldTables) : served[g] # Absent => ~Has(served[g], "critical")

\* Past build_silver, the Silver on disk accounts for every row the build read:
\* the row is rejected, or its event has exactly one valid row, at least as new.
\* A retry that read more leaves nothing of the attempt before it.
SilverAccountsForBronze ==
    task > 2 =>
        /\ \A o \in Rows(listed) :
              IF Rejected(o) THEN lake["rejected"][o] = listed[o]
              ELSE \E p \in Rows(lake["valid"]) : p >= o /\ topic[p].event = topic[o].event
        /\ Rows(lake["valid"]) \cup Rows(lake["rejected"]) \subseteq Rows(listed)
        /\ \A o, p \in Rows(lake["valid"]) : topic[o].event = topic[p].event => o = p

=============================================================================
