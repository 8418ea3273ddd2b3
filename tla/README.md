# Verification of the Pulse Data Platform

This directory holds TLA+ models of the Pulse Data Platform, TLC configurations
that check them on small instances, and TLAPS proofs. Paths below are relative
to the repository. `PROJECT.json` lists the components, the runs, the source
lines of every definition, the hazards and the theorems.

    tlc -workers 2 -config RetentionRaces.cfg MCAlertTransactions
    tlapm AlertLifecycle_proofs.tla

## 1. The system

Pulse is a lakehouse for small businesses. Producers put marketplace events on
a Kafka topic and a connector pulls Shopify orders; Spark keeps them as Bronze
Parquet. A manually triggered Airflow DAG rebuilds Silver and Gold from Bronze,
loads Gold into PostgreSQL (`analytics`), and checks each layer with a quality
gate that blocks what is downstream. Gates and the anomaly evaluation write
results and alerts to the `monitoring` schema. A second DAG, every five
minutes, delivers notifications of those alerts and applies retention. The
analyst service answers questions about a business: it queries dbt views of what
is served, derives opportunities, plans, decisions and an order of work from the
evidence, and may ask a language model to word an answer.

    producers -> Kafka -> Bronze valid / invalid -> Silver -> Gold -> analytics.*
    Shopify  -> connector --^        gates at every layer     |         |
                  SQLite state                                v         v
                            monitoring.quality_runs, anomaly_results -> alerts
                                        alerts -> deliveries; retention
    analytics.* -> views -> evidence context -> decision chain -> analyst API

| part | state | operations | interacts with |
|---|---|---|---|
| Alert lifecycle, `src/quality/alert_service.py` | `alert_events`, `alert_occurrences`, `alert_event_history` | `record_alert`, `acknowledge_alert`, `resolve_alert` | called in the transactions of persistence |
| Persistence, `persistence.py`, `anomaly_persistence.py` | result tables | one transaction per dataset or evaluation | advisory locks and row locks with operators and retention |
| Retention, `retention.py` | none of its own | `apply_retention` | deletes from all monitoring tables |
| Delivery, `delivery.py` | `alert_deliveries` | `deliver_due`, `retry_delivery` | reads alerts, calls a provider, races with other senders and retention |
| Shopify connector, `src/onboarding/shopify*.py`, `connector_state.py` | SQLite checkpoint and projections; Bronze rows | `run_shopify_ingestion` | Shopify's clock and edits; Silver |
| Kafka producer and consumer | client queue; committed offset | `publish`, `consume` | the broker and its group coordinator |
| Bronze streaming, `spark_streaming.py` | Parquet files, checkpoints of two queries | start, batch, stop | topic; Silver reads its files |
| Silver and Gold, `silver_streaming.py`, `gold_build.py` | Parquet snapshots | rebuild | read the layer below, rewritten in place |
| Analytics DAG, `airflow/dags/pulse_analytics_pipeline.py` | the task that runs and its attempt | 25 tasks in a chain, one retry each | starts all of the above |
| Warehouse loaders, `src/warehouse/load_*.py` | `analytics` tables | load (one transaction) | gate and metrics read the same tables |
| Quality runner, `runner.py`, `warehouse.py` | none of its own | check a dataset, persist, block | reads every layer |
| Anomaly evaluation, `anomaly_sources.py`, `anomaly.py` | `anomaly_results` | read the metric series, evaluate, persist | serving tables, alert lifecycle |
| Decision chain, `src/intelligence/opportunities.py`, `investigations.py`, `decisions.py`, `sequencing.py` | none: pure functions of a context | opportunities, plans and tasks, readiness of decisions, order of the work | each layer takes the one before it and validates what it built |
| Analyst service, `src/api/service.py`, `src/intelligence/context.py`, `narration.py` and the `*_answers.py` | the request it works on | lists, details, questions about an item, narration | six queries with a connection each, the chain, a provider |
| Onboarding registry, domain pipelines, pilots, benchmarks, dashboards | files, or none | see `PROJECT.json` | |

What makes these parts correct, and what is hard about them:

- **Alerts.** At most one active alert per incident; counts are numbers of
  distinct executions although executions are retried and replayed; a resolved
  alert is history. Hard: concurrent recorders, late observations, replays after
  resolution, retention that deletes the very receipts replays rely on, locks
  taken in different orders.
- **Delivery.** Never two successful deliveries of one notification, attempts in
  a sensible order and spacing, nothing due is forgotten. Hard: claims,
  sending and completion are three steps; clocks and candidate lists are stale;
  processes die; alerts change or vanish meanwhile.
- **Connector.** Nothing edited is missed and lines removed from an order
  disappear. Hard: Bronze and SQLite commit separately, timestamps have a grain,
  pages move while they are turned, runs may overlap.
- **Kafka.** Success is reported only for what is stored; records are not
  skipped in silence. Hard: lost acknowledgements, full queues, rebalances.
- **Lake and DAG.** Every committed record is in Bronze, each event counts once,
  what is served comes from one snapshot that passed its gates. Hard: files that
  no log knows, in-place rewriting, retries over what a failed attempt left.
- **Warehouse.** The tables of a domain change together and nobody reads a
  mixture. Hard: `TRUNCATE` is not versioned, lock orders differ, first loads.
- **Decision chain.** What is recommended must follow from evidence: a ready
  decision has the evidence its frame asks for, no gap is forgotten, no layer
  refuses what the one before it built. Hard: a gap is kept by requirement, a
  step by task, a need by decision, and each layer derives one from another.
- **Analyst service.** An answer cites evidence of its context only, and what is
  listed can be asked about. Hard: loads fall between the queries of one context,
  ids come from other contexts, and a provider may answer anything, twice.

## 2. Modules

`MC*` modules give constants their values. A comment before each definition says
what it stands for; "Plausible fault" marks a variant that some run would refute.

**`AlertLifecycle`** - what the monitoring database promises; each action is one
committed transaction. `alerts`, `receipts` and `history` are the three tables.
`RecordAlerts` is all `record_alert` calls of one persisted run (`Known` is the
receipt lookup, `Target` the alert that is updated or opened, `Recorded` the
insert or update); `ChangeStatus` is `change_status` with its audit row;
`PurgeAlerts` is what `apply_retention` does to alerts. `ledger` is auxiliary: it
remembers what was ever counted, beyond the receipts that retention deletes.

**`AlertTransactions`** - how those transactions come about under READ COMMITTED
and locks: recorders take the advisory lock and then the row of each incident in
sorted order, operators one of each, retention first its own lock, then the rows
of all expired alerts in order without the incidents' locks. `lock` has the
holder of each lock, `plan` what a recorder will write. `BreakDeadlock` is
PostgreSQL's deadlock detector, `Refused` the unique index on active alerts.
It implements `AlertLifecycle`: `Refinement == Lifecycle!Spec`, where `Lifecycle
== INSTANCE AlertLifecycle` maps the tables to themselves.

**`AlertDelivery`** - composes `AlertLifecycle` with senders. `Discover` reads the
clock and the candidates (the SQL of `_discover_candidates` is `Due`,
`Attemptable`, and `Candidates`, the one list in the order of `Earlier`), `Claim`
re-checks and inserts a PENDING attempt,
`Send` calls the provider, `Complete` or `MissAttempt` ends the attempt, `Retry`
is the command line. A sender may die anywhere. An attempt row is its status and its
`completed_at_utc`, which `_complete` takes from the clock of the sweep.

**`ShopifyIngestion`** - a run moves through extract (a page per step), project,
persist to Bronze and record to SQLite, and may fail or die in between. `orders`
and `clock` are Shopify; `Pages` is its listing in one order. `Silver` is what
`build_silver_snapshot` makes of the Bronze rows. `outrun` is auxiliary: the orders
last edited in the very second at which the cursor of a run stood, behind it.

**`MarketplaceKafka`** - `publish()` with its client queue against a broker that
acknowledges, fails or loses the answer, and members of a consumer group that
poll, validate, process, commit, crash and lose the partition.

**`MarketplaceLake`** - the two Bronze queries with Spark's offset log, sink log
and commit log (external), and the marketplace part of the DAG: `task` and `try`
say what runs, `step` and `input` how far it is and what it read. `Rewrite`
deletes and writes one output at a time. `served` stands for the `analytics`
tables, replaced in one step because `WarehouseRefresh` shows just that.

**`WarehouseRefresh`** - the transactions on the tables of one domain: loaders
stage and publish table by table, the gate reads in REPEATABLE READ, the metrics
in READ COMMITTED. `holders` and `queue` are PostgreSQL's table locks. The four
domain loaders share this shape; `load_gold.py` is the one that is mapped.
It implements `ServedSnapshot` (`Snapshot`, `Refinement`), which forgets tables,
locks and statements: the served tables have one content, a load replaces it at
once and only when no transaction has seen it, and each transaction looks once,
at what is served then or, as a gate that began before a load, at empty tables.
That the tables are always of one load (`ServedIsOneLoad`) is a part of that, so the
run checks it as `Refinement`.

**`EvidenceContext`, `OpportunityRules`, `InvestigationPlans`, `DecisionChain`** -
pure operators, each module extending the one before. `EvidenceContext` has the
four views (campaign diagnostics, leakage, signals, overview) as functions of the
campaigns' outcome rows, and `Assemble`, the context made of the queries' rows.
`OpportunityRules` has the four rules, their blockers, their validation and the
ranking; `InvestigationPlans` the tasks of each plan, what they require and
whether they are ready; `DecisionChain` the decision frames, the leverage of
missing evidence and the recommended step. `Chain` adds layer to layer and names
the first that refuses; the builders' look-ups that raise an error (`PlanOfTask`,
`PlanOfDecision`, `TaskResolves` and their like) are among the reasons. Every sort is
`Ranked(S, key)`: the members of a set in the order of their keys, tuples compared
place by place as Python compares them (`LexLess`); a look-up in a list is a set,
empty where the code finds nothing, and the registries are functions on types. Rates
are per mille and rounded down, money is in cents; an evidence item is its id, and
facts no rule reads are left out.

**`AnalystAnswers`** - the deterministic answer to every kind of question, what
`validate_answer` rejects (`Violations`), and the repair contract
(`RepairsWording`). Wording is reduced to the defects the text checks look for.

**`AnalystService`** - composes them: a request is received or refused by its
shape, reads its evidence query by query (`Query`), and is served as a list, an
item, a question about an item or a narration. `warehouse` and `version` are what
is served, replaced by `Load` between any two queries; `parts` is what was read;
`draft` is a provider's answer sent back for its one repair. `Narrate` lets a
provider answer with any references, defects and admissions of a small set. It
implements **`ContextAssembly`**: `Refinement == Reads!Spec`, where `Reads ==
INSTANCE ContextAssembly WITH ...` maps `parts` to their versions and an open
request to `request # Idle`. `ContextAssembly` promises that each part is what was
served when it was asked for, in order, and that answers rest on all of them -
and does not promise that the parts are of one load.

## 3. Runs

| run | instance | question |
|---|---|---|
| `alert_lifecycle` | 1 incident, 2 identities, 3 executions, 3 days | do the tables keep their invariants over any replays, late observations, transitions and retention? |
| `recorder_races` | 2 recorders, an operator, 2 incidents | are the transactions atomic, and do recorders never block one another in a ring? |
| `retention_races` | a recorder, an operator, 2 retention runs | the same with retention; does every transaction end? |
| `delivery_races` | 2 senders, an alert that worsens, 2 attempts | is a notification sent twice, by two senders at once, or out of order? |
| `delivery_due` | 1 sender, 2 incidents, limit 1 | is everything due attempted? |
| `shopify_races` | 2 processes, 2 orders, 4 edits, 2 runs, page size 1 | is an edit missed; is Silver current; can a late row or tombstone hide a current line? |
| `shopify_crash` (violated) | 1 process, 1 order, 2 edits | do removed lines disappear? |
| `kafka` | 2 events, queue of 1, 2 members, 3 starts, bounded runs of 1 | does success mean stored; is a record passed over in silence; do `publish` and bounded runs end? |
| `kafka_at_least_once` (violated) | 2 events | is every record below the committed offset processed? |
| `marketplace_lake` | 2 records in 5 classes, 2 starts, 2 DAG runs, 2 Gold tables | does Bronze lose, Silver misplace, or the warehouse mix anything? |
| `warehouse_refresh` | 2 loaders, a gate, a metrics reader, 3 tables, 4 loads | do the tables change as a whole, for everyone who reads them; is a reader overtaken by a load? |
| `analyst` | 8 warehouse contents, a load, 3 provider settings, 16 requests | do the layers agree, are decisions and the sequence backed by evidence, is every listed item answerable and every answer grounded? |

**Bounds.** Two of each racing party show every pairwise order; a third
execution in `alert_lifecycle` allows an alert, its replay and a successor.
Two incidents are the fewest that can be locked in opposite orders; three tables
the fewest of which a reader takes two against the loaders' order and leaves one
out. Two attempts are the fewest with a retry and a limit. Page size 1 makes
every edit fall between pages; two runs are the fewest that overlap or follow one
another, four edits the fewest with which a checkpoint passes an order edited
behind the cursor in the cursor's own second. Two records are enough for a copy, a newer
version, a rejected newer version and two different snapshots; two starts for a
batch that is written twice; two DAG runs for a failed one over the output of a
good one. One load anywhere between six queries gives every way to split a
context over two contents; the eight contents are no rows, a weak campaign with
and without identity gaps and at exactly a tenth of orders without identity, a
costly one that is better downstream, small samples, a campaign without peers or
spend, two rows of one name, and a name that reads like a phone number. Three starts cover any mix of publisher runs, consumer runs
and foreign records (`MaxStarts`). `Horizon`, `MaxEdits`, `MaxTime`, `MaxRuns`,
`MaxStarts`, `MaxLoads`, `MaxRecords` and `MaxRestarts` are bounds of the models only; where
they stop a system, the configuration says `CHECK_DEADLOCK FALSE`. Days, minutes
and seconds are single clock ticks. `TypeOK` of every module documents the types; a
run checks the one of `AlertLifecycle`, and it is proved of `AlertLifecycle`,
`AlertTransactions` and `AlertDelivery`.

**Symmetry** is used in runs of invariants and action properties only, for
identities the module does not order.

**Fairness.** `TransactionsEnd`: a database session goes on, lock waiters are
served in turn, and the deadlock detector runs. The queue is not modelled
there, so that being served in turn is strong fairness of each process.
`DueIsAttempted`: Airflow starts a sweep every five minutes
(`pulse_alert_operations.py`), a sweep that is not interrupted for ever goes on,
and a provider call returns, for it has a timeout. The property asks only for an
attempt, which is all the code can promise. `PublishEnds`: the client gives each
queued message a report after its message timeout, the flush has a timeout.
`BoundedRunEnds`: `poll` returns and the idle timeout elapses. No fairness is
given to crashes, failures, edits, operators, or anything a person starts.

### What the checks show beyond "no error"

- *A failed record is passed over* (`kafka_at_least_once`). `consume` counts the
  failure and goes on; the next commit moves past the record. The class promises
  at-least-once delivery. `NothingSkippedSilently` is what does hold: each such
  record was reported to `on_error`.
- *A removed line can stay* (`shopify_crash`). After a crash between Bronze and
  SQLite the lost run's lines are not known, so no tombstone is written. Outside
  of orders touched by an interrupted or overlapping run, `SilverIsCurrent`
  holds. What holds in spite of such runs is `CurrentLinesShow`: no tombstone or
  older row that arrives late stands for a line of the current version, for rows are
  ranked by the source's time of update. `SilverIsCurrent` also records that a line
  of quantity 0 is rejected before versions are ranked, its tombstone included, so
  that it stays active when its order is cancelled.
- *A retry need not wait.* A sweep reads the clock once and
  writes that reading as the completion of each of its attempts, from which the next
  sweep measures the delay. When a sweep takes as long as the delay, a failure at its
  end is repeated by the next one at once, though failures are said to be retried
  after the delay (`README.md:1363`). No property is stated on it: of the recorded
  completion the claim's guard says it, of the failure itself it does not hold.
- *An edit can fall behind the cursor.* Pages are read in the order of the update
  time, which has a grain of a second, and of the id. An order that is edited in
  the very second the cursor stands at, and stands before it, is read by no later
  page of this run; when the run then reads a later second, the checkpoint moves
  past the edit and no later run asks for it, until the order is edited again. The
  inclusive filter of the next run (`README.md:1764`) does not reach it. An attempt
  to prove `NothingStranded` showed this: with three edits TLC never met it. The
  property therefore leaves out just those orders (`outrun`); every other edit is
  at or above the checkpoint, or in Bronze.
- *Rings need retention, or the metrics.* Recorders and operators alone cannot
  deadlock; retention can close a ring with them, since it takes rows without
  the incidents' locks. Likewise only the metrics' own order of tables can make
  loaders and readers deadlock. PostgreSQL then rolls a victim back.
- *A gate can see nothing.* A gate whose snapshot is older than a load reads
  tables truncated since as empty: all of them or none (`ReadersSeeOneLoad`).
  `src/quality/warehouse.py:1` speaks of a consistent snapshot.
- *Retention forgets.* An execution replayed after retention deleted its receipt
  opens a new alert; `CountedAgainOnlyAfterPurge` says this is the only way.
- *Delivery after resolution.* The check is part of the claim; the provider is
  called afterwards, when the alert may be resolved (`README.md:1342` says that
  resolved incidents never deliver). No property is stated on it.
- *One name ends the evaluation of a business.* `validate_opportunity` looks for
  phone numbers in an opportunity's text, the campaign's name included; a campaign
  named by a date and a number makes the whole evaluation fail
  (`ChainCompletes`), and with it every list and answer about that business.
- *A context may be of two loads.* Each query has a connection of its own. Every
  layer still accepts what the one before it built from such a context, and an
  answer is grounded in it, but nothing tells its reader.
- *Economic questions about items.* Where FX is required, a question with an
  economic term about an opportunity, task or decision is refused: the item's
  answer does not say so, and the validation demands it (`ItemsAreAnswerable`).
- *A torn file stops the DAG.* The DAG reads the physical files of Bronze; an
  unfinished one fails every later run, and nothing removes it.

## 4. Proofs

The theorems hold for every value of the constants that meets the modules'
assumptions. Each proof has an invariant that is inductive, a lemma that the
initial states meet it, one lemma or step per action, and a temporal step.

| theorem | property | proved of |
|---|---|---|
| `TypeCorrect` | `TypeOK` | `AlertLifecycle` |
| `OneActive` | `OneActiveAlert` | |
| `CountsAreExecutions` | `CountsExecutions` | |
| `ReceiptsAreEnclosed` | `ReceiptsWithinAlert` | |
| `CountedAgainNeedsPurge` | `CountedAgainOnlyAfterPurge` | |
| `AuditsAreChains` | `AuditIsChain` | |
| `ResolvedStaysFrozen` | `ResolvedIsFrozen` | |
| `OpensOnlyForNewExecution` | `OpensForNewExecution` | |
| `SpecRefinement` | `Refinement` | `AlertTransactions` |
| `SpecPlanStaysCurrent` | `PlanStaysCurrent` | |
| `SpecEligibilityStable` | `EligibilityStable` | |
| `SpecRingsNeedRetention` | `RingsNeedRetention` | |
| `SpecTypeOK` | `TypeOK` | |
| `NeverSentTwice` | `SentOnce` | `AlertDelivery` |
| `ClaimsAreExclusive` | `ClaimIsExclusive` | |
| `AttemptsAreAlwaysPermitted` | `AttemptsArePermitted` | |
| `DeliveryKeepsLifecycle` | `Lifecycle!Spec` | |
| `TypeCorrect` | `TypeOK` | |
| `CheckpointStrandsNothing` | `NothingStranded` | `ShopifyIngestion` |
| `SilverShowsTheCurrent` | `SilverIsCurrent` | |
| `CurrentLinesAlwaysShow` | `CurrentLinesShow` | |
| `ReturnsConfirmed` | `ConfirmedIsStored` | `MarketplaceKafka` |
| `SkipsReported` | `NothingSkippedSilently` | |
| `SpecBronzeMissesNothing` | `BronzeMissesNothing` | `MarketplaceLake` |
| `SpecEventsAreServedOnce` | `EventsAreServedOnce` | |
| `SpecServedIsOneSnapshot` | `ServedIsOneSnapshot` | |
| `SpecSilverAccountsForBronze` | `SilverAccountsForBronze` | |
| `ServedAsAWhole` | `ServedIsOneLoad` | `WarehouseRefresh` |
| `ReadAsAWhole` | `ReadersSeeOneLoad` | |
| `TablesAreOneSnapshot` | `Refinement` | |
| `ViewsStayCurrent` | `Snapshot!ViewIsCurrent` | |
| `RingsHaveMetrics` | `RingsNeedMetrics` | |
| `ServiceReadsInOrder` | `Refinement` | `AnalystService` |
| `EvidenceIsInOrder` | `Reads!PartsInOrder` | |
| `AnswersGrounded` | `AnswersAreGrounded` | |
| `RepairsKeepRefs` | `RepairsKeepEvidence` | |
| `ChainAlwaysCompletes` | `ChainCompletes` | |
| `ReadyAlwaysMeansEvidence` | `ReadyMeansEvidence` | |
| `SequenceAlwaysCovers` | `SequenceCoversUnresolved` | |
| `GapAlwaysCapsTrust` | `IdentityGapCapsTrust` | |
| `ItemsAlwaysAnswerable` | `ItemsAreAnswerable` | |

**Alert lifecycle.** Assumed: finitely many executions, `None` is no identity, the
retention period is a natural number. `IInv` is the conjunction of the first five
properties. None is inductive alone. A count goes up when no receipt exists, so
`CountsExecutions` needs the receipts and the ledger to agree
(`CountedAgainOnlyAfterPurge`); a receipt must not point at a purged or unused
row, or a replay would write to it (`ReceiptsWithinAlert`); that the row updated
is the only active one is `OneActiveAlert`. `RecordCases` splits `RecordAlerts` by
incident into replayed on a resolved alert, replayed, counted, opened and
untouched; one lemma per conjunct follows from it. The action properties follow
from `IInv` and the same cases, `AuditIsChain` from `IInv` and itself.

**Transactions.** Assumed: incidents are numbers (locks are taken in their order),
finitely many executions, a natural retention period, kinds of processes that are
disjoint, `None` is neither an identity nor a process, and the findings of `Runs`
are of their types. `IInv` has three parts. `TablesInv` is the lifecycle's own
invariant, by `INSTANCE AlertLifecycle_proofs`. `Typed` are the types.
`ProcessesInv` says of a recorder that it holds the locks of the incidents it has
planned for, that these come before all it has still to visit, and that each plan
is what `record_alert` would do now, on a row it holds; of an operator, that it
holds no more than its one incident; of a retention run, that the rows it has
locked and those on its list are the expired ones. A recorder's commit is then the
atomic `RecordAlerts` of the lifecycle, an operator's `ChangeStatus`, a retention's
`PurgeAlerts`, and all other steps stutter: whatever is proved of `AlertLifecycle`
holds of the transactions. A ring of waiting processes without retention has a
least incident that is waited for, and its holder, which waits too, would wait for
a lesser one.

**Delivery.** Assumed: `ConfigAssumption` on the settings, and for the tables
`TablesAssumption` and `RunsAssumption` as above. That a provider reports
once needs the whole course of a claim: a report is tied to the stage of the one
sender that may still report (`ClaimInv`), and afterwards to the latest attempt,
which is PENDING (the sender died) or SENT, or to an alert that retention deleted
(`AttemptsInv`). Both are stated of notifications, whatever a sender's list
holds. Of the tables, only that a purged alert stays purged is needed.
`AttemptsArePermitted` adds `PermitInv`: an escalation on a sender's list is of an
alert whose first notification was sent or that was deleted since, which no later
step takes back, so that what the stale list allowed is allowed when it is claimed.
`DeliveryKeepsLifecycle` shows that senders add nothing to what the tables do:
every step is one of `AlertLifecycle`, or leaves the tables alone.

**Connector.** Assumed: finitely many orders, which are numbers, and a page size
that is positive. `CheckpointInv` follows an edit through a run: what the cursor
has passed is in the batch (or the order is `outrun`), what is persisted is in
Bronze, and a checkpoint passes only what Bronze has; with overlapping runs this is
said of each run by itself, and of the checkpoint that is the least either may
write. `SilverInv` is for orders that were not disturbed by an interrupted or
overlapping run: the newest rows of the order are the lines of one version, other lines
have a tombstone, and the projection knows those lines, or the one run that
is about to record them does. A run that does not overlap is alone (`AloneInv`),
so no other run writes between its reading the projection and its recording it.
`CurrentLinesAlwaysShow` needs none of this, for it leaves no run out. `ExactInv` says
that a row or envelope of an order's current version has that version's time, that such
a row of one of its lines says of the line what the version says, and that Bronze, and
what a run is about to persist, have that version with all its lines or not at all.
It is said of each run by itself, so that their interleaving does not matter; a row
or tombstone of an older version is then never newer.

**Kafka.** Assumed: `KafkaAssumption` (a batch without malformed records, a queue
of at least one). Consumers: `GroupInv`, where a member's record in hand is the
first that is not settled below its position, and only the partition's owner's
position counts. Publisher: `PublisherInv`, where every attempted event is stored,
still queued, or counted as an error (`OnTheWay`), so that an empty queue without
errors means stored.

**Lake.** Assumed: `LakeAssumption` (the Gold tables are a list without repetition,
which a run rebuilds in order). `StreamsInv` says of a query that its logs follow one
another (committed, at most sunk, at most planned, and at most one batch apart) and
that the files of every batch the sink has logged are there. `DagInv` says that what a task has written is
what it makes of what it read, and one that follows finds all of it. `ServedIsOneSnapshot` is inductive with
these two: a load is made of Gold tables that one build has written, so all agree.

**Warehouse.** Assumed: `RefreshAssumption` (lists of tables that are not empty,
`Published` without repetition, kinds of processes that are disjoint). `IInv` says
that a process holds a lock on all tables it is done with, that a loader holds its
tables alone, that `served` is one load, and that a reader would read again what it
has read. A load that commits holds all tables, so no reader has read any; that is
why it is enough that readers keep their locks, in whatever order they take them.
`RingsHaveMetrics` needs the queues (`QueuesInv`): no process is in one twice, each
waits for the table of its next statement, and a process holds only tables it is done
with. In a ring without metrics all wait in the order of `Published`, and the
holder of the last table waited for would wait for a later one.
`TablesAreOneSnapshot` maps the set of the versions in `served` to `content`, that
in a gate's snapshot to its `base`, and that of what a reader has `seen` to its
`view`. A first statement is the look; each later one must see what the first
saw (`SeenIsContent`, from `IInv`), or the mapped step would be none. The commit
of a load is `Replace` because of `NobodyHasRead`. `ViewsStayCurrent` follows from
`IInv` through the mapping.

**Analyst.** `ServiceReadsInOrder` shows that every step of `AnalystService` is a
step of `ContextAssembly` or a stutter, with `PartsAreReads` for the types.
`EvidenceIsInOrder` then says, of any number of parts and loads, what a context
is: never older evidence after newer (`OrderInv` adds that no part is of a load
still to come, and that what is being read has not been answered). `AnswersGrounded` and `RepairsKeepRefs` rest on
what `validate_answer` and the repair contract let through, and on that the parts
of a request do not change while its answer is made; they hold whatever contents
the warehouse has and whatever a provider says.

**The decision chain.** Assumed of the constants: campaigns have different names, in
the order by which the code sorts them, and the business itself is not named like a
phone number (`NamesAssumption`); the warehouse has finitely many rows, with counts in
their columns (`SnapshotsAssumption`); requests are of the kinds the routes serve
(`RequestsAssumption`). The first four theorems hold of whatever context six reads of
such contents can make, in whatever way loads fall between them, so their invariant is
`PartsAreReads`, and the work is in the layers:

- *Induction over data without an operator parameter.* `EveryNatural` and
  `EveryFinite` say that a set which holds 0 (the empty set) and is closed under
  "one more" holds every natural number (every finite set); with a set in place of a
  predicate they are first-order. From them come totals over rows (`TotalIsNat`),
  sorting (`RankedSorts`: every member once, in the order of the keys) and flattening
  (`FlatElements`, `FlatDistinct`).
- *One predicate for each hand-over.* `IsWorld` is what the layers need of a context
  (`ContextIsWorld`). `OpportunitiesAreRanked`: its opportunities are a ranking of
  what the four rules offer, each with the evidence its rule asked for (`Grounds`).
  `BuiltPlans`, `BuiltDecisions` and `SequencingHolds` do the same for the plans, the
  decisions and the sequencing, and each shows that the next validator accepts them.
  `ChainFacts` collects them in `IsProduct`; nothing after it opens a layer again.
- *What the properties come down to.* `FirstIsAvailable`: the evidence with which a
  rule was satisfied is what its plan's first requirement asks for, so a plan always
  has a task that can be resolved. `ReadyDecisions`: a ready decision has no open
  requirement, and a resolved one carries an item of every group. `SequencingCovers`:
  every requirement of a type's frames is required by a task those frames name, which is
  a fact of the two registries. `GapCapsTrust`: a tenth is at least 100 per mille
  after rounding, so the identity blocker applies to every fulfilment opportunity.

`ItemsAlwaysAnswerable` is about the response and needs an invariant of its own.
`AnswerableInv` adds to the property that an open request is one of `Requests` and
nothing has been answered yet; a step that ends a request keeps the context, and
`ExcusedEnd` says that it refuses only with one of the two excuses, which for `AskItem`
follows from `ItemIsAnswerable`: every item that is found resolves, and its answer has
evidence and passes the validation.

**Only model-checked.** The liveness properties `TransactionsEnd`, `DueIsAttempted`,
`PublishEnds` and `BoundedRunEnds`, since fairness and `ENABLED` are out of the
prover's reach. The runs that end in a violation, each by its trace. None of the
modules declares a recursive operator.

## 5. Not modelled, and why

- Contents that no property tells apart: messages, amounts, details, UUIDs
  (identities are drawn from a set and never reused), SQL column contracts.
- Refund events, throttling and HTTP retries of the Shopify client: they change
  what is extracted by a failing or a shorter run, which is modelled.
- The standalone streaming mode of Silver, which no task starts. It keeps the
  first version of an event while the snapshot keeps the newest.
- Rows of `quality_runs` and `anomaly_results`, and their retention. A retry of an
  anomaly evaluation replaces rows that alerts refer to by `source_id`: that hazard
  has no property.
- Quality checks, baselines and the detection policy (`checks.py`, `baselines.py`,
  `anomaly.py`): pure functions that decide by thresholds what the models take as
  an input, and that are tested case by case.
- Alert migration: a one-off backfill under an exclusive lock. Only the unique index
  it leaves behind is modelled.
- Onboarding registry and the marketing, operations and economics pipelines: read
  files and rebuild their outputs, without state between calls or anything that runs
  beside them. The DAG runs them in sequence as it runs the modelled tasks.
- Of the API: the dashboards' own pages, headers, limits on bodies, static files.
- Of the decision chain: prose, and facts that are only copied to the answer.
- Disk and broker failures that lose acknowledged data.
- Pilots, benchmarks, dashboards and the dbt views no modelled query reads: one-off
  or derived, they change nothing the modelled parts read.

## 6. Plan

Done: the modules of section 2, in this order because alerts are what the
platform tells its users, delivery what reaches them, the lake what both are
about, and the analyst what is concluded from it.

What would extend the model, by what it adds:

1. `MonitoringEvidence` - result rows, anomaly replacement on retry, their
   retention and the references of alerts to them: the one hazard left open.
2. `AlertMigration` - the backfill of old alerts, checked to establish
   `AlertLifecycle!TypeOK /\ OneActiveAlert` and to be repeatable.
3. `QualityPolicy` - checks, gates and baselines as operators with reference
   definitions.
4. `DomainSnapshots` - newest event per entity, remittance and cost attribution.
5. `OnboardingRegistry` - manifest validation and uniqueness.

Abstract specifications still worth stating: an outbox (a notification is idle,
pending, failed or done, and done once) that `AlertDelivery` implements, for which
its proofs have the invariant; and `ServedSnapshot` for the served part of
`MarketplaceLake` too.

Proofs: the refinement of these two.
