-------------------------- MODULE MarketplaceKafka --------------------------
(***************************************************************************)
(* The marketplace topic between the event publisher and the Python        *)
(* consumer group (src/producers/kafka_producer.py and                     *)
(* src/streaming/kafka_consumer.py).                                       *)
(*                                                                         *)
(* The publisher hands events to a client queue, counts delivery reports   *)
(* as polls and the final flush serve them, and returns only when every    *)
(* event is confirmed; a failed run may be started again with the same     *)
(* seed.  A consumer polls, validates, processes and then commits the      *)
(* offset of that one record; a failure is counted and the loop goes on.   *)
(*                                                                         *)
(* The broker is external: one partition (records of one key keep their    *)
(* order), idempotent appends, one committed offset per group, and a group *)
(* that gives the partition to one member at a time and refuses the        *)
(* commit of a member that lost it.                                        *)
(***************************************************************************)
EXTENDS Naturals, Sequences, SequencesExt

CONSTANTS
    Batch,        \* the events of one publisher run, a sequence
    Malformed,    \* a record deserialize_marketplace_message refuses
    Consumers,    \* members of the consumer group
    Nobody,       \* no member holds the partition
    QueueSize,    \* capacity of the client's local queue
    MaxMessages,  \* --max-messages of a bounded consumer
    MaxStarts     \* bound: publisher runs, consumer runs and foreign records together

ASSUME KafkaAssumption ==
    /\ Batch \in Seq(Range(Batch)) /\ Malformed \notin Range(Batch)
    /\ Nobody \notin Consumers
    /\ QueueSize \in Nat \ {0}
    /\ {MaxMessages, MaxStarts} \subseteq Nat

VARIABLES
    log,        \* the records of the partition
    producer,   \* the current publish() call
    queue,      \* its events without a served delivery report
    committed,  \* the group's committed offset: records below it are done with
    owner,      \* the member the partition is assigned to
    consumer,   \* per member: its consume() call
    runs,       \* consumer runs started
    processed,  \* history: offsets process() returned for
    reported    \* history: offsets counted as failed and passed to on_error

publisherVars == <<producer, queue>>
groupVars == <<committed, owner, consumer, runs, processed, reported>>
vars == <<log, publisherVars, groupVars>>

Queued == [event : Range(Batch), report : {"none", "stored", "error"}]
None == 0    \* no record in hand; record offsets count from 1

TypeOK ==
    /\ log \in Seq(Range(Batch) \cup {Malformed})
    /\ producer.state \in {"exited", "queueing", "flushing", "returned", "raised"}
    /\ producer.attempted \in 0 .. Len(Batch)
    /\ producer.delivered + producer.errors + Len(queue) <= producer.attempted
    /\ queue \in Seq(Queued) /\ Len(queue) <= QueueSize
    /\ committed \in 0 .. Len(log)
    /\ owner \in Consumers \cup {Nobody}
    /\ \A c \in Consumers :
          /\ consumer[c].state \in {"closed", "polling", "holding", "committing"}
          /\ (consumer[c].hand = None) <=> (consumer[c].state \in {"closed", "polling"})
    /\ owner # Nobody => consumer[owner].state # "closed"

Init ==
    /\ log = <<>>
    /\ producer = [state |-> "exited", calls |-> 0, attempted |-> 0, delivered |-> 0,
                   errors |-> 0, broken |-> FALSE, base |-> 0]
    /\ queue = <<>>
    /\ committed = 0
    /\ owner = Nobody
    /\ consumer = [c \in Consumers |->
                      [state |-> "closed", left |-> 0, bounded |-> TRUE,
                       position |-> 0, hand |-> None]]
    /\ runs = 0
    /\ processed = {} /\ reported = {}

\* What the bound counts.
Started == producer.calls + runs + Len(SelectSeq(log, LAMBDA r : r = Malformed))

-----------------------------------------------------------------------------
(* The publisher.                                                           *)

\* main: one run of the CLI; the same seed regenerates the same events.
StartPublish ==
    /\ producer.state = "exited" /\ Started < MaxStarts
    /\ producer' = [state |-> "queueing", calls |-> producer.calls + 1, attempted |-> 0,
                    delivered |-> 0, errors |-> 0, broken |-> FALSE, base |-> Len(log)]
    /\ UNCHANGED <<log, queue, groupVars>>

\* The event is counted and handed to the client; BufferError waits for room.
Produce ==
    /\ producer.state = "queueing" /\ producer.attempted < Len(Batch)
    /\ Len(queue) < QueueSize
    /\ producer' = [producer EXCEPT !.attempted = @ + 1]
    /\ queue' = Append(queue, [event |-> Batch[producer.attempted + 1], report |-> "none"])
    /\ UNCHANGED <<log, groupVars>>

\* Any other exception of the loop: the event counts as attempted, the
\* loop ends, what is queued is still flushed.
ProduceFails ==
    /\ producer.state = "queueing" /\ producer.attempted < Len(Batch)
    /\ producer' = [producer EXCEPT !.attempted = @ + 1, !.broken = TRUE, !.state = "flushing"]
    /\ UNCHANGED <<log, queue, groupVars>>

BeginFlush ==
    /\ producer.state = "queueing" /\ producer.attempted = Len(Batch)
    /\ producer' = [producer EXCEPT !.state = "flushing"]
    /\ UNCHANGED <<log, queue, groupVars>>

\* Plausible fault: flush() alone serves reports, no poll() while the queue is full.
ServesOnlyInFlush ==
    /\ producer.state = "flushing"
    /\ queue # <<>> /\ Head(queue).report # "none"
    /\ queue' = Tail(queue)
    /\ producer' = IF Head(queue).report = "stored"
                   THEN [producer EXCEPT !.delivered = @ + 1]
                   ELSE [producer EXCEPT !.errors = @ + 1]
    /\ UNCHANGED <<log, groupVars>>

\* on_delivery, called from poll() in the loop and from flush().
ServeReport ==
    /\ producer.state \in {"queueing", "flushing"}
    /\ queue # <<>> /\ Head(queue).report # "none"
    /\ queue' = Tail(queue)
    /\ producer' = IF Head(queue).report = "stored"
                   THEN [producer EXCEPT !.delivered = @ + 1]
                   ELSE [producer EXCEPT !.errors = @ + 1]
    /\ UNCHANGED <<log, groupVars>>

\* Plausible fault: only an exception and the flush timeout are considered.
IgnoresReports(p, outstanding) == p.broken \/ outstanding > 0

\* Why publish() raises: an exception of the loop or of the flush, a flush that
\* timed out, or events without a positive report.
Unconfirmed(p, outstanding) ==
    p.broken \/ outstanding > 0 \/ p.errors > 0 \/ p.attempted # p.delivered

\* flush() returns once the queue is empty or its timeout passes, or raises.
Conclude ==
    /\ producer.state = "flushing"
    /\ \E flushRaises \in BOOLEAN :
          producer' = [producer EXCEPT
              !.state = IF flushRaises \/ Unconfirmed(producer, Len(queue))
                        THEN "raised" ELSE "returned"]
    /\ UNCHANGED <<log, queue, groupVars>>

\* The process ends, after its result or before it; the client queue is lost.
ExitPublisher ==
    /\ producer.state # "exited"
    /\ producer' = [producer EXCEPT !.state = "exited"]
    /\ queue' = <<>>
    /\ UNCHANGED <<log, groupVars>>

-----------------------------------------------------------------------------
(* The broker and the other writers of the topic.                           *)

\* The first unanswered event is stored or fails; a failed one may have been
\* stored all the same, its acknowledgement lost.
Answer(report, stored) ==
    /\ \E i \in DOMAIN queue :
          /\ queue[i].report = "none" /\ \A j \in 1 .. i - 1 : queue[j].report # "none"
          /\ queue' = [queue EXCEPT ![i] = [event |-> @.event, report |-> report]]
          /\ log' = IF stored THEN Append(log, queue[i].event) ELSE log
    /\ UNCHANGED <<producer, groupVars>>

BrokerAnswers ==
    \/ Answer("stored", TRUE)
    \/ Answer("error", TRUE)
    \/ Answer("error", FALSE)

ForeignRecord ==
    /\ Started < MaxStarts
    /\ log' = Append(log, Malformed)
    /\ UNCHANGED <<publisherVars, groupVars>>

\* The partition goes to a live member, which fetches from the committed
\* offset ("earliest" where the group has none); its previous holder keeps
\* the record it has in hand.
Assign(c) ==
    /\ consumer[c].state = "polling" /\ owner # c
    /\ owner' = c
    /\ consumer' = [consumer EXCEPT ![c].position = committed]
    /\ UNCHANGED <<log, publisherVars, committed, runs, processed, reported>>

-----------------------------------------------------------------------------
(* One consumer.                                                            *)

\* main: --max-messages with an idle timeout, or --continuous without either.
StartConsumer(c) ==
    /\ consumer[c].state = "closed" /\ Started < MaxStarts
    /\ runs' = runs + 1
    /\ \E bounded \in BOOLEAN :
          consumer' = [consumer EXCEPT ![c] =
              [state |-> "polling", left |-> MaxMessages, bounded |-> bounded,
               position |-> 0, hand |-> None]]
    /\ UNCHANGED <<log, publisherVars, committed, owner, processed, reported>>

MayPoll(c) ==
    consumer[c].state = "polling" /\ (consumer[c].bounded => consumer[c].left > 0)

\* Plausible fault: consumed is not incremented.
CountsNothing(call) == call.left

\* consumed += 1.
Count(call) == IF call.bounded THEN call.left - 1 ELSE call.left

\* Plausible fault, automatic commits: the offset is stored as soon as the record is polled.
CommitsOnPoll(c) ==
    /\ MayPoll(c) /\ owner = c /\ consumer[c].position < Len(log)
    /\ consumer' = [consumer EXCEPT
           ![c].state = "holding", ![c].left = Count(consumer[c]),
           ![c].position = consumer[c].position + 1, ![c].hand = consumer[c].position + 1]
    /\ committed' = consumer[c].position + 1
    /\ UNCHANGED <<log, publisherVars, owner, runs, processed, reported>>

\* poll() returns the next record of the partition.
Poll(c) ==
    /\ MayPoll(c) /\ owner = c /\ consumer[c].position < Len(log)
    /\ consumer' = [consumer EXCEPT
           ![c].state = "holding", ![c].left = Count(consumer[c]),
           ![c].position = consumer[c].position + 1, ![c].hand = consumer[c].position + 1]
    /\ UNCHANGED <<log, publisherVars, committed, owner, runs, processed, reported>>

\* poll() returns an error event: counted as consumed and failed.
PollError(c) ==
    /\ MayPoll(c)
    /\ consumer' = [consumer EXCEPT ![c].left = Count(consumer[c])]
    /\ UNCHANGED <<log, publisherVars, committed, owner, runs, processed, reported>>

\* The except branch: failed += 1, on_error, and the next poll.
Failed(c) ==
    /\ reported' = reported \cup {consumer[c].hand}
    /\ consumer' = [consumer EXCEPT ![c].state = "polling", ![c].hand = None]

\* Deserialization refuses the record, or process() raises.
Reject(c) ==
    /\ consumer[c].state = "holding"
    /\ Failed(c)
    /\ UNCHANGED <<log, publisherVars, committed, owner, runs, processed>>

Process(c) ==
    /\ consumer[c].state = "holding" /\ log[consumer[c].hand] # Malformed
    /\ processed' = processed \cup {consumer[c].hand}
    /\ consumer' = [consumer EXCEPT ![c].state = "committing"]
    /\ UNCHANGED <<log, publisherVars, committed, owner, runs, reported>>

\* commit(message): the offset after this record, whatever happened before it.
Commit(c) ==
    /\ consumer[c].state = "committing" /\ owner = c
    /\ committed' = consumer[c].hand
    /\ consumer' = [consumer EXCEPT ![c].state = "polling", ![c].hand = None]
    /\ UNCHANGED <<log, publisherVars, owner, runs, processed, reported>>

\* commit() raises: the member lost the partition, the broker is away, or only
\* its answer is lost.
CommitFails(c) ==
    /\ consumer[c].state = "committing"
    /\ committed' = committed \/ (owner = c /\ committed' = consumer[c].hand)
    /\ Failed(c)
    /\ UNCHANGED <<log, publisherVars, owner, runs, processed>>

Leave(c) ==
    /\ consumer' = [consumer EXCEPT ![c].state = "closed", ![c].hand = None]
    /\ owner' = IF owner = c THEN Nobody ELSE owner
    /\ UNCHANGED <<log, publisherVars, committed, runs, processed, reported>>

\* The record limit or the idle timeout of a bounded run.
Stop(c) ==
    /\ consumer[c].state = "polling" /\ consumer[c].bounded
    /\ consumer[c].left = 0 \/ owner # c \/ consumer[c].position = Len(log)
    /\ Leave(c)

\* KeyboardInterrupt or a crash, between any two steps.
Interrupt(c) ==
    /\ consumer[c].state # "closed"
    /\ Leave(c)

-----------------------------------------------------------------------------
PublisherStep == Produce \/ BeginFlush \/ ServeReport \/ Conclude

Publisher == StartPublish \/ PublisherStep \/ ProduceFails \/ ExitPublisher

ConsumerStep(c) ==
    Poll(c) \/ PollError(c) \/ Reject(c) \/ Process(c) \/ Commit(c) \/ CommitFails(c)

Consumer(c) == StartConsumer(c) \/ ConsumerStep(c) \/ Stop(c) \/ Interrupt(c)

Broker == BrokerAnswers \/ ForeignRecord \/ \E c \in Consumers : Assign(c)

Next == Publisher \/ Broker \/ \E c \in Consumers : Consumer(c)

Spec == Init /\ [][Next]_vars

\* The publisher's and a consumer's own loops go on; every queued event gets a
\* report (the client's message timeout); a bounded run notices that it is idle.
Fairness ==
    /\ WF_vars(Produce \/ BeginFlush) /\ WF_vars(ServeReport) /\ WF_vars(Conclude)
    /\ WF_vars(BrokerAnswers)
    /\ \A c \in Consumers : WF_vars(ConsumerStep(c)) /\ WF_vars(Stop(c))

FairSpec == Spec /\ Fairness

-----------------------------------------------------------------------------
(* Correctness.                                                             *)

\* publish() returns without raising only after every event of the run is in
\* the topic, appended since the run began, whatever reports were lost, timed
\* out or came late ("return only after delivery is confirmed").
ConfirmedIsStored ==
    producer.state = "returned" =>
        \A i \in DOMAIN Batch :
            \E o \in producer.base + 1 .. Len(log) : log[o] = Batch[i]

\* No record is passed over in silence: every offset below the committed one
\* was processed by some member or counted as failed and reported by one, over
\* crashes, rebalances and commits of members that lost the partition.
NothingSkippedSilently ==
    \A o \in 1 .. committed : o \in processed \cup reported

\* The class's promise: an offset is committed only after validation and
\* processing succeed, which provides at-least-once delivery - so a well-formed
\* record below the committed offset was processed.
AtLeastOnce ==
    \A o \in 1 .. committed : log[o] # Malformed => o \in processed

\* publish() ends: a full client queue drains as reports are served, and the
\* flush ends with its queue or its timeout.
PublishEnds ==
    producer.state = "queueing" ~> producer.state \notin {"queueing", "flushing"}

\* A bounded consumer run ends, even one that is never assigned the partition
\* or is answered with nothing but errors.
BoundedRunEnds ==
    \A c \in Consumers :
        (consumer[c].state # "closed" /\ consumer[c].bounded) ~> consumer[c].state = "closed"

=============================================================================
