------------------------ MODULE MarketplaceKafka_proofs ------------------------
(* What the publisher and the consumer group guarantee for every batch, every  *)
(* set of members, every queue size, and any number of runs and records.       *)
EXTENDS MarketplaceKafka, TLAPS

-----------------------------------------------------------------------------
(* The consumer group.                                                       *)

Settled(o) == o \in processed \cup reported

\* The inductive invariant: a member works on the first record that is not settled
\* below its position; only the position of the partition's owner matters, for it
\* alone polls, while a record in hand may be committed after the partition moved.
MemberInv(c) ==
  /\ consumer[c].hand \in Nat /\ consumer[c].position \in Nat
  /\ consumer[c].state \in {"holding", "committing"} =>
       \A o \in 1 .. consumer[c].hand - 1 : Settled(o)
  /\ consumer[c].state = "committing" => Settled(consumer[c].hand)
  /\ consumer[c].state = "polling" /\ owner = c =>
       \A o \in 1 .. consumer[c].position : Settled(o)
  /\ consumer[c].state \in {"holding", "committing"} /\ owner = c =>
       \A o \in 1 .. consumer[c].position : o # consumer[c].hand => Settled(o)

GroupInv ==
  /\ DOMAIN consumer = Consumers /\ committed \in Nat
  /\ NothingSkippedSilently
  /\ \A c \in Consumers : MemberInv(c)

LEMMA InitGroup == Init => GroupInv
BY DEF Init, GroupInv, MemberInv, NothingSkippedSilently, None

\* What another member does does not disturb a member that does not get the partition.
LEMMA OtherMember ==
  ASSUME NEW d \in Consumers, MemberInv(d), consumer'[d] = consumer[d],
         owner' = d => owner = d,
         processed \subseteq processed', reported \subseteq reported'
  PROVE  MemberInv(d)'
BY DEF MemberInv, Settled

\* What a change of a member's state and hand leaves alone.
Changed(c, state, hand) ==
  /\ consumer'[c].state = state /\ consumer'[c].hand = hand
  /\ consumer'[c].position = consumer[c].position
  /\ \A d \in Consumers \ {c} : consumer'[d] = consumer[d]
  /\ DOMAIN consumer' = Consumers

LEMMA Changes ==
  ASSUME NEW c \in Consumers, DOMAIN consumer = Consumers, NEW state, NEW hand,
         consumer' = [consumer EXCEPT ![c].state = state, ![c].hand = hand]
  PROVE  Changed(c, state, hand)
<1>1. consumer'[c].state = state /\ consumer'[c].hand = hand
  OBVIOUS
<1>2. consumer'[c].position = consumer[c].position
  OBVIOUS
<1>3. \A d \in Consumers \ {c} : consumer'[d] = consumer[d]
  OBVIOUS
<1>4. DOMAIN consumer' = Consumers
  OBVIOUS
<1>5. QED
  BY <1>1, <1>2, <1>3, <1>4 DEF Changed

LEMMA NextGroup == GroupInv /\ [Next]_vars => GroupInv'
<1> SUFFICES ASSUME GroupInv, [Next]_vars PROVE GroupInv'
  OBVIOUS
<1> USE DEF GroupInv, MemberInv, NothingSkippedSilently, Settled
<1>1. ASSUME UNCHANGED groupVars PROVE GroupInv'
  BY <1>1 DEF groupVars
<1>2. CASE Publisher
  BY <1>1, <1>2 DEF Publisher, PublisherStep, StartPublish, Produce, BeginFlush, ServeReport,
                    Conclude, ProduceFails, ExitPublisher
<1>3. CASE BrokerAnswers \/ ForeignRecord
  BY <1>1, <1>3 DEF BrokerAnswers, Answer, ForeignRecord, publisherVars
<1>4. ASSUME NEW c \in Consumers, Assign(c) PROVE GroupInv'
  BY <1>4 DEF Assign
<1>5. ASSUME NEW c \in Consumers, Consumer(c) PROVE GroupInv'
  <2>1. CASE StartConsumer(c)
    <3>1. /\ UNCHANGED <<committed, owner, processed, reported>>
          /\ DOMAIN consumer' = Consumers
          /\ consumer'[c].state = "polling" /\ consumer'[c].position = 0 /\ consumer'[c].hand = 0
          /\ \A d \in Consumers \ {c} : consumer'[d] = consumer[d]
      BY <2>1 DEF StartConsumer, None
    <3>2. QED
      BY <3>1
  <2>2. CASE Poll(c)
    <3>1. /\ UNCHANGED <<committed, owner, processed, reported>>
          /\ consumer[c].state = "polling" /\ owner = c
          /\ DOMAIN consumer' = Consumers
          /\ consumer'[c].state = "holding"
          /\ consumer'[c].position = consumer[c].position + 1
          /\ consumer'[c].hand = consumer[c].position + 1
          /\ \A d \in Consumers \ {c} : consumer'[d] = consumer[d]
      <4>1. consumer[c].state = "polling" /\ owner = c
        BY <2>2 DEF Poll, MayPoll
      <4>2. /\ consumer'[c].state = "holding"
            /\ consumer'[c].position = consumer[c].position + 1
            /\ consumer'[c].hand = consumer[c].position + 1
        BY <2>2 DEF Poll
      <4>3. \A d \in Consumers \ {c} : consumer'[d] = consumer[d]
        BY <2>2 DEF Poll
      <4>4. DOMAIN consumer' = Consumers
        BY <2>2 DEF Poll
      <4>5. QED
        BY <2>2, <4>1, <4>2, <4>3, <4>4 DEF Poll
    <3>2. ASSUME NEW d \in Consumers \ {c} PROVE MemberInv(d)'
      BY <3>1, OtherMember
    <3>3. /\ consumer'[c].hand \in Nat /\ consumer'[c].hand - 1 = consumer[c].position
          /\ \A o \in 1 .. consumer'[c].position : o # consumer'[c].hand => Settled(o)
      BY <3>1
    <3>4. MemberInv(c)'
      BY <3>1, <3>3
    <3>5. QED
      BY <3>1, <3>2, <3>4
  <2>3. CASE PollError(c)
    BY <2>3 DEF PollError, MayPoll, Count
  <2>4. CASE Reject(c)
    BY <2>4 DEF Reject, Failed, None
  <2>5. CASE Process(c)
    BY <2>5 DEF Process
  <2>6. CASE Commit(c)
    <3>1. /\ consumer[c].state = "committing" /\ owner = c /\ committed' = consumer[c].hand
          /\ UNCHANGED <<owner, processed, reported>>
      BY <2>6 DEF Commit
    <3>2. Changed(c, "polling", 0)
      BY <2>6, Changes DEF Commit, None
    <3>3. ASSUME NEW d \in Consumers \ {c} PROVE MemberInv(d)'
      BY <3>1, <3>2, OtherMember DEF Changed
    <3>4. MemberInv(c)'
      BY <3>1, <3>2 DEF Changed
    <3>5. NothingSkippedSilently'
      BY <3>1
    <3>6. QED
      BY <3>1, <3>2, <3>3, <3>4, <3>5 DEF Changed
  <2>7. CASE CommitFails(c)
    BY <2>7 DEF CommitFails, Failed, None
  <2>8. CASE Stop(c) \/ Interrupt(c)
    <3>1. /\ UNCHANGED <<committed, processed, reported>>
          /\ owner' # c /\ (owner' = owner \/ owner' \notin Consumers)
          /\ DOMAIN consumer' = Consumers
          /\ consumer'[c].state = "closed" /\ consumer'[c].hand = 0
          /\ consumer'[c].position = consumer[c].position
          /\ \A d \in Consumers \ {c} : consumer'[d] = consumer[d]
      <4>1. Leave(c)
        BY <2>8 DEF Stop, Interrupt
      <4>2. owner' # c /\ (owner' = owner \/ owner' \notin Consumers)
        BY <4>1, KafkaAssumption DEF Leave
      <4>3. Changed(c, "closed", 0)
        BY <4>1, Changes DEF Leave, None
      <4>4. QED
        BY <4>1, <4>2, <4>3 DEF Leave, Changed
    <3>2. ASSUME NEW d \in Consumers \ {c} PROVE MemberInv(d)'
      BY <3>1, OtherMember
    <3>3. MemberInv(c)'
      BY <3>1
    <3>4. QED
      BY <3>1, <3>2, <3>3
  <2>9. QED
    BY <1>5, <2>1, <2>2, <2>3, <2>4, <2>5, <2>6, <2>7, <2>8 DEF Consumer, ConsumerStep
<1>6. CASE UNCHANGED vars
  BY <1>1, <1>6 DEF vars
<1>7. QED
  BY <1>2, <1>3, <1>4, <1>5, <1>6 DEF Next, Broker

\* No record is passed over in silence, however many members, rebalances, crashes and
\* lost commits: what lies below the committed offset was processed or reported.
THEOREM SkipsReported == Spec => []NothingSkippedSilently
<1>1. GroupInv => NothingSkippedSilently
  BY DEF GroupInv
<1>2. QED
  BY <1>1, InitGroup, NextGroup, KafkaAssumption, PTL DEF Spec

-----------------------------------------------------------------------------
(* The publisher.                                                            *)

Stored(i) == \E o \in producer.base + 1 .. Len(log) : log[o] = Batch[i]

\* Events leave the queue in their order, so that the place of one in the batch is
\* known from the reports that were served before it.
InFlight(j) == producer.delivered + producer.errors + j

\* What holds while a run may still return: nothing was lost on the way, and a
\* positive report, served or not, is about an event in the topic.
OnTheWay ==
  /\ producer.attempted = InFlight(Len(queue)) /\ producer.attempted <= Len(Batch)
  /\ \A j \in 1 .. Len(queue) :
        /\ queue[j].event = Batch[InFlight(j)]
        /\ queue[j].report = "stored" => Stored(InFlight(j))
  /\ producer.errors = 0 => \A i \in 1 .. producer.delivered : Stored(i)
  /\ producer.state = "flushing" => producer.attempted = Len(Batch)

PublisherTypes ==
  /\ log \in Seq(Range(Batch) \cup {Malformed}) /\ queue \in Seq(Queued)
  /\ producer.attempted \in Nat /\ producer.delivered \in Nat /\ producer.errors \in Nat
  /\ producer.base \in 0 .. Len(log)

PublisherInv ==
  /\ PublisherTypes /\ ConfirmedIsStored
  /\ producer.state = "exited" => Len(queue) = 0
  /\ producer.state \in {"queueing", "flushing"} /\ ~producer.broken => OnTheWay

LEMMA EmptyQueue == <<>> \in Seq(Queued) /\ Len(<<>>) = 0 /\ 1 .. 0 = {}
OBVIOUS

LEMMA BatchFacts == Batch \in Seq(Range(Batch)) /\ Len(Batch) \in Nat /\ DOMAIN Batch = 1 .. Len(Batch)
BY KafkaAssumption

LEMMA InitPublisher == Init => PublisherInv
<1> SUFFICES ASSUME Init PROVE PublisherInv
  OBVIOUS
<1>1. PublisherTypes
  BY EmptyQueue DEF Init, PublisherTypes
<1>2. QED
  BY <1>1 DEF Init, PublisherInv, ConfirmedIsStored

LEMMA NextPublisher == PublisherInv /\ [Next]_vars => PublisherInv'
<1> SUFFICES ASSUME PublisherInv, [Next]_vars PROVE PublisherInv'
  OBVIOUS
<1>0. ASSUME UNCHANGED <<log, publisherVars>> PROVE PublisherInv'
  BY <1>0 DEF publisherVars, PublisherInv, PublisherTypes, ConfirmedIsStored, OnTheWay, Stored, InFlight
<1>1. CASE StartPublish
  <2>1. /\ producer'.state = "queueing" /\ producer'.attempted = 0 /\ producer'.delivered = 0
        /\ producer'.errors = 0 /\ producer'.base = Len(log) /\ log' = log /\ queue' = queue
        /\ Len(queue) = 0
    BY <1>1 DEF StartPublish, PublisherInv
  <2>2. PublisherTypes'
    BY <2>1 DEF PublisherInv, PublisherTypes
  <2>3. OnTheWay'
    BY <2>1, BatchFacts DEF OnTheWay, InFlight
  <2>4. QED
    BY <2>1, <2>2, <2>3 DEF PublisherInv, ConfirmedIsStored
<1>2. CASE Produce
  <2>1. /\ producer.state = "queueing" /\ producer.attempted < Len(Batch)
        /\ queue' = Append(queue, [event |-> Batch[producer.attempted + 1], report |-> "none"])
        /\ log' = log
    BY <1>2 DEF Produce
  <2>2. /\ producer'.state = producer.state /\ producer'.attempted = producer.attempted + 1
        /\ producer'.delivered = producer.delivered /\ producer'.errors = producer.errors
        /\ producer'.base = producer.base /\ producer'.broken = producer.broken
    BY <1>2 DEF Produce
  <2>3. [event |-> Batch[producer.attempted + 1], report |-> "none"] \in Queued
    BY <2>1, BatchFacts DEF Queued, PublisherInv, PublisherTypes
  <2>4. PublisherTypes'
    BY <2>1, <2>2, <2>3 DEF PublisherInv, PublisherTypes
  <2>5. /\ Len(queue') = Len(queue) + 1
        /\ \A j \in 1 .. Len(queue) : queue'[j] = queue[j]
        /\ queue'[Len(queue) + 1].event = Batch[producer.attempted + 1]
        /\ queue'[Len(queue) + 1].report = "none"
    BY <2>1, <2>3 DEF PublisherInv, PublisherTypes
  <2>6. ASSUME ~producer.broken PROVE OnTheWay'
    <3>1. OnTheWay
      BY <2>1, <2>6 DEF PublisherInv
    <3>2. \A i : Stored(i)' <=> Stored(i)
      BY <2>1, <2>2 DEF Stored
    <3>3. \A j : InFlight(j)' = InFlight(j)
      BY <2>2 DEF InFlight
    <3>4. /\ Len(queue) \in Nat /\ InFlight(Len(queue) + 1) = producer.attempted + 1
      BY <3>1 DEF OnTheWay, InFlight, PublisherInv, PublisherTypes
    <3>5. QED
      BY <2>1, <2>2, <2>5, <3>1, <3>2, <3>3, <3>4, BatchFacts DEF OnTheWay, PublisherInv, PublisherTypes
  <2>7. QED
    BY <2>1, <2>2, <2>4, <2>6 DEF PublisherInv, ConfirmedIsStored
<1>3. CASE ProduceFails
  <2>1. /\ producer'.state = "flushing" /\ producer'.attempted = producer.attempted + 1
        /\ producer'.delivered = producer.delivered /\ producer'.errors = producer.errors
        /\ producer'.base = producer.base /\ producer'.broken /\ log' = log /\ queue' = queue
    BY <1>3 DEF ProduceFails
  <2>2. QED
    BY <2>1 DEF PublisherInv, PublisherTypes, ConfirmedIsStored
<1>4. CASE BeginFlush
  <2>1. /\ producer.state = "queueing" /\ producer'.state = "flushing"
        /\ producer.attempted = Len(Batch) /\ producer'.attempted = producer.attempted
        /\ producer'.delivered = producer.delivered /\ producer'.errors = producer.errors
        /\ producer'.base = producer.base /\ producer'.broken = producer.broken
        /\ log' = log /\ queue' = queue
    BY <1>4 DEF BeginFlush
  <2>2. QED
    BY <2>1 DEF PublisherInv, PublisherTypes, ConfirmedIsStored, OnTheWay, Stored, InFlight
<1>5. CASE ServeReport
  <2>1. /\ producer.state \in {"queueing", "flushing"} /\ queue # <<>>
        /\ queue' = Tail(queue) /\ log' = log
    BY <1>5 DEF ServeReport
  <2>2. /\ producer'.state = producer.state /\ producer'.attempted = producer.attempted
        /\ producer'.base = producer.base /\ producer'.broken = producer.broken
        /\ IF Head(queue).report = "stored"
           THEN producer'.delivered = producer.delivered + 1 /\ producer'.errors = producer.errors
           ELSE producer'.delivered = producer.delivered /\ producer'.errors = producer.errors + 1
    BY <1>5 DEF ServeReport
  <2>3. /\ Len(queue) \in Nat /\ Len(queue) >= 1 /\ Head(queue) = queue[1]
        /\ Len(queue') = Len(queue) - 1
        /\ \A j \in 1 .. Len(queue') : queue'[j] = queue[j + 1]
        /\ queue' \in Seq(Queued)
    BY <2>1 DEF PublisherInv, PublisherTypes
  <2>4. PublisherTypes'
    BY <2>1, <2>2, <2>3 DEF PublisherInv, PublisherTypes
  <2>5. ASSUME ~producer.broken PROVE OnTheWay'
    <3>1. OnTheWay
      BY <2>1, <2>5 DEF PublisherInv
    <3>2. \A i : Stored(i)' <=> Stored(i)
      BY <2>1, <2>2 DEF Stored
    <3>3. producer'.delivered + producer'.errors = producer.delivered + producer.errors + 1
      <4>1. producer.delivered \in Nat /\ producer.errors \in Nat
        BY DEF PublisherInv, PublisherTypes
      <4>2. QED
        BY <2>2, <4>1
    <3>4. producer'.attempted = producer'.delivered + producer'.errors + Len(queue')
      BY <2>2, <2>3, <3>1, <3>3 DEF OnTheWay, InFlight, PublisherInv, PublisherTypes
    <3>5. ASSUME NEW j \in 1 .. Len(queue')
          PROVE  /\ queue'[j].event = Batch[producer'.delivered + producer'.errors + j]
                 /\ queue'[j].report = "stored" =>
                      Stored(producer'.delivered + producer'.errors + j)
      <4>1. j + 1 \in 1 .. Len(queue) /\ queue'[j] = queue[j + 1]
        BY <2>3
      <4>2. InFlight(j + 1) = producer'.delivered + producer'.errors + j
        <5>1. /\ j \in Int /\ producer.delivered \in Int /\ producer.errors \in Int
              /\ producer'.delivered \in Int /\ producer'.errors \in Int
          BY <2>3, <2>4 DEF PublisherInv, PublisherTypes
        <5>2. QED
          BY <3>3, <5>1 DEF InFlight
      <4>3. QED
        BY <3>1, <4>1, <4>2 DEF OnTheWay
    <3>6. ASSUME producer'.errors = 0, NEW i \in 1 .. producer'.delivered PROVE Stored(i)
      <4>1. producer.errors = 0 /\ queue[1].report = "stored"
            /\ producer'.delivered = producer.delivered + 1
        <5>1. producer.errors \in Nat /\ queue[1] = Head(queue)
          BY <2>3 DEF PublisherInv, PublisherTypes
        <5>2. Head(queue).report = "stored"
          BY <2>2, <3>6, <5>1
        <5>3. QED
          BY <2>2, <3>6, <5>1, <5>2
      <4>2. InFlight(1) = producer.delivered + 1 /\ Stored(InFlight(1))
        BY <2>3, <3>1, <4>1 DEF OnTheWay, InFlight, PublisherInv, PublisherTypes
      <4>3. i \in 1 .. producer.delivered \/ i = producer.delivered + 1
        BY <4>1 DEF PublisherInv, PublisherTypes
      <4>4. QED
        BY <3>1, <4>1, <4>2, <4>3 DEF OnTheWay
    <3>7. QED
      BY <2>2, <3>1, <3>2, <3>4, <3>5, <3>6 DEF OnTheWay, InFlight
  <2>6. QED
    BY <2>1, <2>2, <2>4, <2>5 DEF PublisherInv, ConfirmedIsStored
<1>6. CASE Conclude
  <2>1. /\ producer.state = "flushing" /\ log' = log /\ queue' = queue
        /\ producer'.attempted = producer.attempted /\ producer'.base = producer.base
        /\ producer'.delivered = producer.delivered /\ producer'.errors = producer.errors
        /\ producer'.state \in {"raised", "returned"}
    BY <1>6 DEF Conclude
  <2>2. ASSUME producer'.state = "returned" PROVE ConfirmedIsStored'
    <3>1. ~Unconfirmed(producer, Len(queue))
      BY <1>6, <2>2 DEF Conclude
    <3>2. /\ ~producer.broken /\ Len(queue) = 0 /\ producer.errors = 0
          /\ producer.attempted = producer.delivered
      BY <3>1 DEF Unconfirmed, PublisherInv, PublisherTypes
    <3>3. OnTheWay
      BY <2>1, <3>2 DEF PublisherInv
    <3>4. \A i \in 1 .. Len(Batch) : Stored(i)
      BY <2>1, <3>2, <3>3 DEF OnTheWay
    <3>5. QED
      BY <2>1, <3>4, BatchFacts DEF ConfirmedIsStored, Stored
  <2>3. QED
    BY <2>1, <2>2 DEF PublisherInv, PublisherTypes, ConfirmedIsStored
<1>7. CASE ExitPublisher
  <2>1. /\ producer'.state = "exited" /\ log' = log /\ queue' = <<>>
        /\ producer'.attempted = producer.attempted /\ producer'.base = producer.base
        /\ producer'.delivered = producer.delivered /\ producer'.errors = producer.errors
    BY <1>7 DEF ExitPublisher
  <2>2. QED
    BY <2>1, EmptyQueue DEF PublisherInv, PublisherTypes, ConfirmedIsStored
<1>8. ASSUME NEW report, NEW stored \in BOOLEAN, report = "stored" => stored,
             report \in {"stored", "error"}, Answer(report, stored)
      PROVE  PublisherInv'
  <2>1. PICK k \in DOMAIN queue :
           /\ queue' = [queue EXCEPT ![k] = [event |-> queue[k].event, report |-> report]]
           /\ log' = IF stored THEN Append(log, queue[k].event) ELSE log
    BY <1>8 DEF Answer
  <2>2. producer' = producer
    BY <1>8 DEF Answer
  <2>3. /\ queue \in Seq(Queued) /\ k \in 1 .. Len(queue) /\ queue[k] \in Queued
        /\ queue[k].event \in Range(Batch)
    <3>1. queue \in Seq(Queued) /\ k \in 1 .. Len(queue) /\ queue[k] \in Queued
      BY <2>1 DEF PublisherInv, PublisherTypes
    <3>2. QED
      BY <3>1 DEF Queued
  <2>4. /\ queue' \in Seq(Queued) /\ Len(queue') = Len(queue)
        /\ \A j \in 1 .. Len(queue) : queue'[j].event = queue[j].event
        /\ \A j \in 1 .. Len(queue) : j # k => queue'[j] = queue[j]
        /\ queue'[k].report = report
    <3>1. [event |-> queue[k].event, report |-> report] \in Queued
      BY <1>8, <2>3 DEF Queued
    <3>2. QED
      BY <2>1, <2>3, <3>1
  <2>5. /\ log' \in Seq(Range(Batch) \cup {Malformed}) /\ Len(log') >= Len(log)
        /\ \A o \in 1 .. Len(log) : log'[o] = log[o]
        /\ stored => /\ Len(log') = Len(log) + 1
                     /\ log'[Len(log) + 1] = queue[k].event
    BY <2>1, <2>3 DEF PublisherInv, PublisherTypes
  <2>6. \A i : Stored(i) => Stored(i)'
    BY <2>2, <2>5 DEF Stored, PublisherInv, PublisherTypes
  <2>7. ASSUME OnTheWay PROVE OnTheWay'
    <3>1. report = "stored" => Stored(InFlight(k))'
      <4>1. ASSUME report = "stored"
            PROVE  /\ log'[Len(log) + 1] = Batch[InFlight(k)]
                   /\ Len(log) + 1 \in producer.base + 1 .. Len(log')
        <5>1. queue[k].event = Batch[InFlight(k)]
          BY <2>3, <2>7 DEF OnTheWay
        <5>2. Len(log') = Len(log) + 1 /\ log'[Len(log) + 1] = queue[k].event
          BY <1>8, <2>5, <4>1
        <5>3. producer.base <= Len(log) /\ producer.base \in Nat /\ Len(log) \in Nat
          BY DEF PublisherInv, PublisherTypes
        <5>4. QED
          BY <5>1, <5>2, <5>3
      <4>2. InFlight(k)' = InFlight(k)
        BY <2>2 DEF InFlight
      <4>3. QED
        BY <2>2, <4>1, <4>2 DEF Stored
    <3>2. QED
      BY <2>2, <2>4, <2>6, <2>7, <3>1 DEF OnTheWay, InFlight
  <2>8. ConfirmedIsStored'
    BY <2>2, <2>6, BatchFacts DEF ConfirmedIsStored, Stored, PublisherInv
  <2>9. QED
    BY <2>2, <2>4, <2>5, <2>7, <2>8 DEF PublisherInv, PublisherTypes
<1>9. CASE BrokerAnswers
  BY <1>8, <1>9 DEF BrokerAnswers
<1>10. CASE ForeignRecord
  <2>1. log' = Append(log, Malformed) /\ UNCHANGED publisherVars
    BY <1>10 DEF ForeignRecord
  <2>2. /\ log' \in Seq(Range(Batch) \cup {Malformed}) /\ Len(log') = Len(log) + 1
        /\ \A o \in 1 .. Len(log) : log'[o] = log[o]
    BY <2>1 DEF PublisherInv, PublisherTypes
  <2>3. producer' = producer /\ queue' = queue
    BY <2>1 DEF publisherVars
  <2>4. \A i : Stored(i) => Stored(i)'
    BY <2>2, <2>3 DEF Stored, PublisherInv, PublisherTypes
  <2>5. OnTheWay => OnTheWay'
    BY <2>3, <2>4 DEF OnTheWay, InFlight
  <2>6. ConfirmedIsStored'
    BY <2>3, <2>4, BatchFacts DEF ConfirmedIsStored, Stored, PublisherInv
  <2>7. QED
    BY <2>2, <2>3, <2>5, <2>6 DEF PublisherInv, PublisherTypes
<1>11. ASSUME NEW c \in Consumers, Assign(c) \/ Consumer(c) PROVE PublisherInv'
  BY <1>0, <1>11 DEF Assign, Consumer, ConsumerStep, StartConsumer, Poll, PollError, Reject,
       Process, Commit, CommitFails, Stop, Interrupt, Leave
<1>12. CASE UNCHANGED vars
  BY <1>0, <1>12 DEF vars
<1>13. QED
  BY <1>1, <1>2, <1>3, <1>4, <1>5, <1>6, <1>7, <1>9, <1>10, <1>11, <1>12
     DEF Next, Publisher, PublisherStep, Broker

\* publish() returns without raising only when every event of the run is in the topic,
\* whatever the batch, the queue's size, and the reports that fail, come late or not.
THEOREM ReturnsConfirmed == Spec => []ConfirmedIsStored
<1>1. PublisherInv => ConfirmedIsStored
  BY DEF PublisherInv
<1>2. QED
  BY <1>1, InitPublisher, NextPublisher, PTL DEF Spec
=============================================================================
