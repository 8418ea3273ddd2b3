----------------------- MODULE ShopifyIngestion_proofs -----------------------
(* What an ingestion of Shopify orders guarantees for every number of orders,  *)
(* edits, processes and runs, every page size, and whatever fails or overlaps. *)
EXTENDS ShopifyIngestion, FiniteSetTheorems, WellFoundedInduction, TLAPS

EnvelopeType ==
  [order : Order, updated : Nat, content : Content \cup {None}, revision : Nat]

Shapes ==
  /\ clock \in Nat \ {0} /\ edits \in Nat
  /\ orders \in [Order -> [updated : Nat, revision : Nat, content : Content \cup {None}]]
  /\ \A o \in Order : orders[o].updated <= clock
  /\ checkpoint \in Nat /\ checkpoint <= clock
  /\ stage \in [Process -> {"idle", "extract", "project", "persist", "record"}]
  /\ watermark \in [Process -> Nat]
  /\ cursor \in [Process -> Nat \X Nat]
  /\ batch \in [Process -> Seq(EnvelopeType)]
  /\ DOMAIN rows = Process

\* A batch has the current version of an order, or ends before it.
InBatch(p, o) ==
  \E n \in 1 .. Len(batch[p]) :
    batch[p][n].order = o /\ batch[p][n].revision = orders[o].revision

Beyond(p, o) == \A n \in 1 .. Len(batch[p]) : batch[p][n].updated <= orders[o].updated

Holds(R, e) == \E r \in R : r.order = e.order /\ r.revision = e.revision

\* Of a run that goes on: what its checkpoint passes has arrived, what its cursor
\* has passed is in its batch, and what it has persisted is in Bronze.
RunInv(p) ==
  /\ watermark[p] <= clock
  /\ \A n \in 1 .. Len(batch[p]) : batch[p][n].updated <= clock
  /\ stage[p] = "idle" => cursor[p] = <<0, 0>> /\ batch[p] = << >>
  /\ stage[p] = "persist" => \A n \in 1 .. Len(batch[p]) : Holds(rows[p], batch[p][n])
  /\ stage[p] = "record" => \A n \in 1 .. Len(batch[p]) : Holds(bronze, batch[p][n])

\* The same of one order that was not outrun.
ReachInv(p, o) ==
  /\ stage[p] # "idle" /\ 0 < orders[o].updated /\ orders[o].updated < watermark[p] => Arrived(o)
  /\ stage[p] = "extract" /\ Boundary(p) <= orders[o].updated /\ ~After(Key(o), cursor[p])
       => InBatch(p, o)
  /\ stage[p] \in {"project", "persist", "record"} /\ Boundary(p) <= orders[o].updated
       => InBatch(p, o) \/ Beyond(p, o)

\* The inductive invariant of the checkpoint.
CheckpointInv ==
  /\ Shapes
  /\ \A p \in Process : RunInv(p)
  /\ \A p \in Process, o \in Order \ outrun : ReachInv(p, o)
  /\ NothingStranded

-----------------------------------------------------------------------------
LEMMA Nothing == << >> \in Seq(EnvelopeType) /\ Len(<< >>) = 0
OBVIOUS

LEMMA InitCheckpoint == Init => CheckpointInv
<1> SUFFICES ASSUME Init PROVE CheckpointInv
  OBVIOUS
<1>1. Shapes
  BY Nothing DEF Init, Shapes, NoOrder
<1>2. \A p \in Process : RunInv(p)
  BY Nothing DEF Init, RunInv
<1>3. \A p \in Process, o \in Order : ReachInv(p, o)
  BY DEF Init, ReachInv
<1>4. NothingStranded
  BY DEF Init, NothingStranded, NoOrder
<1>5. QED
  BY <1>1, <1>2, <1>3, <1>4 DEF CheckpointInv

\* Bronze only grows, and orders keep their version but by an edit.
LEMMA StaysArrived ==
  ASSUME NEW o, Arrived(o), bronze \subseteq bronze', orders'[o].revision = orders[o].revision
  PROVE  Arrived(o)'
BY DEF Arrived

\* An edit takes its order to the end of the list, or behind a cursor.
LEMMA EditKeeps ==
  ASSUME CheckpointInv, NEW o \in Order, NEW content \in Content, Edit(o, content)
  PROVE  CheckpointInv'
<1>1. /\ edits' = edits + 1 /\ clock' = clock /\ checkpoint' = checkpoint
      /\ orders' = [orders EXCEPT ![o] =
           [updated |-> clock, revision |-> edits + 1, content |-> content]]
      /\ outrun' = IF Passed(o) THEN outrun \cup {o} ELSE outrun \ {o}
      /\ stage' = stage /\ watermark' = watermark /\ cursor' = cursor /\ batch' = batch
      /\ rows' = rows /\ bronze' = bronze
  BY DEF Edit, state, process
<1>2. orders'[o].updated = clock /\ \A m \in Order : m # o => orders'[m] = orders[m]
  BY <1>1 DEF CheckpointInv, Shapes
<1>3. Shapes'
  <2>1. orders' \in [Order -> [updated : Nat, revision : Nat, content : Content \cup {None}]]
    BY <1>1 DEF CheckpointInv, Shapes
  <2>2. \A m \in Order : orders'[m].updated <= clock
    BY <1>2 DEF CheckpointInv, Shapes
  <2>3. QED
    BY <1>1, <2>1, <2>2 DEF CheckpointInv, Shapes
<1>4. ASSUME NEW p \in Process PROVE RunInv(p)'
  BY <1>1 DEF CheckpointInv, RunInv, Holds
<1>5. ASSUME NEW m \in Order \ outrun', m # o
      PROVE  /\ m \in Order \ outrun
             /\ Arrived(m)' = Arrived(m)
             /\ \A p \in Process : ReachInv(p, m)' = ReachInv(p, m)
  BY <1>1, <1>2, <1>5 DEF Arrived, ReachInv, Boundary, Key, InBatch, Beyond
<1>6. ASSUME NEW p \in Process, o \notin outrun' PROVE ReachInv(p, o)'
  <2>1. watermark[p] <= clock /\ clock \in Nat /\ watermark[p] \in Nat
    BY DEF CheckpointInv, Shapes, RunInv
  <2>2. ~(orders'[o].updated < watermark'[p])
    BY <1>1, <1>2, <2>1
  <2>3. ~Passed(o)
    BY <1>1, <1>6
  <2>4. stage[p] = "extract" => After(Key(o)', cursor'[p])
    BY <1>1, <1>2, <2>3 DEF Passed, Key
  <2>5. Beyond(p, o)'
    BY <1>1, <1>2 DEF CheckpointInv, RunInv, Beyond
  <2>6. QED
    BY <1>1, <2>2, <2>4, <2>5 DEF ReachInv
<1>7. NothingStranded'
  <2>1. ~(orders'[o].updated < checkpoint')
    BY <1>1, <1>2 DEF CheckpointInv, Shapes
  <2>2. QED
    BY <1>1, <1>2, <1>5, <2>1 DEF CheckpointInv, NothingStranded
<1>8. QED
  BY <1>3, <1>4, <1>5, <1>6, <1>7 DEF CheckpointInv

\* Time that passes changes nothing.
LEMMA TickKeeps ==
  ASSUME CheckpointInv, Tick PROVE CheckpointInv'
<1>1. /\ clock' = clock + 1
      /\ UNCHANGED <<orders, edits, outrun, bronze, checkpoint, stage, watermark, cursor,
                     batch, rows>>
  BY DEF Tick, state, process
<1>2. Shapes'
  BY <1>1 DEF CheckpointInv, Shapes
<1>3. ASSUME NEW p \in Process PROVE RunInv(p)'
  <2>1. \A n \in 1 .. Len(batch[p]) : batch[p][n].updated \in Nat
    <3>1. \A n \in 1 .. Len(batch[p]) : batch[p][n] \in EnvelopeType
      BY DEF CheckpointInv, Shapes
    <3>2. QED
      BY <3>1 DEF EnvelopeType
  <2>2. QED
    BY <1>1, <2>1 DEF CheckpointInv, Shapes, RunInv, Holds
<1>4. ASSUME NEW p \in Process, NEW o \in Order \ outrun' PROVE ReachInv(p, o)'
  BY <1>1 DEF CheckpointInv, ReachInv, Boundary, Key, InBatch, Beyond, Arrived
<1>5. NothingStranded'
  BY <1>1 DEF CheckpointInv, NothingStranded, Arrived
<1>6. QED
  BY <1>2, <1>3, <1>4, <1>5 DEF CheckpointInv

-----------------------------------------------------------------------------
\* The processes that do not move.
LEMMA OthersKeep ==
  ASSUME CheckpointInv, UNCHANGED <<orders, outrun, clock>>, bronze \subseteq bronze',
         NEW q \in Process, stage'[q] = stage[q], watermark'[q] = watermark[q],
         cursor'[q] = cursor[q], batch'[q] = batch[q], rows'[q] = rows[q]
  PROVE  RunInv(q)' /\ \A o \in Order \ outrun' : ReachInv(q, o)'
<1>1. RunInv(q) /\ \A o \in Order \ outrun : ReachInv(q, o)
  BY DEF CheckpointInv
<1>2. RunInv(q)'
  BY <1>1 DEF RunInv, Holds
<1>3. ASSUME NEW o \in Order \ outrun' PROVE ReachInv(q, o)'
  BY <1>1, <1>3, StaysArrived DEF ReachInv, Boundary, Key, InBatch, Beyond
<1>4. QED
  BY <1>2, <1>3

LEMMA NothingNewStranded ==
  ASSUME NothingStranded, UNCHANGED <<orders, outrun, checkpoint>>, bronze \subseteq bronze'
  PROVE  NothingStranded'
BY StaysArrived DEF NothingStranded

LEMMA ResetKeeps ==
  ASSUME CheckpointInv, NEW p \in Process, Reset(p), UNCHANGED <<source, outrun, bronze>>,
         checkpoint' \in Nat, checkpoint' <= clock, NothingStranded'
  PROVE  CheckpointInv'
<1> USE DEF Reset, source
<1>1. Shapes'
  <2>1. batch' = [batch EXCEPT ![p] = << >>] /\ << >> \in Seq(EnvelopeType)
    OBVIOUS
  <2>2. batch' \in [Process -> Seq(EnvelopeType)]
    BY <2>1 DEF CheckpointInv, Shapes
  <2>3. QED
    BY <2>2 DEF CheckpointInv, Shapes
<1>2. stage'[p] = "idle" /\ watermark'[p] = 0 /\ cursor'[p] = <<0, 0>> /\ batch'[p] = << >>
  BY DEF CheckpointInv, Shapes
<1>3. RunInv(p)' /\ \A o \in Order \ outrun' : ReachInv(p, o)'
  BY <1>2, Nothing DEF RunInv, ReachInv, CheckpointInv, Shapes
<1>4. ASSUME NEW q \in Process, q # p
      PROVE  RunInv(q)' /\ \A o \in Order \ outrun' : ReachInv(q, o)'
  BY <1>4, OthersKeep DEF CheckpointInv, Shapes
<1>5. QED
  BY <1>1, <1>3, <1>4 DEF CheckpointInv

\* A run starts from the checkpoint with its cursor before every order.
LEMMA StartKeeps ==
  ASSUME CheckpointInv, NEW p \in Process, Start(p) PROVE CheckpointInv'
<1>1. /\ stage[p] = "idle" /\ stage' = [stage EXCEPT ![p] = "extract"]
      /\ watermark' = [watermark EXCEPT ![p] = checkpoint]
      /\ UNCHANGED <<orders, clock, edits, outrun, bronze, checkpoint, cursor, batch, rows>>
  BY DEF Start, source, state
<1>2. Shapes'
  BY <1>1 DEF CheckpointInv, Shapes
<1>3. stage'[p] = "extract" /\ watermark'[p] = checkpoint /\ cursor'[p] = <<0, 0>>
      /\ batch'[p] = << >>
  BY <1>1 DEF CheckpointInv, Shapes, RunInv
<1>4. RunInv(p)'
  BY <1>1, <1>3, Nothing DEF CheckpointInv, Shapes, RunInv
<1>5. ASSUME NEW o \in Order \ outrun' PROVE ReachInv(p, o)'
  <2>1. orders[o].updated \in Nat
    BY DEF CheckpointInv, Shapes
  <2>2. 0 < orders[o].updated /\ orders[o].updated < checkpoint => Arrived(o)'
    BY <1>1, <1>5 DEF CheckpointInv, NothingStranded, Arrived
  <2>3. Boundary(p)' \in Nat /\ Boundary(p)' >= 1
    BY <1>3 DEF Boundary, CheckpointInv, Shapes
  <2>4. Boundary(p)' <= orders[o].updated => After(Key(o)', cursor'[p])
    <3>1. Key(o)' = <<orders[o].updated, o>>
      BY <1>1 DEF Key
    <3>2. Boundary(p)' <= orders[o].updated => orders[o].updated > 0
      BY <2>1, <2>3
    <3>3. QED
      BY <1>3, <3>1, <3>2 DEF After
  <2>5. QED
    BY <1>1, <1>3, <2>2, <2>4 DEF ReachInv
<1>6. ASSUME NEW q \in Process, q # p
      PROVE  RunInv(q)' /\ \A o \in Order \ outrun' : ReachInv(q, o)'
  BY <1>1, <1>6, OthersKeep DEF CheckpointInv, Shapes
<1>7. QED
  BY <1>1, <1>2, <1>4, <1>5, <1>6, NothingNewStranded DEF CheckpointInv

\* A run ends by an error, or dies.
LEMMA FailKeeps ==
  ASSUME CheckpointInv, NEW p \in Process, Fail(p) PROVE CheckpointInv'
<1>1. UNCHANGED <<source, outrun, bronze, checkpoint>> /\ Reset(p)
  BY DEF Fail, state
<1>2. NothingStranded'
  BY <1>1, NothingNewStranded DEF CheckpointInv, source
<1>3. QED
  BY <1>1, <1>2, ResetKeeps DEF CheckpointInv, Shapes

\* Every envelope has a row in the projection.
LEMMA ProjectionHolds ==
  ASSUME NEW e, NEW run PROVE Holds(Projected(e, run), e)
<1>1. PICK line : line \in Lines(e.content)
  BY DEF Lines
<1>2. PICK r : r = Row(e, line, run, e.content.active, line \in e.content.zero)
  OBVIOUS
<1>3. r \in Projected(e, run) /\ r.order = e.order /\ r.revision = e.revision
  BY <1>1, <1>2 DEF Projected, Row
<1>4. QED
  BY <1>3 DEF Holds

LEMMA ProjectKeeps ==
  ASSUME CheckpointInv, NEW p \in Process, Project(p) PROVE CheckpointInv'
<1>1. UNCHANGED <<source, outrun, bronze, checkpoint>> /\ stage[p] = "project"
  BY DEF Project, state
<1>2. NothingStranded'
  BY <1>1, NothingNewStranded DEF CheckpointInv, source
<1>3. CASE Reset(p)
  BY <1>1, <1>2, <1>3, ResetKeeps DEF CheckpointInv, Shapes
<1>4. CASE ~Reset(p)
  <2>1. /\ stage' = [stage EXCEPT ![p] = "persist"]
        /\ rows' = [rows EXCEPT ![p] =
             UNION {Projected(e, started[p]) \cup Tombstones(e, started[p]) :
                      e \in ToSet(batch[p])}]
        /\ UNCHANGED <<watermark, cursor, batch>>
    BY <1>4 DEF Project
  <2>2. Shapes'
    BY <1>1, <2>1 DEF CheckpointInv, Shapes, source
  <2>3. stage'[p] = "persist"
    BY <2>1 DEF CheckpointInv, Shapes
  <2>4. ASSUME NEW n \in 1 .. Len(batch[p]) PROVE Holds(rows'[p], batch[p][n])
    <3>1. batch[p][n] \in ToSet(batch[p])
      BY DEF CheckpointInv, Shapes, ToSet
    <3>2. Projected(batch[p][n], started[p]) \subseteq rows'[p]
      BY <2>1, <3>1 DEF CheckpointInv, Shapes
    <3>3. QED
      BY <3>2, ProjectionHolds DEF Holds
  <2>5. RunInv(p)'
    BY <1>1, <2>1, <2>3, <2>4 DEF CheckpointInv, RunInv, Holds, source
  <2>6. ASSUME NEW o \in Order \ outrun' PROVE ReachInv(p, o)'
    BY <1>1, <2>1, <2>3, <2>6 DEF CheckpointInv, ReachInv, Boundary, InBatch, Beyond,
       Arrived, source
  <2>7. ASSUME NEW q \in Process, q # p
        PROVE  RunInv(q)' /\ \A o \in Order \ outrun' : ReachInv(q, o)'
    BY <1>1, <2>1, <2>7, OthersKeep DEF CheckpointInv, Shapes, source
  <2>8. QED
    BY <1>2, <2>2, <2>5, <2>6, <2>7 DEF CheckpointInv
<1>5. QED
  BY <1>3, <1>4

LEMMA PersistKeeps ==
  ASSUME CheckpointInv, NEW p \in Process, Persist(p) PROVE CheckpointInv'
<1>1. /\ stage[p] = "persist" /\ stage' = [stage EXCEPT ![p] = "record"]
      /\ bronze' = bronze \cup rows[p]
      /\ UNCHANGED <<orders, clock, edits, outrun, checkpoint, watermark, cursor, batch, rows>>
  BY DEF Persist, source, state
<1>2. Shapes'
  BY <1>1 DEF CheckpointInv, Shapes
<1>3. stage'[p] = "record" /\ bronze \subseteq bronze' /\ rows[p] \subseteq bronze'
  BY <1>1 DEF CheckpointInv, Shapes
<1>4. RunInv(p)'
  BY <1>1, <1>3 DEF CheckpointInv, RunInv, Holds
<1>5. ASSUME NEW o \in Order \ outrun' PROVE ReachInv(p, o)'
  <2>1. ReachInv(p, o)
    BY <1>1, <1>5 DEF CheckpointInv
  <2>2. Arrived(o) => Arrived(o)'
    BY <1>1, <1>3, StaysArrived
  <2>3. QED
    BY <1>1, <1>3, <2>1, <2>2 DEF ReachInv, Boundary, InBatch, Beyond
<1>6. ASSUME NEW q \in Process, q # p
      PROVE  RunInv(q)' /\ \A o \in Order \ outrun' : ReachInv(q, o)'
  BY <1>1, <1>3, <1>6, OthersKeep DEF CheckpointInv, Shapes
<1>7. QED
  BY <1>1, <1>2, <1>3, <1>4, <1>5, <1>6, NothingNewStranded DEF CheckpointInv

-----------------------------------------------------------------------------
\* Of two keys that differ one is after the other, and what is after what a third is
\* after, is after it.
LEMMA KeysAreOrdered ==
  ASSUME NEW u \in Nat \X Nat, NEW v \in Nat \X Nat
  PROVE  ~(After(u, v) /\ After(v, u))
BY DEF After

\* A page lists, from the cursor on, every order up to its last one.
LEMMA PageReaches ==
  ASSUME Shapes, NEW p \in Process, NEW page \in Pages(Boundary(p), cursor[p]),
         NEW o \in Order, Boundary(p) <= orders[o].updated, After(Key(o), cursor[p])
  PROVE  LET more == Cardinality(Matching(Boundary(p), cursor[p])) > PageSize
         IN  \/ \E n \in 1 .. Len(page) : page[n] = o
             \/ more /\ After(Key(o), Key(Last(page)))
<1>1. PICK S : S = Matching(Boundary(p), cursor[p])
  OBVIOUS
<1>2. o \in S /\ S \subseteq Order /\ IsFiniteSet(S)
  <2>1. orders[o].updated >= Boundary(p)
    BY DEF Shapes, Boundary
  <2>2. o \in S /\ S \in SUBSET Order
    BY <1>1, <2>1 DEF Matching
  <2>3. QED
    BY <2>2, OrderAssumption, FS_Subset
<1>3. PICK size \in Nat : size = Cardinality(S)
  BY <1>2, FS_CardinalityType
<1>4. PICK length \in Nat : length = IF size <= PageSize THEN size ELSE PageSize
  BY OrderAssumption
<1>5. PICK q \in [1 .. size -> S] :
        /\ ToSet(q) = S
        /\ \A m, n \in 1 .. size : m < n => After(Key(q[n]), Key(q[m]))
        /\ page = SubSeq(q, 1, length)
  BY <1>1, <1>3, <1>4 DEF Pages, Listing
<1>6. length <= size /\ Len(page) = length /\ \A n \in 1 .. length : page[n] = q[n]
  <2>1. length <= size /\ PageSize \in Nat
    BY <1>4, OrderAssumption
  <2>2. q \in Seq(S) /\ Len(q) = size
    BY <1>5
  <2>3. QED
    BY <1>5, <2>1, <2>2
<1>7. PICK m \in 1 .. size : q[m] = o
  BY <1>2, <1>5 DEF ToSet
<1>8. CASE m <= length
  <2>1. m \in 1 .. Len(page) /\ page[m] = o
    BY <1>6, <1>7, <1>8
  <2>2. QED
    BY <2>1
<1>9. CASE ~(m <= length)
  <2>1. size > PageSize /\ length = PageSize /\ length \in 1 .. size /\ length < m
    BY <1>4, <1>7, <1>9, OrderAssumption
  <2>2. Last(page) = q[length]
    BY <1>6, <2>1 DEF Last
  <2>3. After(Key(o), Key(Last(page)))
    BY <1>5, <1>7, <2>1, <2>2
  <2>4. QED
    BY <1>1, <1>3, <2>1, <2>3
<1>10. QED
  BY <1>8, <1>9

\* A page is a sequence of orders that is not empty when there are more.
LEMMA PageIsOrders ==
  ASSUME Shapes, NEW p \in Process, NEW page \in Pages(Boundary(p), cursor[p])
  PROVE  /\ page \in Seq(Order)
         /\ Cardinality(Matching(Boundary(p), cursor[p])) > PageSize => Last(page) \in Order
<1>1. PICK S : S = Matching(Boundary(p), cursor[p])
  OBVIOUS
<1>2. S \in SUBSET Order /\ IsFiniteSet(S)
  BY <1>1, OrderAssumption, FS_Subset DEF Matching
<1>3. PICK size \in Nat : size = Cardinality(S)
  BY <1>2, FS_CardinalityType
<1>4. PICK length \in Nat : length = IF size <= PageSize THEN size ELSE PageSize
  BY OrderAssumption
<1>5. PICK q \in [1 .. size -> S] : page = SubSeq(q, 1, length)
  BY <1>1, <1>3, <1>4 DEF Pages, Listing
<1>6. length <= size /\ PageSize \in Nat \ {0}
  BY <1>4, OrderAssumption
<1>7. q \in Seq(Order) /\ Len(q) = size
  BY <1>2, <1>5
<1>8. page \in Seq(Order) /\ Len(page) = length
  BY <1>5, <1>6, <1>7
<1>9. size > PageSize => Len(page) \in 1 .. Len(page)
  BY <1>4, <1>6, <1>8
<1>10. size > PageSize => page[Len(page)] \in Order
  BY <1>8, <1>9
<1>11. QED
  BY <1>1, <1>3, <1>8, <1>10 DEF Last


\* What a page adds to a batch: the current versions of its orders.
LEMMA PageOfEnvelopes ==
  ASSUME Shapes, NEW page \in Seq(Order)
  PROVE  /\ Envelopes(page) \in Seq(EnvelopeType) /\ Len(Envelopes(page)) = Len(page)
         /\ \A n \in 1 .. Len(page) :
              Envelopes(page)[n] = Envelope(page[n]) /\ page[n] \in Order
<1>1. \A n \in 1 .. Len(page) : page[n] \in Order /\ Envelope(page[n]) \in EnvelopeType
  BY DEF Shapes, Envelope, EnvelopeType
<1>2. Len(page) \in Nat /\ Envelopes(page) \in [1 .. Len(page) -> EnvelopeType]
  BY <1>1 DEF Envelopes
<1>3. QED
  BY <1>1, <1>2 DEF Envelopes

LEMMA BatchGrows ==
  ASSUME Shapes, NEW page \in Seq(Order), NEW b \in Seq(EnvelopeType)
  PROVE  \E c \in Seq(EnvelopeType) :
           /\ c = b \o Envelopes(page) /\ Len(c) = Len(b) + Len(page)
           /\ \A n \in 1 .. Len(b) : c[n] = b[n]
           /\ \A n \in 1 .. Len(page) : c[Len(b) + n] = Envelope(page[n]) /\ page[n] \in Order
           /\ \A n \in 1 .. Len(c) :
                n \in 1 .. Len(b) \/ \E m \in 1 .. Len(page) : n = Len(b) + m
<1>1. PICK e \in Seq(EnvelopeType) :
        /\ e = Envelopes(page) /\ Len(e) = Len(page)
        /\ \A n \in 1 .. Len(page) : e[n] = Envelope(page[n]) /\ page[n] \in Order
  BY PageOfEnvelopes
<1>2. b \o e \in Seq(EnvelopeType)
  OBVIOUS
<1>3. /\ Len(b \o e) = Len(b) + Len(e)
      /\ \A n \in 1 .. Len(b) : (b \o e)[n] = b[n]
      /\ \A n \in 1 .. Len(e) : (b \o e)[Len(b) + n] = e[n]
  OBVIOUS
<1>4. PICK c \in Seq(EnvelopeType) :
        /\ c = b \o e /\ Len(c) = Len(b) + Len(e)
        /\ \A n \in 1 .. Len(b) : c[n] = b[n]
        /\ \A n \in 1 .. Len(e) : c[Len(b) + n] = e[n]
  BY <1>2, <1>3
<1>5. ASSUME NEW n \in 1 .. Len(c), n \notin 1 .. Len(b)
      PROVE  \E m \in 1 .. Len(page) : n = Len(b) + m
  <2>1. Len(b) \in Nat /\ Len(page) \in Nat
    OBVIOUS
  <2>2. n - Len(b) \in 1 .. Len(page) /\ n = Len(b) + (n - Len(b))
    BY <1>1, <1>4, <1>5, <2>1
  <2>3. QED
    BY <2>2
<1>6. c = b \o Envelopes(page)
  BY <1>1, <1>4, Zenon
<1>7. QED
  BY <1>1, <1>4, <1>5, <1>6

\* A page is added to the batch, and the cursor moves to its end.
LEMMA ExtractKeeps ==
  ASSUME CheckpointInv, NEW p \in Process, Extract(p) PROVE CheckpointInv'
<1>1. PICK page \in Pages(Boundary(p), cursor[p]) :
        /\ batch' = [batch EXCEPT ![p] = @ \o Envelopes(page)]
        /\ IF Cardinality(Matching(Boundary(p), cursor[p])) > PageSize
           THEN cursor' = [cursor EXCEPT ![p] = Key(Last(page))] /\ stage' = stage
           ELSE stage' = [stage EXCEPT ![p] = "project"] /\ cursor' = cursor
  BY DEF Extract
<1>2. stage[p] = "extract"
      /\ UNCHANGED <<orders, clock, edits, outrun, bronze, checkpoint, watermark, rows>>
  BY DEF Extract, source, state
<1> DEFINE more == Cardinality(Matching(Boundary(p), cursor[p])) > PageSize
<1>3. page \in Seq(Order) /\ (more => Last(page) \in Order)
  BY PageIsOrders DEF CheckpointInv
<1>4. PICK b \in Seq(EnvelopeType) : b = batch[p]
  BY DEF CheckpointInv, Shapes
<1>5. PICK c \in Seq(EnvelopeType) :
        /\ c = b \o Envelopes(page) /\ Len(c) = Len(b) + Len(page)
        /\ \A n \in 1 .. Len(b) : c[n] = b[n]
        /\ \A n \in 1 .. Len(page) : c[Len(b) + n] = Envelope(page[n]) /\ page[n] \in Order
        /\ \A n \in 1 .. Len(c) :
             n \in 1 .. Len(b) \/ \E m \in 1 .. Len(page) : n = Len(b) + m
  BY <1>3, BatchGrows, Zenon DEF CheckpointInv
<1>6. batch' = [batch EXCEPT ![p] = c] /\ batch'[p] = c
  BY <1>1, <1>4, <1>5 DEF CheckpointInv, Shapes
<1>7. Shapes'
  <2>1. batch' \in [Process -> Seq(EnvelopeType)]
    BY <1>6 DEF CheckpointInv, Shapes
  <2>2. more => Key(Last(page)) \in Nat \X Nat
    BY <1>3, OrderAssumption DEF Key, CheckpointInv, Shapes
  <2>3. cursor' \in [Process -> Nat \X Nat]
    BY <1>1, <2>2 DEF CheckpointInv, Shapes
  <2>4. stage' \in [Process -> {"idle", "extract", "project", "persist", "record"}]
    BY <1>1 DEF CheckpointInv, Shapes
  <2>5. QED
    BY <1>2, <2>1, <2>3, <2>4 DEF CheckpointInv, Shapes
<1>8. IF more THEN stage'[p] = "extract" /\ cursor'[p] = Key(Last(page))
       ELSE stage'[p] = "project"
  BY <1>1, <1>2 DEF CheckpointInv, Shapes
<1>9. RunInv(p)'
  <2>1. ASSUME NEW n \in 1 .. Len(c) PROVE c[n].updated <= clock
    <3>1. CASE n \in 1 .. Len(b)
      BY <1>4, <1>5, <3>1 DEF CheckpointInv, RunInv
    <3>2. CASE \E m \in 1 .. Len(page) : n = Len(b) + m
      <4>1. PICK m \in 1 .. Len(page) : n = Len(b) + m
        BY <3>2
      <4>2. c[n] = Envelope(page[m]) /\ page[m] \in Order
        BY <1>5, <4>1
      <4>3. QED
        BY <4>2 DEF Envelope, CheckpointInv, Shapes
    <3>3. QED
      BY <1>5, <3>1, <3>2
  <2>2. watermark[p] <= clock
    BY DEF CheckpointInv, RunInv
  <2>3. QED
    BY <1>2, <1>6, <1>8, <2>1, <2>2 DEF RunInv
<1>10. ASSUME NEW o \in Order \ outrun' PROVE ReachInv(p, o)'
  <2>1. ReachInv(p, o)
    BY <1>2 DEF CheckpointInv
  <2>2. InBatch(p, o) => InBatch(p, o)'
    <3>1. ASSUME NEW n \in 1 .. Len(b), b[n].order = o, b[n].revision = orders[o].revision
          PROVE  InBatch(p, o)'
      <4>1. n \in 1 .. Len(c) /\ c[n] = b[n]
        BY <1>4, <1>5
      <4>2. QED
        BY <1>2, <1>6, <3>1, <4>1 DEF InBatch
    <3>2. QED
      BY <1>4, <3>1 DEF InBatch
  <2>3. ASSUME NEW n \in 1 .. Len(page), page[n] = o PROVE InBatch(p, o)'
    <3>1. c[Len(b) + n] = Envelope(o)
      BY <1>5, <2>3
    <3>2. Len(b) \in Nat /\ Len(page) \in Nat
      BY <1>3
    <3>3. Len(b) + n \in 1 .. Len(c)
      BY <1>5, <3>2
    <3>4. QED
      BY <1>2, <1>6, <3>1, <3>3 DEF InBatch, Envelope
  <2>4. ASSUME Boundary(p) <= orders[o].updated
        PROVE  InBatch(p, o)' \/ (more /\ After(Key(o), Key(Last(page))))
    <3>1. CASE After(Key(o), cursor[p])
      BY <2>3, <2>4, <3>1, PageReaches DEF CheckpointInv
    <3>2. CASE ~After(Key(o), cursor[p])
      BY <1>2, <2>1, <2>2, <2>4, <3>2 DEF ReachInv
    <3>3. QED
      BY <3>1, <3>2
  <2>5. Boundary(p)' = Boundary(p) /\ Key(o)' = Key(o) /\ (Arrived(o)' <=> Arrived(o))
    BY <1>2 DEF Boundary, Key, Arrived
  <2>6. CASE more
    BY <1>2, <1>8, <2>1, <2>4, <2>5, <2>6 DEF ReachInv
  <2>7. CASE ~more
    BY <1>2, <1>8, <2>1, <2>4, <2>5, <2>7 DEF ReachInv
  <2>8. QED
    BY <2>6, <2>7
<1>11. ASSUME NEW q \in Process, q # p
       PROVE  RunInv(q)' /\ \A o \in Order \ outrun' : ReachInv(q, o)'
  <2>1. stage'[q] = stage[q] /\ cursor'[q] = cursor[q]
    BY <1>1, <1>11 DEF CheckpointInv, Shapes
  <2>2. batch'[q] = batch[q]
    BY <1>6, <1>11 DEF CheckpointInv, Shapes
  <2>3. QED
    BY <1>2, <2>1, <2>2, OthersKeep
<1>12. QED
  BY <1>2, <1>7, <1>9, <1>10, <1>11, NothingNewStranded DEF CheckpointInv

-----------------------------------------------------------------------------
\* A set of numbers with a member and a bound has a greatest member.
LEMMA Greatest ==
  ASSUME NEW S \in SUBSET Nat, S # {}, NEW bound \in Nat, \A n \in S : n <= bound
  PROVE  Max(S) \in S /\ \A n \in S : n <= Max(S)
<1>1. PICK T \in SUBSET Nat : T = {bound - n : n \in S}
  <2>1. {bound - n : n \in S} \in SUBSET Nat
    OBVIOUS
  <2>2. QED
    BY <2>1
<1>2. T # {}
  BY <1>1
<1>3. PICK t \in T : \A u \in T : <<u, t>> \notin OpToRel(<, Nat)
  BY <1>1, <1>2, NatLessThanWellFounded, WFMin
<1>4. PICK m \in S : t = bound - m
  BY <1>1, <1>3
<1>5. ASSUME NEW n \in S PROVE m >= n
  <2>1. bound - n \in T /\ bound - n \in Nat /\ bound - m \in Nat
    BY <1>1
  <2>2. ~(bound - n < bound - m)
    BY <1>3, <1>4, <2>1 DEF OpToRel
  <2>3. QED
    BY <2>2
<1>6. Max(S) \in S /\ \A n \in S : Max(S) >= n
  BY <1>4, <1>5 DEF Max
<1>7. QED
  BY <1>6

LEMMA CandidateOfBatch ==
  ASSUME CheckpointInv, NEW p \in Process
  PROVE  /\ Candidate(p) \in Nat /\ Candidate(p) <= clock
         /\ \/ Candidate(p) = watermark[p] /\ Len(batch[p]) = 0
            \/ \E n \in 1 .. Len(batch[p]) : Candidate(p) = batch[p][n].updated
<1>1. batch[p] \in Seq(EnvelopeType) /\ watermark[p] \in Nat /\ clock \in Nat
  BY DEF CheckpointInv, Shapes
<1>2. CASE batch[p] = << >>
  <2>1. Candidate(p) = watermark[p] /\ Len(batch[p]) = 0
    BY <1>2 DEF Candidate
  <2>2. QED
    BY <1>1, <2>1 DEF CheckpointInv, RunInv
<1>3. CASE batch[p] # << >>
  <2>1. PICK S : S = {e.updated : e \in ToSet(batch[p])}
    OBVIOUS
  <2>2. \A n \in 1 .. Len(batch[p]) :
          /\ batch[p][n].updated \in Nat /\ batch[p][n].updated <= clock
          /\ batch[p][n].updated \in S
    <3>1. \A n \in 1 .. Len(batch[p]) : batch[p][n] \in EnvelopeType
      BY <1>1
    <3>2. QED
      BY <1>1, <2>1, <3>1 DEF EnvelopeType, CheckpointInv, RunInv, ToSet
  <2>3. \A u \in S : \E n \in 1 .. Len(batch[p]) : u = batch[p][n].updated
    BY <1>1, <2>1 DEF ToSet
  <2>4. S \in SUBSET Nat /\ \A u \in S : u <= clock
    BY <2>2, <2>3
  <2>5. S # {}
    <3>1. 1 \in 1 .. Len(batch[p])
      BY <1>1, <1>3
    <3>2. QED
      BY <2>2, <3>1
  <2>6. Max(S) \in S
    BY <1>1, <2>4, <2>5, Greatest
  <2>7. Candidate(p) = Max(S)
    BY <1>3, <2>1 DEF Candidate
  <2>8. QED
    BY <2>3, <2>4, <2>6, <2>7
<1>4. QED
  BY <1>2, <1>3

\* A recorded run leaves nothing behind its checkpoint.
LEMMA RecordKeeps ==
  ASSUME CheckpointInv, NEW p \in Process, Record(p) PROVE CheckpointInv'
<1>1. /\ stage[p] = "record" /\ Reset(p) /\ UNCHANGED <<source, outrun, bronze>>
      /\ checkpoint' = IF Candidate(p) = 0 THEN checkpoint ELSE Candidate(p)
  BY DEF Record
<1>2. checkpoint' \in Nat /\ checkpoint' <= clock
  BY <1>1, CandidateOfBatch DEF CheckpointInv, Shapes
<1>3. ASSUME NEW o \in Order \ outrun, 0 < orders[o].updated,
             orders[o].updated < Candidate(p)
      PROVE  Arrived(o)
  <2>1. ReachInv(p, o) /\ RunInv(p)
    BY DEF CheckpointInv
  <2>2. orders[o].updated \in Nat /\ watermark[p] \in Nat
    BY DEF CheckpointInv, Shapes
  <2>3. CASE orders[o].updated < watermark[p]
    BY <1>1, <1>3, <2>1, <2>3 DEF ReachInv
  <2>4. CASE ~(orders[o].updated < watermark[p])
    <3>1. Boundary(p) <= orders[o].updated
      BY <1>3, <2>2, <2>4 DEF Boundary
    <3>2. PICK n \in 1 .. Len(batch[p]) : Candidate(p) = batch[p][n].updated
      BY <1>3, <2>2, <2>4, CandidateOfBatch
    <3>3. ~Beyond(p, o)
      BY <1>3, <2>2, <3>2, CandidateOfBatch DEF Beyond
    <3>4. InBatch(p, o)
      BY <1>1, <2>1, <3>1, <3>3 DEF ReachInv
    <3>5. PICK m \in 1 .. Len(batch[p]) :
            batch[p][m].order = o /\ batch[p][m].revision = orders[o].revision
      BY <3>4 DEF InBatch
    <3>6. Holds(bronze, batch[p][m])
      BY <1>1, <2>1 DEF RunInv
    <3>7. QED
      BY <3>5, <3>6 DEF Holds, Arrived
  <2>5. QED
    BY <2>3, <2>4
<1>4. NothingStranded'
  <2>1. ASSUME NEW o \in Order \ outrun, 0 < orders[o].updated, orders[o].updated < checkpoint'
        PROVE  Arrived(o)
    BY <1>1, <1>3, <2>1 DEF CheckpointInv, NothingStranded
  <2>2. QED
    BY <1>1, <2>1 DEF NothingStranded, Arrived, source
<1>5. QED
  BY <1>1, <1>2, <1>4, ResetKeeps

-----------------------------------------------------------------------------
LEMMA NextCheckpoint == CheckpointInv /\ [Next]_vars => CheckpointInv'
<1> SUFFICES ASSUME CheckpointInv, [Next]_vars PROVE CheckpointInv'
  OBVIOUS
<1>1. ASSUME NEW o \in Order, NEW content \in Content, Edit(o, content) PROVE CheckpointInv'
  BY <1>1, EditKeeps
<1>2. CASE Tick
  BY <1>2, TickKeeps
<1>3. ASSUME NEW p \in Process, Start(p) PROVE CheckpointInv'
  BY <1>3, StartKeeps
<1>4. ASSUME NEW p \in Process, Extract(p) PROVE CheckpointInv'
  BY <1>4, ExtractKeeps
<1>5. ASSUME NEW p \in Process, Project(p) PROVE CheckpointInv'
  BY <1>5, ProjectKeeps
<1>6. ASSUME NEW p \in Process, Persist(p) PROVE CheckpointInv'
  BY <1>6, PersistKeeps
<1>7. ASSUME NEW p \in Process, Record(p) PROVE CheckpointInv'
  BY <1>7, RecordKeeps
<1>8. ASSUME NEW p \in Process, Fail(p) PROVE CheckpointInv'
  BY <1>8, FailKeeps
<1>9. CASE UNCHANGED vars
  <2>1. UNCHANGED <<orders, clock, edits, outrun, bronze, checkpoint, stage, watermark,
                    cursor, batch, rows>>
    BY <1>9 DEF vars, source, state, process
  <2>2. Shapes'
    BY <2>1 DEF CheckpointInv, Shapes
  <2>3. ASSUME NEW q \in Process PROVE RunInv(q)' /\ \A o \in Order \ outrun' : ReachInv(q, o)'
    BY <2>1, OthersKeep
  <2>4. QED
    BY <2>1, <2>2, <2>3, NothingNewStranded DEF CheckpointInv
<1>10. QED
  BY <1>1, <1>2, <1>3, <1>4, <1>5, <1>6, <1>7, <1>8, <1>9 DEF Next

\* However runs overlap, fail and restart from the checkpoint, and wherever an edit
\* falls between pages, the checkpoint passes only what Bronze has, or was outrun.
THEOREM CheckpointStrandsNothing == Spec => []NothingStranded
<1>1. CheckpointInv => NothingStranded
  BY DEF CheckpointInv
<1>2. Spec => []CheckpointInv
  BY InitCheckpoint, NextCheckpoint, PTL DEF Spec
<1>3. QED
  BY <1>1, <1>2, PTL

-----------------------------------------------------------------------------
\* What Silver shows of an order: its newest rows are those of one version v, with
\* content c, that run x has persisted; any other line was tombstoned since.
Fresh(R, o, v, x, revision, c) ==
  /\ \A r \in R : r.order = o => r.version <= v /\ r.extracted <= x /\ r.revision <= revision
  /\ \A line \in Lines(c) \ c.zero : \E r \in R :
       /\ r.order = o /\ r.line = line /\ r.version = v /\ r.extracted = x
       /\ ~r.zero /\ (c.active => r.active)
  /\ \A r \in R :
       r.order = o /\ r.line \in Lines(c) /\ r.version = v /\ r.extracted = x /\ r.active
         => c.active
  /\ \A r \in R : r.order = o /\ r.line \notin Lines(c) /\ r.active /\ ~r.zero =>
       \E s \in R : s.order = o /\ s.line = r.line /\ ~s.zero /\ Newer(s, r)

Recording(o) == {p \in Process : stage[p] = "record" /\ o \in OrdersOf(p)}

\* The projection has the lines of c, or will have when the run that persisted them is
\* recorded.
LinesKnown(o, c) ==
  IF Recording(o) = {} THEN projection[o] = Lines(c)
  ELSE \A p \in Recording(o) : \A n \in 1 .. Len(batch[p]) :
         batch[p][n].order = o => batch[p][n].content = c

FreshInv(o) ==
  \/ projection[o] = {} /\ Recording(o) = {} /\ \A r \in bronze : r.order # o
  \/ \E v, x, revision \in Nat, c \in Content \cup {None} :
       /\ Fresh(bronze, o, v, x, revision, c)
       /\ LinesKnown(o, c)
       /\ revision <= orders[o].revision
       /\ revision = orders[o].revision => c = orders[o].content

\* Rows and envelopes are of versions the order has had.
RowFits(r) ==
  /\ r.order \in Order /\ r.version \in Nat /\ r.extracted \in Nat /\ r.revision \in Nat
  /\ r.version <= orders[r.order].updated
  /\ r.revision <= orders[r.order].revision
  /\ r.extracted <= runs

EnvelopeFits(e) ==
  /\ e.updated <= orders[e.order].updated
  /\ e.revision <= orders[e.order].revision
  /\ e.revision = orders[e.order].revision => e.content = orders[e.order].content

RunVersions(p) ==
  /\ started[p] <= runs
  /\ \A n \in 1 .. Len(batch[p]) : EnvelopeFits(batch[p][n])
  /\ stage[p] = "persist" => \A r \in rows[p] : RowFits(r) /\ r.order \in OrdersOf(p)

VersionsInv ==
  /\ runs \in Nat /\ started \in [Process -> Nat] /\ overlapping \in [Process -> BOOLEAN]
  /\ DOMAIN projection = Order
  /\ \A o \in Order : orders[o].revision <= edits
  /\ \A r \in bronze : RowFits(r)
  /\ \A p \in Process : RunVersions(p)

Alone(p) == \A q \in Process : q # p => stage[q] = "idle"

Single(p, o) ==
  \A m, n \in 1 .. Len(batch[p]) :
    batch[p][m].order = o /\ batch[p][n].order = o => m = n

AllRows(p) ==
  UNION {Projected(e, started[p]) \cup Tombstones(e, started[p]) : e \in ToSet(batch[p])}

\* A run that does not overlap is alone: nothing reaches Bronze or the projection
\* between what it reads and what it writes.
AloneInv(p) ==
  /\ stage[p] # "idle" /\ ~overlapping[p] => Alone(p)
  /\ stage[p] \in {"extract", "project", "persist"} /\ ~overlapping[p] =>
       /\ \A r \in bronze : r.extracted < started[p]
       /\ \A n \in 1 .. Len(batch[p]), r \in bronze : r.order = batch[p][n].order =>
            r.version <= batch[p][n].updated /\ r.revision <= batch[p][n].revision
  /\ stage[p] = "persist" /\ ~overlapping[p] => rows[p] = AllRows(p)
  /\ stage[p] = "record" =>
       \A o \in OrdersOf(p) \ disturbed : Alone(p) /\ Single(p, o)

\* The inductive invariant of Silver, with that of the checkpoint.
SilverInv ==
  /\ VersionsInv
  /\ \A p \in Process : AloneInv(p)
  /\ \A o \in Order \ disturbed : FreshInv(o)

-----------------------------------------------------------------------------
\* What is fresh is what Silver shows.
LEMMA FreshIsShown ==
  ASSUME Shapes, SilverInv, NEW o \in Order \ disturbed, Arrived(o)
  PROVE  LET content == orders[o].content
         IN  ActiveLines(o) \ content.zero
               = IF content.active THEN Lines(content) \ content.zero ELSE {}
<1> DEFINE c == orders[o].content
<1>1. PICK v \in Nat, x \in Nat, revision \in Nat :
        Fresh(bronze, o, v, x, revision, c)
  <2>1. PICK r \in bronze : r.order = o /\ r.revision = orders[o].revision
    BY DEF Arrived
  <2>2. PICK v \in Nat, x \in Nat, revision \in Nat, d \in Content \cup {None} :
          /\ Fresh(bronze, o, v, x, revision, d)
          /\ revision <= orders[o].revision
          /\ revision = orders[o].revision => d = orders[o].content
    BY <2>1 DEF SilverInv, FreshInv
  <2>3. orders[o].revision <= revision
    BY <2>1, <2>2 DEF Fresh
  <2>4. orders[o].revision \in Nat
    BY DEF Shapes
  <2>5. revision = orders[o].revision
    BY <2>2, <2>3, <2>4
  <2>6. d = c
    BY <2>2, <2>5
  <2>7. QED
    BY <2>2, <2>6, Zenon
<1>2. \A r \in bronze : r.version \in Nat /\ r.extracted \in Nat
  BY DEF SilverInv, VersionsInv, RowFits
<1>3. ASSUME NEW line \in ActiveLines(o), line \notin c.zero
      PROVE  line \in Lines(c) /\ c.active
  <2>1. PICK r \in Silver : r.order = o /\ r.active /\ r.line = line
    BY DEF ActiveLines
  <2>2. r \in bronze /\ ~r.zero
        /\ \A s \in bronze : ~s.zero /\ s.order = o /\ s.line = line => ~Newer(s, r)
    BY <2>1 DEF Silver, NewestOf, Classified
  <2>3. line \in Lines(c)
    BY <1>1, <2>1, <2>2 DEF Fresh
  <2>4. PICK s \in bronze :
          s.order = o /\ s.line = line /\ s.version = v /\ s.extracted = x /\ ~s.zero
    BY <1>1, <1>3, <2>3 DEF Fresh
  <2>5. r.version = v /\ r.extracted = x
    <3>1. ~Newer(s, r) /\ r.version <= v /\ r.extracted <= x
      BY <1>1, <2>1, <2>2, <2>4 DEF Fresh
    <3>2. QED
      BY <1>2, <2>2, <2>4, <3>1 DEF Newer, After
  <2>6. QED
    BY <1>1, <2>1, <2>2, <2>3, <2>5 DEF Fresh
<1>4. ASSUME NEW line \in Lines(c), line \notin c.zero, c.active PROVE line \in ActiveLines(o)
  <2>1. PICK r \in bronze :
          /\ r.order = o /\ r.line = line /\ r.version = v /\ r.extracted = x
          /\ ~r.zero /\ r.active
    BY <1>1, <1>4 DEF Fresh
  <2>2. ASSUME NEW s \in bronze, s.order = o PROVE ~Newer(s, r)
    <3>1. s.version <= v /\ s.extracted <= x
      BY <1>1, <2>2 DEF Fresh
    <3>2. QED
      BY <1>2, <2>1, <3>1 DEF Newer, After
  <2>3. r \in Silver
    BY <2>1, <2>2 DEF Silver, NewestOf, Classified
  <2>4. QED
    BY <2>1, <2>3 DEF ActiveLines
<1>5. QED
  BY <1>3, <1>4

\* A version that a run persists is fresh: it follows what Bronze has of the order,
\* and its tombstones are for the lines that were shown before.
LEMMA FreshAfter ==
  ASSUME NEW R, NEW S, NEW e, NEW o, e.order = o, NEW x \in Nat,
         e.updated \in Nat, e.revision \in Nat,
         \A r \in R : r.order = o =>
           /\ r.version \in Nat /\ r.extracted \in Nat
           /\ r.version <= e.updated /\ r.extracted < x /\ r.revision <= e.revision,
         \A r \in S : r.order = o => r \in Projected(e, x) \cup Tombstones(e, x),
         Projected(e, x) \cup Tombstones(e, x) \subseteq S,
         \/ \A r \in R : r.order # o
         \/ \E v, w, revision \in Nat, c \in Content \cup {None} :
              Fresh(R, o, v, w, revision, c) /\ projection[o] = Lines(c)
  PROVE  Fresh(R \cup S, o, e.updated, x, e.revision, e.content)
<1> DEFINE d == e.content
<1>1. \A r \in Projected(e, x) :
        /\ r.order = o /\ r.version = e.updated /\ r.extracted = x /\ r.revision = e.revision
        /\ r.line \in Lines(d) /\ r.active = d.active
  BY DEF Projected, Row
<1>2. \A r \in Tombstones(e, x) :
        /\ r.order = o /\ r.version = e.updated /\ r.extracted = x /\ r.revision = e.revision
        /\ r.line \notin Lines(d) /\ r.active = FALSE
  BY DEF Tombstones, Row
<1>3. ASSUME NEW r \in R \cup S, r.order = o
      PROVE  r.version <= e.updated /\ r.extracted <= x /\ r.revision <= e.revision
  BY <1>1, <1>2, <1>3
<1>4. ASSUME NEW line \in Lines(d) \ d.zero
      PROVE  \E r \in R \cup S :
               /\ r.order = o /\ r.line = line /\ r.version = e.updated /\ r.extracted = x
               /\ ~r.zero /\ (d.active => r.active)
  <2>1. PICK r : r = Row(e, line, x, e.content.active, line \in e.content.zero)
    OBVIOUS
  <2>2. r \in Projected(e, x)
    BY <2>1 DEF Projected
  <2>3. r.line = line /\ ~r.zero /\ (d.active => r.active)
    BY <2>1 DEF Row
  <2>4. QED
    BY <1>1, <2>2, <2>3
<1>5. ASSUME NEW r \in R \cup S, r.order = o, r.line \in Lines(d), r.extracted = x, r.active
      PROVE  d.active
  BY <1>1, <1>2, <1>5
<1>6. ASSUME NEW r \in R \cup S, r.order = o, r.line \notin Lines(d), r.active, ~r.zero
      PROVE  \E s \in R \cup S : s.order = o /\ s.line = r.line /\ ~s.zero /\ Newer(s, r)
  <2>1. r \in R
    BY <1>1, <1>2, <1>6
  <2>2. PICK v \in Nat, w \in Nat, revision \in Nat, c \in Content \cup {None} :
          Fresh(R, o, v, w, revision, c) /\ projection[o] = Lines(c)
    BY <1>6, <2>1
  <2>3. CASE r.line \in Lines(c)
    <3>1. PICK s : s = Row(e, r.line, x, FALSE, FALSE)
      OBVIOUS
    <3>2. s \in Tombstones(e, x)
      BY <1>6, <2>2, <2>3, <3>1 DEF Tombstones
    <3>3. s.line = r.line /\ ~s.zero /\ s.order = o /\ s.version = e.updated /\ s.extracted = x
      BY <3>1 DEF Row
    <3>4. Newer(s, r)
      BY <1>6, <2>1, <3>3 DEF Newer, After
    <3>5. QED
      BY <3>2, <3>3, <3>4
  <2>4. CASE r.line \notin Lines(c)
    BY <1>6, <2>1, <2>2, <2>4 DEF Fresh
  <2>5. QED
    BY <2>3, <2>4
<1>7. QED
  BY <1>3, <1>4, <1>5, <1>6 DEF Fresh

-----------------------------------------------------------------------------
\* Order identities of a batch.
LEMMA OrdersOfBatch ==
  ASSUME Shapes, NEW p \in Process
  PROVE  /\ OrdersOf(p) \subseteq Order
         /\ \A o : o \in OrdersOf(p) <=> \E n \in 1 .. Len(batch[p]) : batch[p][n].order = o
         /\ \A n \in 1 .. Len(batch[p]) : batch[p][n] \in EnvelopeType
         /\ ToSet(batch[p]) = {batch[p][n] : n \in 1 .. Len(batch[p])}
<1>1. PICK b \in Seq(EnvelopeType) : b = batch[p]
  BY DEF Shapes
<1>2. ToSet(b) = {b[n] : n \in 1 .. Len(b)} /\ \A n \in 1 .. Len(b) : b[n] \in EnvelopeType
  BY DEF ToSet
<1>3. QED
  BY <1>1, <1>2 DEF OrdersOf, EnvelopeType

\* The last version of an order in a batch is one of its envelopes.
LEMMA LastOfBatch ==
  ASSUME Shapes, NEW p \in Process, NEW o \in OrdersOf(p)
  PROVE  \E n \in 1 .. Len(batch[p]) : batch[p][n].order = o /\ LastOf(p, o) = batch[p][n]
<1>1. PICK b \in Seq(EnvelopeType) : b = batch[p]
  BY DEF Shapes
<1>2. PICK S : S = {n \in DOMAIN b : b[n].order = o}
  OBVIOUS
<1>3. Len(b) \in Nat /\ S \in SUBSET Nat /\ (\A n \in S : n <= Len(b)) /\ S # {}
  BY <1>1, <1>2, OrdersOfBatch
<1>4. PICK m \in S : m = Max(S)
  BY <1>3, Greatest
<1>5. LastOf(p, o) = batch[p][m]
  <2>1. S = {n \in DOMAIN batch[p] : batch[p][n].order = o}
    BY <1>1, <1>2
  <2>2. m = Max({n \in DOMAIN batch[p] : batch[p][n].order = o})
    BY <1>4, <2>1
  <2>3. QED
    BY <2>2 DEF LastOf
<1>6. m \in 1 .. Len(b) /\ b[m].order = o
  BY <1>1, <1>2, <1>4
<1>7. QED
  BY <1>1, <1>5, <1>6

\* A run that was not told apart from another is alone, so the others stay aside.
LEMMA OthersAlone ==
  ASSUME SilverInv, NEW p \in Process, NEW q \in Process, p # q, stage[p] # "idle",
         stage'[q] = stage[q], overlapping'[q] = overlapping[q], batch'[q] = batch[q],
         disturbed \subseteq disturbed'
  PROVE  AloneInv(q)'
<1>1. CASE stage[q] = "idle"
  BY <1>1 DEF AloneInv
<1>2. CASE stage[q] # "idle"
  <2>1. ~Alone(q)
    BY DEF Alone
  <2>2. overlapping[q] /\ (stage[q] = "record" => OrdersOf(q) \subseteq disturbed)
    BY <1>2, <2>1 DEF SilverInv, AloneInv
  <2>3. overlapping'[q] /\ (stage'[q] = "record" => OrdersOf(q)' \subseteq disturbed')
    BY <2>2 DEF OrdersOf
  <2>4. QED
    BY <2>3 DEF AloneInv
<1>3. QED
  BY <1>1, <1>2

LEMMA RunVersionsStay ==
  ASSUME NEW p \in Process, RunVersions(p), orders' = orders, runs \in Nat, runs' \in Nat,
         runs <= runs', started[p] \in Nat, stage'[p] = stage[p], started'[p] = started[p],
         batch'[p] = batch[p], rows'[p] = rows[p]
  PROVE  RunVersions(p)'
<1>1. \A r : RowFits(r) => RowFits(r)'
  BY DEF RowFits
<1>2. QED
  BY <1>1 DEF RunVersions, EnvelopeFits, OrdersOf

\* What Silver shows of an order depends on that order's rows alone.
LEMMA FreshStays ==
  ASSUME NEW o, FreshInv(o), orders'[o] = orders[o], projection'[o] = projection[o],
         \A r : r.order = o => (r \in bronze' <=> r \in bronze),
         Recording(o)' = Recording(o), \A q \in Recording(o) : batch'[q] = batch[q]
  PROVE  FreshInv(o)'
<1>1. \A c : LinesKnown(o, c)' <=> LinesKnown(o, c)
  BY DEF LinesKnown
<1>2. \A v, x, revision, c : Fresh(bronze, o, v, x, revision, c)
                               => Fresh(bronze', o, v, x, revision, c)
  BY DEF Fresh
<1>3. CASE projection[o] = {} /\ Recording(o) = {} /\ \A r \in bronze : r.order # o
  BY <1>3 DEF FreshInv
<1>4. CASE \E v, x, revision \in Nat, c \in Content \cup {None} :
             /\ Fresh(bronze, o, v, x, revision, c)
             /\ LinesKnown(o, c)
             /\ revision <= orders[o].revision
             /\ revision = orders[o].revision => c = orders[o].content
  <2>1. PICK v \in Nat, x \in Nat, revision \in Nat, c \in Content \cup {None} :
             /\ Fresh(bronze, o, v, x, revision, c)
             /\ LinesKnown(o, c)
             /\ revision <= orders[o].revision
             /\ revision = orders[o].revision => c = orders[o].content
    BY <1>4
  <2>2. Fresh(bronze', o, v, x, revision, c) /\ LinesKnown(o, c)'
    BY <1>1, <1>2, <2>1
  <2>3. QED
    BY <2>1, <2>2 DEF FreshInv
<1>5. QED
  BY <1>3, <1>4 DEF FreshInv

LEMMA RecordingStays ==
  ASSUME NEW p \in Process, NEW o,
         \A q \in Process : q # p => stage'[q] = stage[q] /\ batch'[q] = batch[q],
         stage[p] = "record" => o \notin OrdersOf(p),
         stage'[p] = "record" => o \notin OrdersOf(p)'
  PROVE  Recording(o)' = Recording(o) /\ \A q \in Recording(o) : batch'[q] = batch[q]
<1>1. p \notin Recording(o) /\ p \notin Recording(o)'
  BY DEF Recording
<1>2. ASSUME NEW q \in Process, q # p PROVE q \in Recording(o)' <=> q \in Recording(o)
  BY <1>2 DEF Recording, OrdersOf
<1>3. \A q : q \in Recording(o)' <=> q \in Recording(o)
  BY <1>1, <1>2 DEF Recording
<1>4. QED
  BY <1>1, <1>3 DEF Recording

LEMMA InitSilver == Init => SilverInv
<1> SUFFICES ASSUME Init PROVE SilverInv
  OBVIOUS
<1>1. VersionsInv
  BY Nothing DEF Init, VersionsInv, RunVersions, NoOrder
<1>2. \A p \in Process : AloneInv(p)
  BY DEF Init, AloneInv
<1>3. \A o \in Order : FreshInv(o)
  BY DEF Init, FreshInv, Recording
<1>4. QED
  BY <1>1, <1>2, <1>3 DEF SilverInv

\* Nothing that Silver is made of changes.
LEMMA StutterSilver ==
  ASSUME Shapes, SilverInv,
         UNCHANGED <<orders, edits, bronze, projection, stage, started, batch, rows,
                     overlapping, runs, disturbed>>
  PROVE  SilverInv'
<1>1. VersionsInv'
  BY DEF SilverInv, VersionsInv, RunVersions, RowFits, EnvelopeFits, OrdersOf
<1>2. ASSUME NEW p \in Process PROVE AloneInv(p)'
  <2>1. AllRows(p)' = AllRows(p)
    BY DEF AllRows, Projected, Tombstones
  <2>2. AloneInv(p)
    BY DEF SilverInv
  <2>3. QED
    BY <2>1, <2>2 DEF AloneInv, Alone, Single, OrdersOf
<1>3. ASSUME NEW o \in Order \ disturbed' PROVE FreshInv(o)'
  <2>1. Recording(o)' = Recording(o)
    BY DEF Recording, OrdersOf
  <2>2. QED
    BY <1>3, <2>1, FreshStays DEF SilverInv
<1>4. QED
  BY <1>1, <1>2, <1>3 DEF SilverInv

\* A new version is not in Bronze.
LEMMA EditSilver ==
  ASSUME Shapes, SilverInv, NEW o \in Order, NEW content \in Content, Edit(o, content)
  PROVE  SilverInv'
<1>1. /\ edits' = edits + 1
      /\ orders' = [orders EXCEPT ![o] =
           [updated |-> clock, revision |-> edits + 1, content |-> content]]
      /\ UNCHANGED <<bronze, projection, stage, started, batch, rows, overlapping, runs,
                     disturbed>>
  BY DEF Edit, state, process
<1>2. /\ orders'[o].updated = clock /\ orders'[o].revision = edits + 1
      /\ \A m \in Order : m # o => orders'[m] = orders[m]
      /\ orders[o].updated <= clock /\ orders[o].revision <= edits
      /\ orders[o].updated \in Nat /\ orders[o].revision \in Nat
      /\ clock \in Nat /\ edits \in Nat
  BY <1>1 DEF Shapes, SilverInv, VersionsInv
<1>3. ASSUME NEW r, RowFits(r) PROVE RowFits(r)'
  <2>1. CASE r.order = o
    BY <1>1, <1>2, <1>3, <2>1 DEF RowFits
  <2>2. CASE r.order # o
    BY <1>1, <1>2, <1>3, <2>2 DEF RowFits
  <2>3. QED
    BY <2>1, <2>2
<1>4. ASSUME NEW e \in EnvelopeType, EnvelopeFits(e) PROVE EnvelopeFits(e)'
  <2>1. e.order \in Order /\ e.updated \in Nat /\ e.revision \in Nat
    BY DEF EnvelopeType
  <2>2. CASE e.order = o
    BY <1>1, <1>2, <1>4, <2>1, <2>2 DEF EnvelopeFits
  <2>3. CASE e.order # o
    BY <1>1, <1>2, <1>4, <2>1, <2>3 DEF EnvelopeFits
  <2>4. QED
    BY <2>2, <2>3
<1>5. VersionsInv'
  <2>1. \A m \in Order : orders'[m].revision <= edits'
    <3>1. ASSUME NEW m \in Order PROVE orders[m].revision <= edits /\ orders[m].revision \in Nat
      BY DEF Shapes, SilverInv, VersionsInv
    <3>2. QED
      BY <1>1, <1>2, <3>1
  <2>2. ASSUME NEW p \in Process PROVE RunVersions(p)'
    <3>1. RunVersions(p)
      BY DEF SilverInv, VersionsInv
    <3>2. ASSUME NEW n \in 1 .. Len(batch[p]) PROVE EnvelopeFits(batch[p][n])'
      <4>1. PICK e \in EnvelopeType : e = batch[p][n]
        BY OrdersOfBatch
      <4>2. EnvelopeFits(e)'
        BY <1>4, <3>1, <4>1 DEF RunVersions
      <4>3. QED
        BY <1>1, <4>1, <4>2 DEF EnvelopeFits
    <3>3. stage[p] = "persist" => \A r \in rows[p] : RowFits(r)' /\ r.order \in OrdersOf(p)
      BY <1>3, <3>1 DEF RunVersions
    <3>4. OrdersOf(p)' = OrdersOf(p)
      BY <1>1 DEF OrdersOf
    <3>5. started'[p] <= runs'
      BY <1>1, <3>1 DEF RunVersions
    <3>6. QED
      BY <1>1, <3>2, <3>3, <3>4, <3>5 DEF RunVersions
  <2>3. QED
    BY <1>1, <1>3, <2>1, <2>2 DEF SilverInv, VersionsInv
<1>6. ASSUME NEW p \in Process PROVE AloneInv(p)'
  <2>1. AllRows(p)' = AllRows(p)
    BY <1>1 DEF AllRows, Projected, Tombstones
  <2>2. AloneInv(p)
    BY DEF SilverInv
  <2>3. QED
    BY <1>1, <2>1, <2>2 DEF AloneInv, Alone, Single, OrdersOf
<1>7. ASSUME NEW m \in Order \ disturbed' PROVE FreshInv(m)'
  <2>1. FreshInv(m) /\ Recording(m)' = Recording(m)
    BY <1>1, <1>7 DEF SilverInv, Recording, OrdersOf
  <2>2. CASE m # o
    BY <1>1, <1>2, <2>1, <2>2, FreshStays
  <2>3. CASE m = o
    <3>1. CASE projection[o] = {} /\ Recording(o) = {} /\ \A r \in bronze : r.order # o
      BY <1>1, <2>1, <2>3, <3>1 DEF FreshInv
    <3>2. CASE \E v, x, revision \in Nat, c \in Content \cup {None} :
                 /\ Fresh(bronze, o, v, x, revision, c)
                 /\ LinesKnown(o, c)
                 /\ revision <= orders[o].revision
      <4>1. PICK v \in Nat, x \in Nat, revision \in Nat, c \in Content \cup {None} :
              /\ Fresh(bronze, o, v, x, revision, c)
              /\ LinesKnown(o, c)
              /\ revision <= orders[o].revision
        BY <3>2
      <4>2. revision <= orders'[o].revision /\ revision # orders'[o].revision
        BY <1>2, <4>1
      <4>3. LinesKnown(o, c)'
        BY <1>1, <2>1, <2>3, <4>1 DEF LinesKnown
      <4>4. QED
        BY <1>1, <2>3, <4>1, <4>2, <4>3 DEF FreshInv
    <3>3. QED
      BY <2>1, <2>3, <3>1, <3>2 DEF FreshInv
  <2>4. QED
    BY <2>2, <2>3
<1>8. QED
  BY <1>5, <1>6, <1>7 DEF SilverInv

\* A process that ends a run forgets it.
LEMMA ResetSilver ==
  ASSUME Shapes, SilverInv, NEW p \in Process, Reset(p), stage[p] # "idle",
         UNCHANGED <<orders, edits, bronze, runs>>, DOMAIN projection' = Order,
         disturbed \subseteq disturbed'
  PROVE  /\ VersionsInv' /\ \A q \in Process : AloneInv(q)'
         /\ stage'[p] = "idle"
         /\ \A q \in Process : q # p => stage'[q] = stage[q] /\ batch'[q] = batch[q]
<1> USE DEF Reset
<1>1. stage'[p] = "idle" /\ started'[p] = 0 /\ batch'[p] = << >>
  BY DEF SilverInv, VersionsInv, Shapes
<1>2. ASSUME NEW q \in Process, q # p
      PROVE  /\ stage'[q] = stage[q] /\ batch'[q] = batch[q] /\ started'[q] = started[q]
             /\ rows'[q] = rows[q] /\ overlapping'[q] = overlapping[q]
  BY <1>2 DEF SilverInv, VersionsInv, Shapes
<1>3. VersionsInv'
  <2>1. RunVersions(p)'
    BY <1>1, Nothing DEF RunVersions, SilverInv, VersionsInv
  <2>2. ASSUME NEW q \in Process, q # p PROVE RunVersions(q)'
    BY <1>2, <2>2, RunVersionsStay DEF SilverInv, VersionsInv
  <2>3. started' \in [Process -> Nat] /\ overlapping' \in [Process -> BOOLEAN]
    BY DEF SilverInv, VersionsInv
  <2>4. \A r \in bronze' : RowFits(r)'
    BY DEF SilverInv, VersionsInv, RowFits
  <2>5. QED
    BY <2>1, <2>2, <2>3, <2>4 DEF SilverInv, VersionsInv
<1>4. AloneInv(p)'
  BY <1>1 DEF AloneInv
<1>5. ASSUME NEW q \in Process, q # p PROVE AloneInv(q)'
  BY <1>2, <1>5, OthersAlone
<1>6. QED
  BY <1>1, <1>2, <1>3, <1>4, <1>5

\* A run that fails between Bronze and the projection disturbs its orders.
LEMMA FailSilver ==
  ASSUME Shapes, SilverInv, NEW p \in Process, Fail(p) PROVE SilverInv'
<1>1. /\ stage[p] # "idle" /\ Reset(p)
      /\ disturbed' = IF stage[p] = "record" THEN disturbed \cup OrdersOf(p) ELSE disturbed
      /\ UNCHANGED <<orders, edits, bronze, projection, runs>>
  BY DEF Fail, source, state
<1>2. /\ VersionsInv' /\ \A q \in Process : AloneInv(q)'
      /\ stage'[p] = "idle"
      /\ \A q \in Process : q # p => stage'[q] = stage[q] /\ batch'[q] = batch[q]
  BY <1>1, ResetSilver DEF SilverInv, VersionsInv
<1>3. ASSUME NEW o \in Order \ disturbed' PROVE FreshInv(o)'
  <2>1. Recording(o)' = Recording(o) /\ \A q \in Recording(o) : batch'[q] = batch[q]
    BY <1>1, <1>2, <1>3, RecordingStays
  <2>2. FreshInv(o)
    BY <1>1, <1>3 DEF SilverInv
  <2>3. QED
    BY <1>1, <2>1, <2>2, FreshStays
<1>4. QED
  BY <1>2, <1>3 DEF SilverInv

\* A run that starts while others go on marks itself and them.
LEMMA StartSilver ==
  ASSUME CheckpointInv, SilverInv, NEW p \in Process, Start(p) PROVE SilverInv'
<1>1. /\ stage[p] = "idle" /\ runs' = runs + 1
      /\ stage' = [stage EXCEPT ![p] = "extract"]
      /\ started' = [started EXCEPT ![p] = runs + 1]
      /\ overlapping' = [q \in Process |->
           overlapping[q] \/ (q = p /\ Running # {}) \/ q \in Running]
      /\ disturbed' = disturbed \cup
           UNION {OrdersOf(q) : q \in {q \in Process : stage[q] = "record"}}
      /\ UNCHANGED <<orders, edits, bronze, projection, batch, rows>>
  BY DEF Start, source, state
<1>2. runs \in Nat /\ Shapes /\ stage'[p] = "extract" /\ started'[p] = runs + 1
      /\ batch[p] = << >>
  BY <1>1 DEF CheckpointInv, Shapes, RunInv, SilverInv, VersionsInv
<1>3. ASSUME NEW q \in Process, q # p
      PROVE  /\ stage'[q] = stage[q] /\ started'[q] = started[q]
             /\ (stage[q] # "idle" => overlapping'[q])
  BY <1>1, <1>3 DEF CheckpointInv, Shapes, SilverInv, VersionsInv, Running
<1>4. VersionsInv'
  <2>1. RunVersions(p)'
    BY <1>1, <1>2, Nothing DEF RunVersions
  <2>2. ASSUME NEW q \in Process, q # p PROVE RunVersions(q)'
    BY <1>1, <1>2, <1>3, <2>2, RunVersionsStay DEF SilverInv, VersionsInv
  <2>3. started' \in [Process -> Nat] /\ overlapping' \in [Process -> BOOLEAN]
    BY <1>1, <1>2 DEF SilverInv, VersionsInv
  <2>4. \A r \in bronze' : RowFits(r)'
    <3>1. ASSUME NEW r \in bronze PROVE RowFits(r)'
      <4>1. RowFits(r)
        BY DEF SilverInv, VersionsInv
      <4>2. QED
        BY <1>1, <1>2, <4>1 DEF RowFits
    <3>2. QED
      BY <1>1, <3>1
  <2>5. QED
    BY <1>1, <1>2, <2>1, <2>2, <2>3, <2>4 DEF SilverInv, VersionsInv
<1>5. AloneInv(p)'
  <2>1. ~overlapping'[p] => Running = {}
    BY <1>1
  <2>2. ~overlapping'[p] => Alone(p)'
    BY <1>3, <2>1 DEF Alone, Running
  <2>3. \A r \in bronze' : r.extracted < started'[p]
    <3>1. ASSUME NEW r \in bronze PROVE r.extracted <= runs /\ r.extracted \in Nat
      BY DEF SilverInv, VersionsInv, RowFits
    <3>2. QED
      BY <1>1, <1>2, <3>1
  <2>4. Len(batch'[p]) = 0
    BY <1>1, <1>2
  <2>5. QED
    BY <1>2, <2>2, <2>3, <2>4 DEF AloneInv
<1>6. ASSUME NEW q \in Process, q # p PROVE AloneInv(q)'
  <2>1. stage[q] = "record" => OrdersOf(q)' \subseteq disturbed'
    <3>1. OrdersOf(q)' = OrdersOf(q)
      BY <1>1 DEF OrdersOf
    <3>2. QED
      BY <1>1, <3>1
  <2>2. QED
    BY <1>3, <1>6, <2>1 DEF AloneInv
<1>7. ASSUME NEW o \in Order \ disturbed' PROVE FreshInv(o)'
  <2>1. Recording(o)' = Recording(o)
    BY <1>1, <1>2, <1>3, RecordingStays
  <2>2. FreshInv(o)
    BY <1>1, <1>7 DEF SilverInv
  <2>3. QED
    BY <1>1, <2>1, <2>2, FreshStays
<1>8. QED
  BY <1>4, <1>5, <1>6, <1>7 DEF SilverInv

\* What a run projects is of the versions it has read.
LEMMA RowsFit ==
  ASSUME Shapes, SilverInv, NEW p \in Process, NEW r \in AllRows(p)
  PROVE  RowFits(r) /\ r.order \in OrdersOf(p)
<1>1. PICK e \in ToSet(batch[p]) : r \in Projected(e, started[p]) \cup Tombstones(e, started[p])
  BY DEF AllRows
<1>2. e \in EnvelopeType /\ EnvelopeFits(e) /\ e.order \in OrdersOf(p)
  BY OrdersOfBatch DEF SilverInv, VersionsInv, RunVersions, OrdersOf
<1>3. /\ r.order = e.order /\ r.version = e.updated /\ r.extracted = started[p]
      /\ r.revision = e.revision
  BY <1>1 DEF Projected, Tombstones, Row
<1>4. started[p] \in Nat /\ started[p] <= runs
  BY DEF SilverInv, VersionsInv, RunVersions
<1>5. QED
  BY <1>2, <1>3, <1>4 DEF RowFits, EnvelopeFits, EnvelopeType

LEMMA ProjectSilver ==
  ASSUME Shapes, SilverInv, NEW p \in Process, Project(p) PROVE SilverInv'
<1>1. stage[p] = "project" /\ UNCHANGED <<orders, edits, bronze, projection, runs, disturbed>>
  BY DEF Project, source, state
<1>2. CASE Reset(p)
  <2>1. /\ VersionsInv' /\ \A q \in Process : AloneInv(q)'
        /\ stage'[p] = "idle"
        /\ \A q \in Process : q # p => stage'[q] = stage[q] /\ batch'[q] = batch[q]
    BY <1>1, <1>2, ResetSilver DEF SilverInv, VersionsInv
  <2>2. ASSUME NEW o \in Order \ disturbed' PROVE FreshInv(o)'
    <3>1. Recording(o)' = Recording(o) /\ \A q \in Recording(o) : batch'[q] = batch[q]
      BY <1>1, <2>1, RecordingStays
    <3>2. QED
      BY <1>1, <2>2, <3>1, FreshStays DEF SilverInv
  <2>3. QED
    BY <2>1, <2>2 DEF SilverInv
<1>3. CASE ~Reset(p)
  <2>1. /\ stage' = [stage EXCEPT ![p] = "persist"]
        /\ rows' = [rows EXCEPT ![p] = AllRows(p)]
        /\ UNCHANGED <<started, batch, overlapping>>
    BY <1>3 DEF Project, AllRows
  <2>2. stage'[p] = "persist" /\ rows'[p] = AllRows(p)
    BY <2>1 DEF Shapes
  <2>3. ASSUME NEW q \in Process, q # p PROVE stage'[q] = stage[q] /\ rows'[q] = rows[q]
    BY <2>1, <2>3 DEF Shapes
  <2>4. \A r : RowFits(r)' <=> RowFits(r)
    BY <1>1 DEF RowFits
  <2>5. OrdersOf(p)' = OrdersOf(p) /\ AllRows(p)' = AllRows(p)
    BY <1>1, <2>1 DEF OrdersOf, AllRows, Projected, Tombstones
  <2>6. RunVersions(p)'
    <3>1. RunVersions(p)
      BY DEF SilverInv, VersionsInv
    <3>2. \A r \in rows'[p] : RowFits(r)' /\ r.order \in OrdersOf(p)'
      BY <2>2, <2>4, <2>5, RowsFit
    <3>3. QED
      BY <1>1, <2>1, <2>2, <3>1, <3>2 DEF RunVersions, EnvelopeFits
  <2>7. ASSUME NEW q \in Process, q # p PROVE RunVersions(q)'
    BY <1>1, <2>1, <2>3, <2>7, RunVersionsStay DEF SilverInv, VersionsInv
  <2>8. VersionsInv'
    BY <1>1, <2>1, <2>4, <2>6, <2>7 DEF SilverInv, VersionsInv
  <2>9. AloneInv(p)'
    <3>1. AloneInv(p)
      BY DEF SilverInv
    <3>2. Alone(p)' <=> Alone(p)
      BY <2>3 DEF Alone
    <3>3. QED
      BY <1>1, <2>1, <2>2, <2>5, <3>1, <3>2 DEF AloneInv
  <2>10. ASSUME NEW q \in Process, q # p PROVE AloneInv(q)'
    BY <1>1, <2>1, <2>3, <2>10, OthersAlone
  <2>11. ASSUME NEW o \in Order \ disturbed' PROVE FreshInv(o)'
    <3>1. Recording(o)' = Recording(o) /\ \A q \in Recording(o) : batch'[q] = batch[q]
      BY <1>1, <2>1, <2>2, <2>3, RecordingStays
    <3>2. QED
      BY <1>1, <2>11, <3>1, FreshStays DEF SilverInv
  <2>12. QED
    BY <2>8, <2>9, <2>10, <2>11 DEF SilverInv
<1>4. QED
  BY <1>2, <1>3

-----------------------------------------------------------------------------
\* A run that is alone reads the newest version of each order.
LEMMA ExtractSilver ==
  ASSUME Shapes, SilverInv, NEW p \in Process, Extract(p) PROVE SilverInv'
<1>1. PICK page \in Pages(Boundary(p), cursor[p]) :
        /\ batch' = [batch EXCEPT ![p] = @ \o Envelopes(page)]
        /\ stage' = stage \/ stage' = [stage EXCEPT ![p] = "project"]
  BY DEF Extract
<1>2. stage[p] = "extract"
      /\ UNCHANGED <<orders, edits, bronze, projection, started, rows, overlapping, runs,
                     disturbed>>
  BY DEF Extract, source, state
<1>3. page \in Seq(Order)
  BY PageIsOrders
<1>4. PICK b \in Seq(EnvelopeType) : b = batch[p]
  BY DEF Shapes
<1>5. PICK c \in Seq(EnvelopeType) :
        /\ c = b \o Envelopes(page)
        /\ \A n \in 1 .. Len(b) : c[n] = b[n]
        /\ \A n \in 1 .. Len(page) : c[Len(b) + n] = Envelope(page[n]) /\ page[n] \in Order
        /\ \A n \in 1 .. Len(c) :
             n \in 1 .. Len(b) \/ \E m \in 1 .. Len(page) : n = Len(b) + m
  BY <1>3, BatchGrows, Zenon
<1>6. \A n \in 1 .. Len(c) :
        (n \in 1 .. Len(b) /\ c[n] = b[n]) \/ \E o \in Order : c[n] = Envelope(o)
  BY <1>5
<1>7. batch'[p] = c /\ \A q \in Process : q # p => batch'[q] = batch[q]
  BY <1>1, <1>4, <1>5 DEF Shapes
<1>8. stage'[p] \in {"extract", "project"} /\ \A q \in Process : q # p => stage'[q] = stage[q]
  BY <1>1, <1>2 DEF Shapes
<1>9. ASSUME NEW o \in Order
      PROVE  /\ Envelope(o).order = o /\ Envelope(o).updated = orders[o].updated
             /\ Envelope(o).revision = orders[o].revision
             /\ Envelope(o).content = orders[o].content
             /\ orders[o].updated \in Nat /\ orders[o].revision \in Nat
  BY DEF Envelope, Shapes
<1>10. VersionsInv'
  <2>1. ASSUME NEW n \in 1 .. Len(c) PROVE EnvelopeFits(c[n])'
    <3>1. CASE n \in 1 .. Len(b) /\ c[n] = b[n]
      BY <1>2, <1>4, <3>1 DEF SilverInv, VersionsInv, RunVersions, EnvelopeFits
    <3>2. CASE \E o \in Order : c[n] = Envelope(o)
      BY <1>2, <1>9, <3>2 DEF EnvelopeFits
    <3>3. QED
      BY <1>6, <3>1, <3>2
  <2>2. RunVersions(p)'
    BY <1>2, <1>7, <1>8, <2>1 DEF RunVersions, SilverInv, VersionsInv, EnvelopeFits
  <2>3. ASSUME NEW q \in Process, q # p PROVE RunVersions(q)'
    BY <1>2, <1>7, <1>8, <2>3, RunVersionsStay DEF SilverInv, VersionsInv
  <2>4. \A r \in bronze' : RowFits(r)'
    BY <1>2 DEF SilverInv, VersionsInv, RowFits
  <2>5. QED
    BY <1>2, <2>2, <2>3, <2>4 DEF SilverInv, VersionsInv
<1>11. AloneInv(p)'
  <2>1. AloneInv(p)
    BY DEF SilverInv
  <2>2. ASSUME ~overlapping[p], NEW n \in 1 .. Len(c), NEW r \in bronze, r.order = c[n].order
        PROVE  r.version <= c[n].updated /\ r.revision <= c[n].revision
    <3>1. CASE n \in 1 .. Len(b) /\ c[n] = b[n]
      BY <1>2, <1>4, <2>1, <2>2, <3>1 DEF AloneInv
    <3>2. CASE \E o \in Order : c[n] = Envelope(o)
      <4>1. RowFits(r)
        BY DEF SilverInv, VersionsInv
      <4>2. QED
        BY <1>9, <2>2, <3>2, <4>1 DEF RowFits
    <3>3. QED
      BY <1>6, <3>1, <3>2
  <2>3. Alone(p) => Alone(p)'
    BY <1>8 DEF Alone
  <2>4. QED
    BY <1>2, <1>7, <1>8, <2>1, <2>2, <2>3 DEF AloneInv
<1>12. ASSUME NEW q \in Process, q # p PROVE AloneInv(q)'
  BY <1>2, <1>7, <1>8, <1>12, OthersAlone
<1>13. ASSUME NEW o \in Order \ disturbed' PROVE FreshInv(o)'
  <2>1. Recording(o)' = Recording(o) /\ \A q \in Recording(o) : batch'[q] = batch[q]
    BY <1>2, <1>7, <1>8, RecordingStays
  <2>2. QED
    BY <1>2, <1>13, <2>1, FreshStays DEF SilverInv
<1>14. QED
  BY <1>10, <1>11, <1>12, <1>13 DEF SilverInv

\* A run that is alone persists what follows all that Silver shows of its orders.
LEMMA PersistedIsFresh ==
  ASSUME Shapes, SilverInv, NEW p \in Process, stage[p] = "persist",
         NEW o \in OrdersOf(p), o \notin disturbed, o \notin Disturbs(p)
  PROVE  \E n \in 1 .. Len(batch[p]) :
           /\ \A m \in 1 .. Len(batch[p]) : batch[p][m].order = o <=> m = n
           /\ Fresh(bronze \cup rows[p], o, batch[p][n].updated, started[p],
                    batch[p][n].revision, batch[p][n].content)
<1>1. PICK n \in 1 .. Len(batch[p]) : batch[p][n].order = o
  BY OrdersOfBatch
<1>2. ~overlapping[p] /\ Single(p, o)
  <2>1. Len(batch[p]) \in Nat /\ DOMAIN batch[p] = 1 .. Len(batch[p])
    BY DEF Shapes
  <2>2. ~overlapping[p]
        /\ \A m, k \in 1 .. Len(batch[p]) :
             ~(m < k /\ batch[p][m].order = o /\ batch[p][k].order = o)
    BY <2>1 DEF Disturbs
  <2>3. QED
    BY <2>1, <2>2 DEF Single
<1>3. \A m \in 1 .. Len(batch[p]) : batch[p][m].order = o <=> m = n
  BY <1>1, <1>2 DEF Single
<1>4. PICK e \in EnvelopeType : e = batch[p][n]
  BY OrdersOfBatch
<1>5. e.order = o /\ e.updated \in Nat /\ e.revision \in Nat /\ started[p] \in Nat
  BY <1>1, <1>4 DEF EnvelopeType, SilverInv, VersionsInv
<1>6. Alone(p) /\ rows[p] = AllRows(p)
      /\ \A r \in bronze : r.extracted < started[p]
                           /\ (r.order = o => r.version <= e.updated /\ r.revision <= e.revision)
  <2>1. AloneInv(p)
    BY DEF SilverInv
  <2>2. QED
    BY <1>1, <1>2, <1>4, <2>1 DEF AloneInv
<1>7. \A r \in bronze : r.version \in Nat /\ r.extracted \in Nat
  BY DEF SilverInv, VersionsInv, RowFits
<1>8. ASSUME NEW r \in rows[p], r.order = o
      PROVE  r \in Projected(e, started[p]) \cup Tombstones(e, started[p])
  <2>1. PICK m \in 1 .. Len(batch[p]) :
          r \in Projected(batch[p][m], started[p]) \cup Tombstones(batch[p][m], started[p])
    BY <1>6, OrdersOfBatch DEF AllRows
  <2>2. batch[p][m].order = o
    BY <1>8, <2>1 DEF Projected, Tombstones, Row
  <2>3. m = n
    BY <1>3, <2>2
  <2>4. QED
    BY <1>4, <2>1, <2>3
<1>9. Projected(e, started[p]) \cup Tombstones(e, started[p]) \subseteq rows[p]
  <2>1. e \in ToSet(batch[p])
    BY <1>4, OrdersOfBatch
  <2>2. QED
    BY <1>6, <2>1 DEF AllRows
<1>10. \/ \A r \in bronze : r.order # o
       \/ \E v, w, revision \in Nat, c \in Content \cup {None} :
            Fresh(bronze, o, v, w, revision, c) /\ projection[o] = Lines(c)
  <2>1. Recording(o) = {}
    BY <1>6 DEF Recording, Alone
  <2>2. FreshInv(o)
    BY OrdersOfBatch DEF SilverInv
  <2>3. QED
    BY <2>1, <2>2 DEF FreshInv, LinesKnown
<1>11. Fresh(bronze \cup rows[p], o, e.updated, started[p], e.revision, e.content)
  <2>1. PICK R : R = bronze
    OBVIOUS
  <2>2. PICK S : S = rows[p]
    OBVIOUS
  <2>3. PICK x \in Nat : x = started[p]
    BY <1>5
  <2>4. Fresh(R \cup S, o, e.updated, x, e.revision, e.content)
    BY <1>5, <1>6, <1>7, <1>8, <1>9, <1>10, <2>1, <2>2, <2>3, FreshAfter
  <2>5. QED
    BY <2>1, <2>2, <2>3, <2>4
<1>12. QED
  BY <1>3, <1>4, <1>11

LEMMA PersistSilver ==
  ASSUME Shapes, SilverInv, NEW p \in Process, Persist(p) PROVE SilverInv'
<1>1. /\ stage[p] = "persist" /\ bronze' = bronze \cup rows[p]
      /\ stage' = [stage EXCEPT ![p] = "record"]
      /\ disturbed' = disturbed \cup Disturbs(p)
      /\ UNCHANGED <<orders, edits, projection, started, batch, rows, overlapping, runs>>
  BY DEF Persist, source, state
<1>2. stage'[p] = "record" /\ \A q \in Process : q # p => stage'[q] = stage[q]
  BY <1>1 DEF Shapes
<1>3. OrdersOf(p)' = OrdersOf(p)
  BY <1>1 DEF OrdersOf
<1>4. RunVersions(p)
  BY DEF SilverInv, VersionsInv
<1>5. VersionsInv'
  <2>1. RunVersions(p)'
    BY <1>1, <1>2, <1>4 DEF RunVersions, EnvelopeFits
  <2>2. ASSUME NEW q \in Process, q # p PROVE RunVersions(q)'
    BY <1>1, <1>2, <2>2, RunVersionsStay DEF SilverInv, VersionsInv
  <2>3. \A r \in bronze' : RowFits(r)'
    BY <1>1, <1>4 DEF SilverInv, VersionsInv, RunVersions, RowFits
  <2>4. QED
    BY <1>1, <2>1, <2>2, <2>3 DEF SilverInv, VersionsInv
<1>6. AloneInv(p)'
  <2>1. AloneInv(p)
    BY DEF SilverInv
  <2>2. Alone(p) => Alone(p)'
    BY <1>2 DEF Alone
  <2>3. ASSUME NEW o \in OrdersOf(p), o \notin disturbed' PROVE Alone(p)' /\ Single(p, o)'
    <3>1. DOMAIN batch[p] = 1 .. Len(batch[p]) /\ Len(batch[p]) \in Nat
      BY DEF Shapes
    <3>2. ~overlapping[p]
          /\ \A m, k \in 1 .. Len(batch[p]) :
               ~(m < k /\ batch[p][m].order = o /\ batch[p][k].order = o)
      BY <1>1, <2>3, <3>1 DEF Disturbs
    <3>3. Single(p, o)
      BY <3>1, <3>2 DEF Single
    <3>4. QED
      BY <1>1, <2>1, <2>2, <3>2, <3>3 DEF AloneInv, Single
  <2>4. QED
    BY <1>1, <1>2, <1>3, <2>1, <2>2, <2>3 DEF AloneInv
<1>7. ASSUME NEW q \in Process, q # p PROVE AloneInv(q)'
  BY <1>1, <1>2, <1>7, OthersAlone
<1>8. ASSUME NEW o \in Order \ disturbed' PROVE FreshInv(o)'
  <2>1. o \in Order \ disturbed /\ o \notin Disturbs(p) /\ FreshInv(o)
    BY <1>1, <1>8 DEF SilverInv
  <2>2. CASE o \notin OrdersOf(p)
    <3>1. Recording(o)' = Recording(o) /\ \A q \in Recording(o) : batch'[q] = batch[q]
      BY <1>1, <1>2, <1>3, <2>2, RecordingStays
    <3>2. \A r : r.order = o => (r \in bronze' <=> r \in bronze)
      BY <1>1, <1>4, <2>2 DEF RunVersions
    <3>3. QED
      BY <1>1, <2>1, <3>1, <3>2, FreshStays
  <2>3. CASE o \in OrdersOf(p)
    <3>1. PICK n \in 1 .. Len(batch[p]) :
            /\ \A m \in 1 .. Len(batch[p]) : batch[p][m].order = o <=> m = n
            /\ Fresh(bronze', o, batch[p][n].updated, started[p],
                     batch[p][n].revision, batch[p][n].content)
      BY <1>1, <2>1, <2>3, PersistedIsFresh
    <3>2. PICK e \in EnvelopeType : e = batch[p][n]
      BY OrdersOfBatch
    <3>3. EnvelopeFits(e) /\ e.order = o
      BY <1>4, <3>1, <3>2 DEF RunVersions
    <3>4. Recording(o)' = {p}
      <4>1. Alone(p)'
        BY <1>2, <1>3, <1>6, <1>8, <2>3 DEF AloneInv
      <4>2. QED
        BY <1>2, <1>3, <2>3, <4>1 DEF Recording, Alone
    <3>5. LinesKnown(o, e.content)'
      BY <1>1, <3>1, <3>2, <3>4 DEF LinesKnown
    <3>6. PICK v \in Nat, x \in Nat, revision \in Nat, c \in Content \cup {None} :
            v = e.updated /\ x = started[p] /\ revision = e.revision /\ c = e.content
      BY DEF EnvelopeType, SilverInv, VersionsInv
    <3>7. Fresh(bronze', o, v, x, revision, c) /\ LinesKnown(o, c)'
      BY <3>1, <3>2, <3>5, <3>6
    <3>8. revision <= orders'[o].revision
          /\ (revision = orders'[o].revision => c = orders'[o].content)
      BY <1>1, <3>3, <3>6 DEF EnvelopeFits
    <3>9. QED
      BY <3>7, <3>8 DEF FreshInv
  <2>4. QED
    BY <2>2, <2>3
<1>9. QED
  BY <1>5, <1>6, <1>7, <1>8 DEF SilverInv

\* What is recorded is what Bronze shows.
LEMMA RecordSilver ==
  ASSUME Shapes, SilverInv, NEW p \in Process, Record(p) PROVE SilverInv'
<1>1. /\ stage[p] = "record" /\ Reset(p)
      /\ projection' = [o \in Order |->
           IF o \in OrdersOf(p) THEN Lines(LastOf(p, o).content) ELSE projection[o]]
      /\ UNCHANGED <<orders, edits, bronze, runs, disturbed>>
  BY DEF Record, source
<1>2. /\ VersionsInv' /\ \A q \in Process : AloneInv(q)'
      /\ stage'[p] = "idle"
      /\ \A q \in Process : q # p => stage'[q] = stage[q] /\ batch'[q] = batch[q]
  BY <1>1, ResetSilver
<1>3. ASSUME NEW o \in Order \ disturbed' PROVE FreshInv(o)'
  <2>1. FreshInv(o) /\ o \in Order /\ o \notin disturbed
    BY <1>1, <1>3 DEF SilverInv
  <2>2. CASE o \notin OrdersOf(p)
    <3>1. Recording(o)' = Recording(o) /\ \A q \in Recording(o) : batch'[q] = batch[q]
      BY <1>2, <2>2, RecordingStays
    <3>2. projection'[o] = projection[o]
      BY <1>1, <2>1, <2>2
    <3>3. QED
      BY <1>1, <2>1, <3>1, <3>2, FreshStays
  <2>3. CASE o \in OrdersOf(p)
    <3>1. p \in Recording(o)
      BY <1>1, <2>3 DEF Recording
    <3>2. PICK v \in Nat, x \in Nat, revision \in Nat, c \in Content \cup {None} :
            /\ Fresh(bronze, o, v, x, revision, c)
            /\ LinesKnown(o, c)
            /\ revision <= orders[o].revision
            /\ revision = orders[o].revision => c = orders[o].content
      BY <2>1, <3>1 DEF FreshInv
    <3>3. LastOf(p, o).content = c
      BY <2>3, <3>1, <3>2, LastOfBatch DEF LinesKnown
    <3>4. projection'[o] = Lines(c)
      BY <1>1, <2>1, <2>3, <3>3
    <3>5. Recording(o)' = {}
      <4>1. Alone(p)
        BY <1>1, <2>1, <2>3 DEF SilverInv, AloneInv
      <4>2. QED
        BY <1>2, <4>1 DEF Recording, Alone
    <3>6. LinesKnown(o, c)'
      BY <3>4, <3>5 DEF LinesKnown
    <3>7. QED
      BY <1>1, <3>2, <3>6 DEF FreshInv
  <2>4. QED
    BY <2>2, <2>3
<1>4. QED
  BY <1>2, <1>3 DEF SilverInv

-----------------------------------------------------------------------------
LEMMA NextSilver == CheckpointInv /\ SilverInv /\ [Next]_vars => SilverInv'
<1> SUFFICES ASSUME CheckpointInv, SilverInv, [Next]_vars PROVE SilverInv'
  OBVIOUS
<1>1. Shapes
  BY DEF CheckpointInv
<1>2. ASSUME NEW o \in Order, NEW content \in Content, Edit(o, content) PROVE SilverInv'
  BY <1>1, <1>2, EditSilver
<1>3. CASE Tick
  BY <1>1, <1>3, StutterSilver DEF Tick, state, process
<1>4. ASSUME NEW p \in Process, Start(p) PROVE SilverInv'
  BY <1>4, StartSilver
<1>5. ASSUME NEW p \in Process, Extract(p) PROVE SilverInv'
  BY <1>1, <1>5, ExtractSilver
<1>6. ASSUME NEW p \in Process, Project(p) PROVE SilverInv'
  BY <1>1, <1>6, ProjectSilver
<1>7. ASSUME NEW p \in Process, Persist(p) PROVE SilverInv'
  BY <1>1, <1>7, PersistSilver
<1>8. ASSUME NEW p \in Process, Record(p) PROVE SilverInv'
  BY <1>1, <1>8, RecordSilver
<1>9. ASSUME NEW p \in Process, Fail(p) PROVE SilverInv'
  BY <1>1, <1>9, FailSilver
<1>10. CASE UNCHANGED vars
  BY <1>1, <1>10, StutterSilver DEF vars, source, state, process
<1>11. QED
  BY <1>2, <1>3, <1>4, <1>5, <1>6, <1>7, <1>8, <1>9, <1>10 DEF Next

\* Unless a run on an order was interrupted or overlapped, Silver shows the lines of
\* its current version once that has arrived, and no line that the order has lost.
THEOREM SilverShowsTheCurrent == Spec => []SilverIsCurrent
<1>1. CheckpointInv /\ SilverInv => SilverIsCurrent
  BY FreshIsShown DEF CheckpointInv, SilverIsCurrent
<1>2. Init => CheckpointInv /\ SilverInv
  BY InitCheckpoint, InitSilver
<1>3. CheckpointInv /\ SilverInv /\ [Next]_vars => (CheckpointInv /\ SilverInv)'
  BY NextCheckpoint, NextSilver
<1>4. Spec => [](CheckpointInv /\ SilverInv)
  BY <1>2, <1>3, PTL DEF Spec
<1>5. QED
  BY <1>1, <1>4, PTL

-----------------------------------------------------------------------------
\* Rows of the current version of an order are of its second, and say of its lines
\* what the order says; Dated is the same of an envelope.
Exact(r) ==
  r.revision = orders[r.order].revision =>
    /\ r.version = orders[r.order].updated
    /\ r.line \in Lines(orders[r.order].content) =>
         /\ r.active <=> orders[r.order].content.active
         /\ r.zero <=> r.line \in orders[r.order].content.zero

Dated(e) ==
  e.revision = orders[e.order].revision => e.updated = orders[e.order].updated

Current(r, o) == r.order = o /\ r.revision = orders[o].revision

\* Rows have a version of an order with all its lines or not at all.
Carries(R, o) ==
  (\E r \in R : Current(r, o)) =>
    \A line \in Lines(orders[o].content) : \E r \in R : Current(r, o) /\ r.line = line

ExactRun(p) ==
  /\ \A n \in 1 .. Len(batch[p]) : Dated(batch[p][n])
  /\ stage[p] = "persist" => (\A r \in rows[p] : Exact(r)) /\ \A o \in Order : Carries(rows[p], o)

\* The inductive invariant of what no overlap takes away, with the two above.
ExactInv ==
  /\ \A r \in bronze : Exact(r)
  /\ \A o \in Order : Carries(bronze, o)
  /\ \A p \in Process : ExactRun(p)

LEMMA InitExact == Init => ExactInv
BY Nothing DEF Init, ExactInv, ExactRun, Carries

\* The orders, a run and its rows are what they were.
LEMMA ExactStays ==
  ASSUME NEW p \in Process, ExactRun(p), orders' = orders, batch'[p] = batch[p],
         stage'[p] = stage[p], rows'[p] = rows[p]
  PROVE  ExactRun(p)'
<1>1. \A r : Exact(r)' <=> Exact(r)
  BY DEF Exact
<1>2. \A R, o : Carries(R, o) => Carries(R, o)'
  BY DEF Carries, Current
<1>3. QED
  BY <1>1, <1>2 DEF ExactRun, Dated, Carries, Current

\* A step that leaves the orders and Bronze alone.
LEMMA BronzeStaysExact ==
  ASSUME ExactInv, orders' = orders, bronze' = bronze
  PROVE  (\A r \in bronze' : Exact(r)') /\ \A o \in Order : Carries(bronze, o)'
BY DEF ExactInv, Exact, Carries, Current

\* The new version of an order is in no row and in no batch.
LEMMA EditExact ==
  ASSUME Shapes, SilverInv, ExactInv, NEW o \in Order, NEW content \in Content, Edit(o, content)
  PROVE  ExactInv'
<1>1. /\ orders' = [orders EXCEPT ![o] =
           [updated |-> clock, revision |-> edits + 1, content |-> content]]
      /\ UNCHANGED <<bronze, stage, batch, rows>>
  BY DEF Edit, process
<1>2. /\ orders'[o].revision = edits + 1 /\ orders[o].revision <= edits
      /\ orders[o].revision \in Nat /\ edits \in Nat
      /\ \A m \in Order : m # o => orders'[m] = orders[m]
  BY <1>1 DEF Shapes, SilverInv, VersionsInv
<1>3. ASSUME NEW r, RowFits(r), Exact(r)
      PROVE  Exact(r)' /\ ~Current(r, o)' /\ \A m \in Order : m # o => Current(r, m)' = Current(r, m)
  BY <1>2, <1>3 DEF RowFits, Exact, Current
<1>4. ASSUME NEW R, \A r \in R : RowFits(r) /\ Exact(r), NEW m \in Order, Carries(R, m)
      PROVE  Carries(R, m)'
  <2>1. CASE m = o
    BY <1>3, <1>4, <2>1 DEF Carries
  <2>2. CASE m # o
    BY <1>2, <1>3, <1>4, <2>2 DEF Carries
  <2>3. QED
    BY <2>1, <2>2
<1>5. ASSUME NEW e \in EnvelopeType, EnvelopeFits(e), Dated(e) PROVE Dated(e)'
  BY <1>2, <1>5 DEF EnvelopeType, EnvelopeFits, Dated
<1>6. ASSUME NEW p \in Process PROVE ExactRun(p)'
  <2>1. RunVersions(p) /\ ExactRun(p)
    BY DEF SilverInv, VersionsInv, ExactInv
  <2>2. ASSUME NEW n \in 1 .. Len(batch[p]) PROVE Dated(batch[p][n])'
    <3>1. PICK e \in EnvelopeType : e = batch[p][n]
      BY OrdersOfBatch
    <3>2. Dated(e)'
      BY <1>5, <2>1, <3>1 DEF RunVersions, ExactRun
    <3>3. QED
      BY <1>1, <3>1, <3>2 DEF Dated
  <2>3. stage[p] = "persist" =>
          (\A r \in rows[p] : Exact(r)') /\ \A m \in Order : Carries(rows[p], m)'
    <3> SUFFICES ASSUME stage[p] = "persist"
                 PROVE  (\A r \in rows[p] : Exact(r)') /\ \A m \in Order : Carries(rows[p], m)'
      OBVIOUS
    <3>1. PICK R : R = rows[p]
      OBVIOUS
    <3>2. (\A r \in R : RowFits(r) /\ Exact(r)) /\ \A m \in Order : Carries(R, m)
      BY <2>1, <3>1 DEF RunVersions, ExactRun
    <3>3. (\A r \in R : Exact(r)') /\ \A m \in Order : Carries(R, m)'
      BY <1>3, <1>4, <3>2
    <3>4. QED
      BY <1>1, <3>1, <3>3 DEF Carries
  <2>4. QED
    BY <1>1, <2>2, <2>3 DEF ExactRun, Carries
<1>7. (\A r \in bronze : Exact(r)') /\ \A m \in Order : Carries(bronze, m)'
  <2>1. PICK R : R = bronze
    OBVIOUS
  <2>2. (\A r \in R : RowFits(r) /\ Exact(r)) /\ \A m \in Order : Carries(R, m)
    BY <2>1 DEF SilverInv, VersionsInv, ExactInv
  <2>3. (\A r \in R : Exact(r)') /\ \A m \in Order : Carries(R, m)'
    BY <1>3, <1>4, <2>2
  <2>4. QED
    BY <1>1, <2>1, <2>3 DEF Carries
<1>8. QED
  BY <1>1, <1>6, <1>7 DEF ExactInv, Carries

\* A run that projects the current version projects it as it is.
LEMMA ProjectedIsExact ==
  ASSUME Shapes, SilverInv, ExactInv, NEW p \in Process
  PROVE  (\A r \in AllRows(p) : Exact(r)) /\ \A o \in Order : Carries(AllRows(p), o)
<1>1. ASSUME NEW e \in ToSet(batch[p])
      PROVE  e \in EnvelopeType /\ EnvelopeFits(e) /\ Dated(e)
  BY OrdersOfBatch DEF SilverInv, VersionsInv, RunVersions, ExactInv, ExactRun
<1>2. ASSUME NEW e, NEW r \in Projected(e, started[p])
      PROVE  /\ r.order = e.order /\ r.version = e.updated /\ r.revision = e.revision
             /\ r.active <=> e.content.active
             /\ r.zero <=> r.line \in e.content.zero
  <2>1. PICK line \in Lines(e.content) :
          r = Row(e, line, started[p], e.content.active, line \in e.content.zero)
    BY DEF Projected
  <2>2. /\ r.order = e.order /\ r.version = e.updated /\ r.revision = e.revision
        /\ r.line = line /\ r.active = e.content.active
        /\ r.zero = (line \in e.content.zero)
    BY <2>1 DEF Row
  <2>3. QED
    BY <2>2
<1>3. ASSUME NEW e, NEW r \in Tombstones(e, started[p])
      PROVE  /\ r.order = e.order /\ r.version = e.updated /\ r.revision = e.revision
             /\ r.line \notin Lines(e.content)
  BY DEF Tombstones, Row
<1>4. ASSUME NEW r \in AllRows(p) PROVE Exact(r)
  <2>1. PICK e \in ToSet(batch[p]) : r \in Projected(e, started[p]) \cup Tombstones(e, started[p])
    BY DEF AllRows
  <2>2. CASE r \in Projected(e, started[p])
    BY <1>1, <1>2, <2>2 DEF Exact, EnvelopeFits, Dated
  <2>3. CASE r \in Tombstones(e, started[p])
    BY <1>1, <1>3, <2>3 DEF Exact, EnvelopeFits, Dated
  <2>4. QED
    BY <2>1, <2>2, <2>3
<1>5. ASSUME NEW o \in Order, NEW r \in AllRows(p), Current(r, o),
             NEW line \in Lines(orders[o].content)
      PROVE  \E s \in AllRows(p) : Current(s, o) /\ s.line = line
  <2>1. PICK e \in ToSet(batch[p]) : r \in Projected(e, started[p]) \cup Tombstones(e, started[p])
    BY DEF AllRows
  <2>2. e.order = o /\ e.revision = orders[o].revision
    BY <1>2, <1>3, <1>5, <2>1 DEF Current
  <2>3. e.content = orders[o].content
    BY <1>1, <2>2 DEF EnvelopeFits
  <2>4. PICK s : s = Row(e, line, started[p], e.content.active, line \in e.content.zero)
    OBVIOUS
  <2>5. s \in Projected(e, started[p]) /\ s.line = line
    BY <2>3, <2>4 DEF Projected, Row
  <2>6. s \in AllRows(p) /\ Current(s, o)
    BY <1>2, <2>2, <2>5 DEF AllRows, Current
  <2>7. QED
    BY <2>5, <2>6
<1>6. QED
  BY <1>4, <1>5 DEF Carries

LEMMA NextExact == CheckpointInv /\ SilverInv /\ ExactInv /\ [Next]_vars => ExactInv'
<1> SUFFICES ASSUME CheckpointInv, SilverInv, ExactInv, [Next]_vars PROVE ExactInv'
  OBVIOUS
<1>1. Shapes
  BY DEF CheckpointInv
<1>2. ASSUME NEW o \in Order, NEW content \in Content, Edit(o, content) PROVE ExactInv'
  BY <1>1, <1>2, EditExact
<1>3. CASE UNCHANGED <<orders, bronze, stage, batch, rows>>
  BY <1>3, ExactStays, BronzeStaysExact DEF ExactInv, Carries
<1>4. ASSUME NEW p \in Process, orders' = orders, bronze' = bronze, ExactRun(p)',
             \A q \in Process : q # p =>
               stage'[q] = stage[q] /\ batch'[q] = batch[q] /\ rows'[q] = rows[q]
      PROVE  ExactInv'
  <2>1. ASSUME NEW q \in Process, q # p PROVE ExactRun(q)'
    BY <1>4, <2>1, ExactStays DEF ExactInv
  <2>2. QED
    BY <1>4, <2>1, BronzeStaysExact DEF ExactInv, Carries
<1>5. ASSUME NEW p \in Process, Reset(p), orders' = orders, bronze' = bronze PROVE ExactInv'
  <2>1. stage'[p] = "idle" /\ batch'[p] = << >>
    BY <1>1, <1>5 DEF Reset, Shapes
  <2>2. ExactRun(p)'
    BY <2>1, Nothing DEF ExactRun
  <2>3. \A q \in Process : q # p =>
          stage'[q] = stage[q] /\ batch'[q] = batch[q] /\ rows'[q] = rows[q]
    BY <1>1, <1>5 DEF Reset, Shapes
  <2>4. QED
    BY <1>4, <1>5, <2>2, <2>3
<1>6. ASSUME NEW p \in Process, Start(p) PROVE ExactInv'
  <2>1. stage' = [stage EXCEPT ![p] = "extract"] /\ UNCHANGED <<orders, bronze, batch, rows>>
    BY <1>6 DEF Start, source
  <2>2. stage'[p] = "extract" /\ \A q \in Process : q # p => stage'[q] = stage[q]
    BY <1>1, <2>1 DEF Shapes
  <2>3. ExactRun(p)'
    BY <2>1, <2>2 DEF ExactInv, ExactRun, Dated
  <2>4. QED
    BY <1>4, <2>1, <2>2, <2>3
<1>7. ASSUME NEW p \in Process, Extract(p) PROVE ExactInv'
  <2>1. PICK page \in Pages(Boundary(p), cursor[p]) :
          /\ batch' = [batch EXCEPT ![p] = @ \o Envelopes(page)]
          /\ stage' = stage \/ stage' = [stage EXCEPT ![p] = "project"]
    BY <1>7 DEF Extract
  <2>2. stage[p] = "extract" /\ UNCHANGED <<orders, bronze, rows>>
    BY <1>7 DEF Extract, source
  <2>3. page \in Seq(Order)
    BY <1>1, PageIsOrders
  <2>4. PICK b \in Seq(EnvelopeType) : b = batch[p]
    BY <1>1 DEF Shapes
  <2>5. PICK c \in Seq(EnvelopeType) :
          /\ c = b \o Envelopes(page)
          /\ \A n \in 1 .. Len(b) : c[n] = b[n]
          /\ \A n \in 1 .. Len(page) : c[Len(b) + n] = Envelope(page[n]) /\ page[n] \in Order
          /\ \A n \in 1 .. Len(c) :
               n \in 1 .. Len(b) \/ \E m \in 1 .. Len(page) : n = Len(b) + m
    BY <1>1, <2>3, BatchGrows, Zenon
  <2>6. \A n \in 1 .. Len(c) :
          (n \in 1 .. Len(b) /\ c[n] = b[n]) \/ \E o \in Order : c[n] = Envelope(o)
    BY <2>5
  <2>7. batch'[p] = c /\ \A q \in Process : q # p => batch'[q] = batch[q]
    BY <1>1, <2>1, <2>4, <2>5 DEF Shapes
  <2>8. stage'[p] \in {"extract", "project"} /\ \A q \in Process : q # p => stage'[q] = stage[q]
    BY <1>1, <2>1, <2>2 DEF Shapes
  <2>9. ASSUME NEW n \in 1 .. Len(c) PROVE Dated(c[n])
    <3>1. CASE n \in 1 .. Len(b) /\ c[n] = b[n]
      BY <2>4, <3>1 DEF ExactInv, ExactRun
    <3>2. CASE \E o \in Order : c[n] = Envelope(o)
      BY <3>2 DEF Envelope, Dated
    <3>3. QED
      BY <2>6, <3>1, <3>2
  <2>10. ExactRun(p)'
    BY <2>2, <2>7, <2>8, <2>9 DEF ExactRun, Dated
  <2>11. QED
    BY <1>4, <2>2, <2>7, <2>8, <2>10
<1>8. ASSUME NEW p \in Process, Project(p) PROVE ExactInv'
  <2>1. UNCHANGED <<orders, bronze>>
    BY <1>8 DEF Project, source
  <2>2. CASE ~Reset(p)
    <3>1. /\ stage' = [stage EXCEPT ![p] = "persist"]
          /\ rows' = [rows EXCEPT ![p] = AllRows(p)]
          /\ batch' = batch
      BY <1>8, <2>2 DEF Project, AllRows
    <3>2. /\ stage'[p] = "persist" /\ rows'[p] = AllRows(p)
          /\ \A q \in Process : q # p => stage'[q] = stage[q] /\ rows'[q] = rows[q]
      BY <1>1, <3>1 DEF Shapes
    <3>3. PICK R : R = AllRows(p)
      OBVIOUS
    <3>4. (\A r \in R : Exact(r)) /\ \A o \in Order : Carries(R, o)
      BY <1>1, <3>3, ProjectedIsExact
    <3>5. (\A r \in R : Exact(r)') /\ \A o \in Order : Carries(R, o)'
      BY <2>1, <3>4 DEF Exact, Carries, Current
    <3>6. ExactRun(p)'
      BY <2>1, <3>1, <3>2, <3>3, <3>5 DEF ExactInv, ExactRun, Dated, Carries
    <3>7. QED
      BY <1>4, <2>1, <3>1, <3>2, <3>6
  <2>3. QED
    BY <1>5, <2>1, <2>2
<1>9. ASSUME NEW p \in Process, Persist(p) PROVE ExactInv'
  <2>1. /\ stage[p] = "persist" /\ bronze' = bronze \cup rows[p]
        /\ stage' = [stage EXCEPT ![p] = "record"]
        /\ UNCHANGED <<orders, batch, rows>>
    BY <1>9 DEF Persist, source
  <2>2. stage'[p] = "record" /\ \A q \in Process : q # p => stage'[q] = stage[q]
    BY <1>1, <2>1 DEF Shapes
  <2>3. ExactRun(p)'
    BY <2>1, <2>2 DEF ExactInv, ExactRun, Dated
  <2>4. ASSUME NEW q \in Process, q # p PROVE ExactRun(q)'
    BY <2>1, <2>2, <2>4, ExactStays DEF ExactInv
  <2>5. (\A r \in rows[p] : Exact(r)) /\ \A o \in Order : Carries(rows[p], o)
    BY <2>1 DEF ExactInv, ExactRun
  <2>6. \A r \in bronze' : Exact(r)'
    BY <2>1, <2>5 DEF ExactInv, Exact
  <2>7. ASSUME NEW o \in Order PROVE Carries(bronze, o)'
    BY <2>1, <2>5 DEF ExactInv, Carries, Current
  <2>8. QED
    BY <2>3, <2>4, <2>6, <2>7 DEF ExactInv
<1>10. ASSUME NEW p \in Process, Record(p) \/ Fail(p) PROVE ExactInv'
  BY <1>5, <1>10 DEF Record, Fail, source
<1>11. CASE Tick \/ UNCHANGED vars
  BY <1>3, <1>11 DEF Tick, vars, source, process
<1>12. QED
  BY <1>2, <1>6, <1>7, <1>8, <1>9, <1>10, <1>11 DEF Next

\* Of the rows of the current version that have a line, the one extracted last is what
\* Silver shows: older versions have lost, and there is no other of that second.
LEMMA CurrentIsShown ==
  ASSUME Shapes, SilverInv, ExactInv, NEW o \in Order, Arrived(o), ~Ambiguous(o),
         NEW line \in Lines(orders[o].content), line \notin orders[o].content.zero
  PROVE  line \in ActiveLines(o) <=> orders[o].content.active
<1> DEFINE Rows == {r \in bronze : Current(r, o) /\ r.line = line}
           T == {r.extracted : r \in Rows}
<1>1. Rows # {}
  BY DEF Arrived, ExactInv, Carries, Current
<1>2. \A r \in bronze : RowFits(r)
  BY DEF SilverInv, VersionsInv
<1>3. \A r \in Rows : /\ r \in bronze /\ r.order = o /\ r.line = line
                      /\ r.version = orders[o].updated /\ ~r.zero
                      /\ r.active <=> orders[o].content.active
                      /\ r.extracted \in Nat /\ r.extracted <= runs
  BY <1>2 DEF ExactInv, Exact, Current, RowFits
<1>4. PICK latest \in Rows : \A r \in Rows : r.extracted <= latest.extracted
  <2>1. T \in SUBSET Nat /\ T # {} /\ (\A n \in T : n <= runs) /\ runs \in Nat
    BY <1>1, <1>3 DEF SilverInv, VersionsInv
  <2> HIDE DEF T
  <2>2. PICK m \in T : \A n \in T : n <= m
    BY <2>1, Greatest
  <2> USE DEF T
  <2> HIDE DEF Rows
  <2>3. QED
    BY <2>2
<1>5. ASSUME NEW s \in bronze, s.order = o, s.line = line, ~(orders[o].updated > s.version)
      PROVE  s \in Rows /\ s.version = orders[o].updated
  <2>1. s.version \in Nat /\ s.version <= orders[o].updated /\ orders[o].updated \in Nat
    BY <1>2, <1>5 DEF RowFits, Shapes
  <2>2. s.version = orders[o].updated
    BY <1>5, <2>1
  <2>3. QED
    BY <1>5, <2>2 DEF Ambiguous, Current
<1> HIDE DEF Rows
<1>6. ASSUME NEW s \in bronze, s.order = o, s.line = line PROVE ~Newer(s, latest)
  <2>1. s.version \in Nat /\ orders[o].updated \in Nat /\ latest.version = orders[o].updated
    BY <1>2, <1>3, <1>6 DEF RowFits, Shapes
  <2>2. CASE orders[o].updated > s.version
    BY <2>1, <2>2 DEF Newer, After
  <2>3. CASE ~(orders[o].updated > s.version)
    <3>1. s \in Rows /\ s.version = orders[o].updated
      BY <1>5, <1>6, <2>3
    <3>2. s.extracted <= latest.extracted /\ s.extracted \in Nat /\ latest.extracted \in Nat
      BY <1>3, <1>4, <3>1
    <3>3. QED
      BY <2>1, <3>1, <3>2 DEF Newer, After
  <2>4. QED
    BY <2>2, <2>3
<1>7. latest \in Silver
  BY <1>3, <1>6 DEF Silver, NewestOf, Classified
<1>8. ASSUME orders[o].content.active PROVE line \in ActiveLines(o)
  BY <1>3, <1>7, <1>8 DEF ActiveLines
<1>9. ASSUME line \in ActiveLines(o) PROVE orders[o].content.active
  <2>1. PICK r \in Silver : r.order = o /\ r.line = line /\ r.active
    BY <1>9 DEF ActiveLines
  <2>2. r \in bronze /\ ~Newer(latest, r)
    BY <1>3, <2>1 DEF Silver, NewestOf, Classified
  <2>3. ~(orders[o].updated > r.version)
    BY <1>3, <2>2 DEF Newer, After
  <2>4. r \in Rows
    BY <1>5, <2>1, <2>2, <2>3
  <2>5. QED
    BY <1>3, <2>1, <2>4
<1>10. QED
  BY <1>8, <1>9

\* Whatever overlaps, fails or arrives late, no older row and no tombstone stands for a
\* line of the current version, unless the order was edited twice in a second.
THEOREM CurrentLinesAlwaysShow == Spec => []CurrentLinesShow
<1>1. CheckpointInv /\ SilverInv /\ ExactInv => CurrentLinesShow
  BY CurrentIsShown DEF CheckpointInv, CurrentLinesShow
<1>2. Init => CheckpointInv /\ SilverInv /\ ExactInv
  BY InitCheckpoint, InitSilver, InitExact
<1>3. CheckpointInv /\ SilverInv /\ ExactInv /\ [Next]_vars
        => (CheckpointInv /\ SilverInv /\ ExactInv)'
  BY NextCheckpoint, NextSilver, NextExact
<1>4. Spec => [](CheckpointInv /\ SilverInv /\ ExactInv)
  BY <1>2, <1>3, PTL DEF Spec
<1>5. QED
  BY <1>1, <1>4, PTL

=============================================================================
