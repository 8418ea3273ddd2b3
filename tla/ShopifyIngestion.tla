-------------------------- MODULE ShopifyIngestion --------------------------
(***************************************************************************)
(* run_shopify_ingestion: orders are extracted page by page from Shopify,  *)
(* projected to one event per line, appended to the Bronze rows, and then  *)
(* the checkpoint and the projected event identities are recorded in       *)
(* SQLite.  Bronze and SQLite commit separately.  The Silver snapshot      *)
(* shows the newest valid Bronze row of each event.                        *)
(*                                                                         *)
(* Refund events and money amounts are left out, and so are the attempt    *)
(* times, error text and health kept for source-status.                    *)
(***************************************************************************)
EXTENDS Integers, FiniteSetsExt, SequencesExt

CONSTANTS
  Order,     \* order identities, ordered
  Line,      \* line items of an order
  Whole,     \* stands for the line of an order without lines
  Content,   \* versions of an order: lines, those of quantity 0, active
  Process,   \* ingestion processes
  PageSize,  \* metadata.page_size
  None,
  MaxTime, MaxEdits, MaxRuns  \* bounds

ASSUME OrderAssumption ==
  Order \subseteq Nat /\ IsFiniteSet(Order) /\ PageSize \in Nat \ {0}

VARIABLES
  orders,      \* Shopify: the current version of each order
  clock,       \* Shopify's clock, in seconds: the grain of updated_at
  edits,       \* number of edits made so far
  bronze,      \* the Bronze rows
  checkpoint,  \* connector_state.checkpoint_utc
  projection,  \* shopify_projection: event lines by order
  stage,       \* where a process stands in run_shopify_ingestion
  started,     \* its extracted_at_utc, finer than the clock: a run number
  watermark,   \* the checkpoint it read
  cursor,      \* the last order it has seen: <<updated, order>>
  batch,       \* its envelopes
  rows,        \* its projected rows
  runs,        \* number of runs started so far
  overlapping, \* auxiliary: whether another process has run meanwhile
  disturbed,   \* auxiliary: orders touched by an interrupted or overlapping run
  outrun       \* auxiliary: orders edited behind the cursor in its very second

source == <<orders, clock, edits>>
state == <<checkpoint, projection>>
process == <<stage, started, watermark, cursor, batch, rows, overlapping>>
vars == <<source, outrun, bronze, state, process, runs, disturbed>>

-----------------------------------------------------------------------------
\* Shopify

\* An order that does not exist yet was never updated.
NoOrder == [updated |-> 0, revision |-> 0, content |-> None]

After(u, v) == u[1] > v[1] \/ (u[1] = v[1] /\ u[2] > v[2])

\* An extraction has passed the place that an order takes when it is edited now.
Passed(o) == \E p \in Process : stage[p] = "extract" /\ ~After(<<clock, o>>, cursor[p])

Edit(o, content) ==
  /\ edits < MaxEdits
  /\ edits' = edits + 1
  /\ orders' = [orders EXCEPT ![o] =
       [updated |-> clock, revision |-> edits + 1, content |-> content]]
  /\ outrun' = IF Passed(o) THEN outrun \cup {o} ELSE outrun \ {o}
  /\ UNCHANGED <<clock, bronze, state, process, runs, disturbed>>

Tick ==
  /\ clock < MaxTime
  /\ clock' = clock + 1
  /\ UNCHANGED <<orders, edits, outrun, bronze, state, process, runs, disturbed>>

Key(o) == <<orders[o].updated, o>>

\* orders(first, after, query: updated_at >= boundary, sortKey: UPDATED_AT)
Matching(boundary, after) ==
  {o \in Order : orders[o].updated >= boundary /\ After(Key(o), after)}

\* The one list of these orders in the order of their keys.
Listing(S) ==
  {q \in [1..Cardinality(S) -> S] :
     ToSet(q) = S /\ \A m, n \in DOMAIN q : m < n => After(Key(q[n]), Key(q[m]))}

Pages(boundary, after) ==
  LET S == Matching(boundary, after)
      size == IF Cardinality(S) <= PageSize THEN Cardinality(S) ELSE PageSize
  IN {SubSeq(q, 1, size) : q \in Listing(S)}

-----------------------------------------------------------------------------
\* The projection of an order

\* The lines of the events project_order emits.
Lines(content) == IF content.lines = {} THEN {Whole} ELSE content.lines

Row(envelope, line, run, active, zero) ==
  [order |-> envelope.order, line |-> line, version |-> envelope.updated,
   extracted |-> run, active |-> active, zero |-> zero,
   revision |-> envelope.revision]

Projected(envelope, run) ==
  {Row(envelope, line, run, envelope.content.active, line \in envelope.content.zero) :
     line \in Lines(envelope.content)}

\* Plausible fault: only the lines of an active order are tombstoned.
TombstonesOfActive(envelope, run) ==
  IF envelope.content.active
  THEN {Row(envelope, line, run, FALSE, FALSE) :
          line \in projection[envelope.order] \ Lines(envelope.content)}
  ELSE {}

\* tombstones: lines projected before and gone now.
Tombstones(envelope, run) ==
  {Row(envelope, line, run, FALSE, FALSE) :
     line \in projection[envelope.order] \ Lines(envelope.content)}

-----------------------------------------------------------------------------
\* The Silver snapshot

\* Plausible fault: what was extracted last wins, whatever its version.
NewerByExtraction(r, s) == After(<<r.extracted, r.version>>, <<s.extracted, s.version>>)

Newer(r, s) == After(<<r.version, r.extracted>>, <<s.version, s.extracted>>)

\* classify_silver_events rejects a quantity of 0 before rows are ranked.
Classified == {r \in bronze : ~r.zero}

NewestOf(R) == {r \in R : \A s \in R : s.order = r.order /\ s.line = r.line => ~Newer(s, r)}

Silver == NewestOf(Classified)

ActiveLines(o) == {r.line : r \in {r \in Silver : r.order = o /\ r.active}}

-----------------------------------------------------------------------------
\* run_shopify_ingestion

Reset(p) ==
  /\ stage' = [stage EXCEPT ![p] = "idle"]
  /\ started' = [started EXCEPT ![p] = 0]
  /\ watermark' = [watermark EXCEPT ![p] = 0]
  /\ cursor' = [cursor EXCEPT ![p] = <<0, 0>>]
  /\ batch' = [batch EXCEPT ![p] = << >>]
  /\ rows' = [rows EXCEPT ![p] = {}]
  /\ overlapping' = [overlapping EXCEPT ![p] = FALSE]

OrdersOf(p) == {e.order : e \in ToSet(batch[p])}

Running == {p \in Process : stage[p] # "idle"}

\* The backfill start, before every order, stands for a missing checkpoint.
Start(p) ==
  /\ stage[p] = "idle" /\ runs < MaxRuns
  /\ runs' = runs + 1
  /\ stage' = [stage EXCEPT ![p] = "extract"]
  /\ started' = [started EXCEPT ![p] = runs + 1]
  /\ watermark' = [watermark EXCEPT ![p] = checkpoint]
  /\ overlapping' = [q \in Process |->
       overlapping[q] \/ (q = p /\ Running # {}) \/ q \in Running]
  /\ disturbed' = disturbed \cup
       UNION {OrdersOf(q) : q \in {q \in Process : stage[q] = "record"}}
  /\ UNCHANGED <<source, outrun, bronze, state, cursor, batch, rows>>

\* Plausible fault: orders updated at the checkpoint are taken as extracted.
BoundaryExclusive(p) == watermark[p] + 1

\* updated_at:>='checkpoint'; orders that do not exist yet never match.
Boundary(p) == IF watermark[p] = 0 THEN 1 ELSE watermark[p]

Envelope(o) ==
  [order |-> o, updated |-> orders[o].updated, content |-> orders[o].content,
   revision |-> orders[o].revision]

Envelopes(page) == [n \in DOMAIN page |-> Envelope(page[n])]

\* ShopifyAdminApiAdapter.extract, one page.
Extract(p) ==
  /\ stage[p] = "extract"
  /\ \E page \in Pages(Boundary(p), cursor[p]) :
       /\ batch' = [batch EXCEPT ![p] = @ \o Envelopes(page)]
       /\ IF Cardinality(Matching(Boundary(p), cursor[p])) > PageSize
          THEN /\ cursor' = [cursor EXCEPT ![p] = Key(Last(page))]
               /\ UNCHANGED stage
          ELSE /\ stage' = [stage EXCEPT ![p] = "project"]
               /\ UNCHANGED cursor
  /\ UNCHANGED <<source, outrun, bronze, state, started, watermark, rows, overlapping,
                 runs, disturbed>>

\* duplicate_order_versions
DuplicateVersions(p) ==
  \E m, n \in DOMAIN batch[p] :
    /\ m < n
    /\ batch[p][m].order = batch[p][n].order
    /\ batch[p][m].updated = batch[p][n].updated

Project(p) ==
  /\ stage[p] = "project"
  /\ IF DuplicateVersions(p)
     THEN Reset(p)
     ELSE /\ stage' = [stage EXCEPT ![p] = "persist"]
          /\ rows' = [rows EXCEPT ![p] =
               UNION {Projected(e, started[p]) \cup Tombstones(e, started[p]) :
                        e \in ToSet(batch[p])}]
          /\ UNCHANGED <<started, watermark, cursor, batch, overlapping>>
  /\ UNCHANGED <<source, outrun, bronze, state, runs, disturbed>>

\* Orders whose tombstones cannot be relied on: another run overlaps, or the
\* batch has two versions of them.
Disturbs(p) ==
  {o \in OrdersOf(p) :
     \/ overlapping[p]
     \/ \E m, n \in DOMAIN batch[p] :
          m < n /\ batch[p][m].order = o /\ batch[p][n].order = o}

\* SparkBronzePersister.persist
Persist(p) ==
  /\ stage[p] = "persist"
  /\ bronze' = bronze \cup rows[p]
  /\ stage' = [stage EXCEPT ![p] = "record"]
  /\ disturbed' = disturbed \cup Disturbs(p)
  /\ UNCHANGED <<source, outrun, state, started, watermark, cursor, batch, rows, overlapping, runs>>

\* The greatest updated_at of the batch, else the checkpoint that was read.
Candidate(p) ==
  IF batch[p] = << >> THEN watermark[p]
  ELSE Max({e.updated : e \in ToSet(batch[p])})

\* The last version of an order in the batch.
LastOf(p, o) == batch[p][Max({n \in DOMAIN batch[p] : batch[p][n].order = o})]

\* record_success; the last projection of an order is kept.
Record(p) ==
  /\ stage[p] = "record"
  /\ checkpoint' = IF Candidate(p) = 0 THEN checkpoint ELSE Candidate(p)
  /\ projection' = [o \in Order |->
       IF o \in OrdersOf(p) THEN Lines(LastOf(p, o).content) ELSE projection[o]]
  /\ Reset(p)
  /\ UNCHANGED <<source, outrun, bronze, runs, disturbed>>

\* An error, which record_failure notes, or a crash.
Fail(p) ==
  /\ stage[p] # "idle"
  /\ Reset(p)
  /\ disturbed' = IF stage[p] = "record" THEN disturbed \cup OrdersOf(p) ELSE disturbed
  /\ UNCHANGED <<source, outrun, bronze, state, runs>>

Init ==
  /\ orders = [o \in Order |-> NoOrder]
  /\ clock = 1 /\ edits = 0
  /\ bronze = {}
  /\ checkpoint = 0
  /\ projection = [o \in Order |-> {}]
  /\ stage = [p \in Process |-> "idle"]
  /\ overlapping = [p \in Process |-> FALSE]
  /\ started = [p \in Process |-> 0]
  /\ watermark = [p \in Process |-> 0]
  /\ cursor = [p \in Process |-> <<0, 0>>]
  /\ batch = [p \in Process |-> << >>]
  /\ rows = [p \in Process |-> {}]
  /\ runs = 0
  /\ disturbed = {} /\ outrun = {}

Next ==
  \/ \E o \in Order, content \in Content : Edit(o, content)
  \/ Tick
  \/ \E p \in Process :
       Start(p) \/ Extract(p) \/ Project(p) \/ Persist(p) \/ Record(p) \/ Fail(p)

Spec == Init /\ [][Next]_vars

-----------------------------------------------------------------------------
RowType == [order : Order, line : Line \cup {Whole}, version : Nat, extracted : Nat,
            active : BOOLEAN, zero : BOOLEAN, revision : Nat]

\* The variables keep their types.
TypeOK ==
  /\ bronze \subseteq RowType
  /\ checkpoint \in 0..MaxTime
  /\ projection \in [Order -> SUBSET (Line \cup {Whole})]
  /\ stage \in [Process -> {"idle", "extract", "project", "persist", "record"}]
  /\ \A p \in Process : rows[p] \subseteq RowType /\ Len(batch[p]) <= MaxEdits
  /\ disturbed \subseteq Order

\* Bronze has the current version of the order.
Arrived(o) == \E r \in bronze : r.order = o /\ r.revision = orders[o].revision

\* The checkpoint never passes an order that Bronze does not have, whatever fails
\* and whichever runs overlap, unless the order was edited behind the cursor of an
\* extraction in the second the cursor stands at.
NothingStranded ==
  \A o \in Order \ outrun :
    0 < orders[o].updated /\ orders[o].updated < checkpoint => Arrived(o)

\* Once the current version of an order has arrived, Silver shows exactly its
\* lines, and none when it is cancelled or unpaid, unless a run on the order was
\* interrupted or overlapped; lines of quantity 0 excepted.
SilverIsCurrent ==
  \A o \in Order \ disturbed : Arrived(o) =>
    LET content == orders[o].content
    IN ActiveLines(o) \ content.zero
         = IF content.active THEN Lines(content) \ content.zero ELSE {}

\* Bronze has another version of the order with the updated_at of the current one.
Ambiguous(o) ==
  \E r \in bronze : /\ r.order = o /\ r.version = orders[o].updated
                    /\ r.revision # orders[o].revision

\* Whatever overlaps, fails or arrives late, no older row and no tombstone stands for
\* a line of the current version once that has arrived: the line is active exactly
\* when the order is, unless the order was edited twice in a second; lines of
\* quantity 0 excepted.
CurrentLinesShow ==
  \A o \in Order : Arrived(o) /\ ~Ambiguous(o) =>
    LET content == orders[o].content
    IN \A line \in Lines(content) \ content.zero :
         line \in ActiveLines(o) <=> content.active

\* README: "Order edits emit tombstones for projections that disappeared."
RemovedLinesDisappear ==
  \A o \in Order : Arrived(o) /\ (\A p \in Process : stage[p] = "idle") =>
    ActiveLines(o) \subseteq Lines(orders[o].content)

=============================================================================
