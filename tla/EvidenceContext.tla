-------------------------- MODULE EvidenceContext --------------------------
(***************************************************************************)
(* The evidence of one business: the rows the marts' views derive from the *)
(* campaign outcomes in the warehouse (sama_pilot views, src/dbt/models)   *)
(* and the bounded context src/intelligence/context.py builds from six     *)
(* queries over them.                                                      *)
(*                                                                         *)
(* A row of the campaign outcomes is a record of counts; NULL is None.     *)
(* Rates are per mille and costs are cents, rounded down.  An evidence     *)
(* item is its id <<type, key, scope>>, where the key is the signal type,  *)
(* the leakage stage, the metric or the status; its facts stay in the      *)
(* context.  Facts that no rule reads, and all wording, are left out.      *)
(***************************************************************************)
EXTENDS Integers, Sequences, FiniteSets, FiniteSetsExt, SequencesExt

None == -1
Business == "business"

LOW == 2
MEDIUM == 1
HIGH == 0

\* The sample bands of the marts and of the rules: 30 and 100 orders.
SampleBand(n) == IF n < 30 THEN LOW ELSE IF n < 100 THEN MEDIUM ELSE HIGH

Ratio(n, scale, d) == IF n = None \/ d <= 0 THEN None ELSE (n * scale) \div d
Rate(n, d) == Ratio(n, 1000, d)
AtLeast(a, b, gap) == a # None /\ b # None /\ a - b >= gap

\* sum() of a column: NULLs do not count.
Total(rows, column) ==
    MapThenSumSet(LAMBDA r : IF r[column] = None THEN 0 ELSE r[column], rows)

-----------------------------------------------------------------------------
(* The views, over the set of outcome rows of the target campaigns.         *)

\* sama_pilot_campaign_diagnostics: each campaign against all the others.
Diagnostic(rows, r) ==
    LET Peers(column) == Total(rows \ {r}, column)
    IN  [row |-> r.row, name |-> r.name, spend |-> r.spend,
         delivery |-> Rate(r.delivered, r.shipped),
         peerDelivery |-> Rate(Peers("delivered"), Peers("shipped")),
         return |-> Rate(r.returned, r.shipped),
         peerReturn |-> Rate(Peers("returned"), Peers("shipped")),
         cost |-> Ratio(r.spend, 100, r.orders),
         peerCost |-> IF r.spend = None THEN None ELSE Ratio(Peers("spend"), 100, Peers("orders")),
         deliveryGap |-> Ratio(r.shipped, Peers("delivered"), Peers("shipped")) - r.delivered,
         excessReturns |-> r.returned - Ratio(r.shipped, Peers("returned"), Peers("shipped")),
         fulfillmentBand |-> SampleBand(r.shipped), acquisitionBand |-> SampleBand(r.orders)]

Diagnostics(rows) == {Diagnostic(rows, r) : r \in rows}

\* sama_pilot_business_leakage: observed loss and denominator of each stage.
Leakage(rows) ==
    LET o(column) == Total(rows, column)
        Stage(name, observed, denominator) ==
            [stage |-> name, observed |-> Max({observed, 0}), denominator |-> denominator]
    IN  IF rows = {} THEN {} ELSE
        {Stage("PLATFORM_VS_OBSERVED", o("conversions") - o("orders"), o("conversions")),
         Stage("IDENTITY_UNRESOLVED", o("unresolved"), o("orders")),
         Stage("MATCHED_NOT_CONFIRMED", o("matched") - o("confirmed"), o("matched")),
         Stage("CONFIRMED_NOT_SHIPPED", o("confirmed") - o("shipped"), o("confirmed")),
         Stage("RETURNED_AFTER_SHIPMENT", o("returned"), o("shipped")),
         Stage("SHIPPED_TERMINAL_UNRESOLVED",
               o("shipped") - o("delivered") - o("returned"), o("shipped"))}

\* sama_pilot_intelligence_signals.  "impact" is the figure an opportunity
\* quotes: impact_order_count, or absolute_gap for the cost signal, which has no
\* count of orders and so is never HIGH; a signal is there when its gap is.
Signals(rows) ==
    LET o(column) == Total(rows, column)
        OfBusiness(type, gap, impact, sample) ==
            IF gap <= 0 THEN {} ELSE
            {[row |-> Business, type |-> type, scope |-> Business, impact |-> impact,
              relative |-> None, high |-> /\ type # "PLATFORM_OBSERVED_GAP"
                                          /\ SampleBand(sample) # LOW /\ impact >= 100]}
        OfCampaign(d, type, gap, relative) ==
            [row |-> d.row, type |-> type, scope |-> d.name, impact |-> gap, relative |-> relative,
             high |-> type # "CAMPAIGN_ACQUISITION_COST_GAP" /\ gap >= 100]
        Exceeding(type, a, b, sample) == OfBusiness(type, o(a) - o(b), o(a) - o(b), o(sample))
        diagnostics == Diagnostics(rows)
    IN  OfBusiness("RETURN_PRESSURE", o("returned") - o("delivered"), o("returned"), o("shipped"))
        \cup Exceeding("CONFIRMATION_LEAKAGE", "matched", "confirmed", "matched")
        \cup Exceeding("PLATFORM_OBSERVED_GAP", "conversions", "orders", "orders")
        \cup OfBusiness("IDENTITY_RESOLUTION_GAP", o("unresolved"), o("unresolved"), o("orders"))
        \cup {OfCampaign(d, "CAMPAIGN_DELIVERY_GAP", d.deliveryGap, None) :
                d \in {d \in diagnostics : /\ d.fulfillmentBand # LOW /\ d.deliveryGap > 0
                                           /\ AtLeast(d.peerDelivery, d.delivery, 100)}}
        \cup {OfCampaign(d, "CAMPAIGN_RETURN_PRESSURE", d.excessReturns, None) :
                d \in {d \in diagnostics : /\ d.fulfillmentBand # LOW /\ d.excessReturns > 0
                                           /\ AtLeast(d.return, d.peerReturn, 100)}}
        \cup {OfCampaign(d, "CAMPAIGN_ACQUISITION_COST_GAP", d.cost - d.peerCost,
                         Rate(d.cost - d.peerCost, d.peerCost)) :
                d \in {d \in diagnostics : /\ d.acquisitionBand # LOW
                                           /\ d.cost # None /\ d.peerCost # None
                                           /\ 100 * d.cost >= 125 * d.peerCost}}

-----------------------------------------------------------------------------
(* The context.  A source holds the outcome rows, the latest persisted      *)
(* status of each evaluated metric and the economic statuses of the orders. *)

PilotAnomalyMetrics == {"daily_target_spend", "lightfunnels_order_volume",
    "confirmed_order_volume", "delivered_order_volume", "returned_order_volume"}

EconomicStatus(statuses) ==
    IF "FX_REQUIRED" \in statuses THEN "FX_REQUIRED"
    ELSE IF Cardinality(statuses) = 1 THEN CHOOSE s \in statuses : TRUE
    ELSE "SEPARATE_CURRENCIES"

SignalId(s) == <<"SIGNAL", s.type, s.scope>>
LeakageId(l) == <<"LEAKAGE", l.stage, Business>>
CampaignId(d) == <<"CAMPAIGN_DIAGNOSTIC", "", d.name>>
AnomalyId(metric) == <<"TIME_ANOMALY", metric, Business>>
EconomicsId(c) == <<"ECONOMIC_STATUS", c.economics, Business>>

\* Of the sources each query met: build_context asks for the signals, the
\* leakage, the campaigns, the anomalies and the economics one after another.
Assemble(signals, leakage, campaigns, anomalies, economics) ==
    [signals |-> Signals(signals.rows), leakage |-> Leakage(leakage.rows),
     campaigns |-> Diagnostics(campaigns.rows),
     anomalies |-> [m \in PilotAnomalyMetrics |->
                      IF m \in DOMAIN anomalies.metrics THEN anomalies.metrics[m]
                      ELSE "NOT_EVALUATED"],
     economics |-> EconomicStatus(economics.statuses)]

Evidence(c) ==
    {SignalId(s) : s \in c.signals} \cup {LeakageId(l) : l \in c.leakage}
    \cup {CampaignId(d) : d \in c.campaigns} \cup {AnomalyId(m) : m \in PilotAnomalyMetrics}
    \cup {EconomicsId(c)}

\* Evidence ids are made of names: two campaigns of one name give the same
\* ids, and the context is refused.
IsContext(c) ==
    /\ Cardinality({CampaignId(d) : d \in c.campaigns}) = Cardinality(c.campaigns)
    /\ Cardinality({SignalId(s) : s \in c.signals}) = Cardinality(c.signals)
=============================================================================
