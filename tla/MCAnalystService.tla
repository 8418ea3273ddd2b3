--------------------------- MODULE MCAnalystService ---------------------------
EXTENDS AnalystService

names == <<"19-11-2025-07", "alpha", "beta", "gamma">>
Row(row, name, spend, conversions, orders, unresolved, rest) ==
    [row |-> row, name |-> name, spend |-> spend, conversions |-> conversions,
     orders |-> orders, unresolved |-> unresolved, matched |-> rest[1], confirmed |-> rest[2],
     shipped |-> rest[3], delivered |-> rest[4], returned |-> rest[5]]
Source(rows, metrics, status) == [rows |-> rows, metrics |-> metrics, statuses |-> status]
Fx == {"FX_REQUIRED", "NATIVE"}
Normal == [m \in PilotAnomalyMetrics |-> "NORMAL"]
Some == [m \in {"daily_target_spend", "delivered_order_volume"} |->
           IF m = "daily_target_spend" THEN "ANOMALY" ELSE "NORMAL"]

\* A weak campaign that takes most of the spend, with an identity gap, without one,
\* and with one of exactly a tenth of the orders of the business beside Good; a
\* costly campaign that is better downstream; small samples; one campaign with no
\* peers and no spend; two rows of one name; no rows.
Weak == Row("r1", "alpha", 600, 300, 200, 40, <<160, 120, 110, 40, 60>>)
Edge == Row("r1", "alpha", 600, 300, 200, 25, <<175, 120, 110, 40, 60>>)
Clean == Row("r1", "alpha", 600, 300, 200, 0, <<200, 120, 110, 40, 60>>)
Good == Row("r2", "beta", 200, 120, 100, 5, <<95, 90, 80, 70, 8>>)
Costly == Row("r3", "gamma", 900, 110, 100, 2, <<98, 97, 96, 94, 1>>)
Small == Row("r2", "beta", 90, 20, 14, 1, <<13, 9, 8, 5, 3>>)
snapshots ==
    {Source({}, [m \in {} |-> "NORMAL"], {}), Source({Edge, Good}, Normal, Fx),
     Source({Clean, Good}, Normal, {"NATIVE"}), Source({Weak, Good, Costly}, Some, {"NATIVE", "MIXED"}),
     Source({Clean, Small}, Some, Fx),
     Source({[Weak EXCEPT !.spend = None, !.conversions = 100]}, Some, Fx),
     Source({Weak, [Good EXCEPT !.name = "alpha"]}, Normal, Fx),
     Source({Weak, [Good EXCEPT !.name = "19-11-2025-07"]}, Normal, Fx)}

Contribution == [NoQuestion EXCEPT !.economic = TRUE]
requests ==
    {ListOf(kind) : kind \in {"decision", "requirement"}}
    \cup {Detail("plan", <<FULFILLMENT, "alpha">>),
          Ask("opportunity", <<EFFICIENCY, "gamma">>, NoQuestion),
          Ask("opportunity", <<FULFILLMENT, "alpha">>, Contribution),
          Ask("task", <<MEASUREMENT, Business, "reconcile-platform-semantics">>, NoQuestion),
          Ask("decision", <<CONFIRMATION, Business, "second">>, NoQuestion),
          Ask("requirement", <<"campaign_offer_mix">>, NoQuestion),
          Ask("step", <<FULFILLMENT, "alpha", "compare-offer-mix">>, NoQuestion),
          [Ask("decision", <<>>, NoQuestion) EXCEPT !.valid = FALSE]}
    \cup {Ask("narration", <<>>, [intent |-> i, economic |-> i = "PROFIT", names |-> {"beta"}]) :
            i \in {"PROFIT", "ANOMALY_TODAY", "CAMPAIGN_PAUSE", "RETURNS_REASON", "CAMPAIGNS"}}
    \cup {Ask("narration", <<>>, Contribution)}
=============================================================================
