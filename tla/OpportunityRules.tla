-------------------------- MODULE OpportunityRules --------------------------
(***************************************************************************)
(* The investigation opportunities of a context                            *)
(* (src/intelligence/opportunities.py and opportunity_models.py): four     *)
(* rules, each of which answers for every scope it applies to with a       *)
(* candidate or with the reason it offers none, the blockers that lower a  *)
(* candidate, the validation that fails the whole evaluation closed, and   *)
(* the ranking.                                                            *)
(***************************************************************************)
EXTENDS EvidenceContext

CONSTANTS CampaignNames,  \* the names of campaigns, in the order of the letters
          PhoneShaped     \* those the text checks take for a phone number
ASSUME NamesAssumption ==
    /\ CampaignNames \in Seq(Range(CampaignNames))
    /\ \A i, j \in DOMAIN CampaignNames : CampaignNames[i] = CampaignNames[j] => i = j
    /\ Business \notin PhoneShaped

FULFILLMENT == "ACQUISITION_FULFILLMENT_MISALIGNMENT"
CONFIRMATION == "CONFIRMATION_LEAKAGE"
MEASUREMENT == "MEASUREMENT_RECONCILIATION"
EFFICIENCY == "ACQUISITION_EFFICIENCY_REVIEW"

\* In the order of RULE_REGISTRY, which breaks ties of priority.
RULE_REGISTRY == <<FULFILLMENT, CONFIRMATION, MEASUREMENT, EFFICIENCY>>
RuleOrder(type) == CHOOSE i \in DOMAIN RULE_REGISTRY : RULE_REGISTRY[i] = type

SignalItems(c, type, scope) == {s \in c.signals : s.type = type /\ s.scope = scope}
LeakageItem(c, stage) == {l \in c.leakage : l.stage = stage}
Ids(signals) == {SignalId(s) : s \in signals}
NormalAnomalyRefs(c, metrics) == {AnomalyId(m) : m \in {m \in metrics : c.anomalies[m] = "NORMAL"}}

Lower(band) == IF band = LOW THEN LOW ELSE band + 1

\* Tuples compare by the first component in which they differ.
LexLess(a, b) ==
    LET at == {i \in DOMAIN a : a[i] # b[i]} IN at # {} /\ a[Min(at)] < b[Min(at)]

\* sorted(S, key=key): the elements of a set in the order of their keys, tuples of
\* integers that differ for different elements.
Ranked(S, key) ==
    LET place == [x \in S |-> 1 + Cardinality({y \in S : LexLess(key[y], key[x])})]
    IN  [i \in 1 .. Cardinality(S) |-> CHOOSE x \in S : place[x] = i]

-----------------------------------------------------------------------------
(* Blockers.                                                                *)

BlockerKind(id) ==
    CASE id[2] \in {"IDENTITY_UNRESOLVED", "IDENTITY_RESOLUTION_GAP"} -> "IDENTITY_RESOLUTION"
      [] id[2] \in {"PLATFORM_VS_OBSERVED", "PLATFORM_OBSERVED_GAP"} -> "PLATFORM_VS_OBSERVED"
      [] id[2] = "FX_REQUIRED" -> "FX_REQUIRED"
      [] OTHER -> "NONE"

\* Plausible fault: a stage whose rate is exactly the threshold does not count.
MaterialAbove(c, stage, rate) ==
    {l \in LeakageItem(c, stage) :
       Rate(l.observed, l.denominator) # None /\ Rate(l.observed, l.denominator) > rate}

Material(c, stage, rate) ==
    {l \in LeakageItem(c, stage) :
       Rate(l.observed, l.denominator) # None /\ Rate(l.observed, l.denominator) >= rate}

\* The leakage row speaks for the identity when there is one, the signal otherwise.
KnownBlockers(c) ==
    {LeakageId(l) : l \in Material(c, "IDENTITY_UNRESOLVED", 100)
                          \cup Material(c, "PLATFORM_VS_OBSERVED", 50)}
    \cup {id \in {EconomicsId(c)} : BlockerKind(id) # "NONE"}
    \cup IF LeakageItem(c, "IDENTITY_UNRESOLVED") = {}
         THEN Ids(SignalItems(c, "IDENTITY_RESOLUTION_GAP", Business)) ELSE {}

\* The quality of the confirmation's denominator is never a fact of a context,
\* so that its default counts: matched orders are resolved orders.
ClassifyBlockerRelevance(type, id) ==
    CASE BlockerKind(id) # "IDENTITY_RESOLUTION" -> "IRRELEVANT"
      [] type = FULFILLMENT -> "SCORING"
      [] type = CONFIRMATION -> "CONTEXTUAL"
      [] OTHER -> "IRRELEVANT"

AssessBlockers(type, c, support) ==
    LET attached == {b \in KnownBlockers(c) \ support :
                       ClassifyBlockerRelevance(type, b) # "IRRELEVANT"}
    IN  [attached |-> attached,
         scoring |-> {b \in attached : ClassifyBlockerRelevance(type, b) = "SCORING"}]

-----------------------------------------------------------------------------
(* The rules.  The first check of a rule that applies gives the reason it   *)
(* offers nothing; its refs are those of the suppressed record.             *)

Check(applies, reason, refs) == [applies |-> applies, reason |-> reason, refs |-> refs]
FirstOf(checks) == checks[Min({i \in DOMAIN checks : checks[i].applies})]

\* What a rule makes of a scope: the offer, unless a check stands against it.
Outcome(type, scope, checks, offer) ==
    IF \E i \in DOMAIN checks : checks[i].applies
    THEN [type |-> type, scope |-> scope, offered |-> FALSE,
          reason |-> FirstOf(checks).reason, refs |-> FirstOf(checks).refs]
    ELSE [offer EXCEPT !.type = type, !.scope = scope]

Offer(priority, confidence, support, counter, blocking, impact) ==
    [type |-> "", scope |-> "", offered |-> TRUE, priority |-> priority,
     confidence |-> confidence, support |-> support, counter |-> counter,
     blocking |-> blocking, impact |-> impact]

BetterThanPeers(d) ==
    {outcome \in {"delivery", "return"} :
        IF outcome = "delivery" THEN AtLeast(d.delivery, d.peerDelivery, 100)
        ELSE AtLeast(d.peerReturn, d.return, 100)}

\* _candidate_acquisition_fulfillment
Fulfillment(c, d) ==
    LET spends == {x.spend : x \in c.campaigns}
        total == Total(c.campaigns, "spend")
        share == Rate(d.spend, total)
        all == {CampaignId(x) : x \in c.campaigns}
        delivery == SignalItems(c, "CAMPAIGN_DELIVERY_GAP", d.name)
        returns == SignalItems(c, "CAMPAIGN_RETURN_PRESSURE", d.name)
        weak == Ids(delivery \cup returns)
        base == {CampaignId(d)} \cup weak
        certain == d.fulfillmentBand = HIGH /\ delivery # {} /\ returns # {}
        support == all \cup weak \cup
            NormalAnomalyRefs(c, {"delivered_order_volume", "returned_order_volume"})
        blockers == AssessBlockers(FULFILLMENT, c, support)
        Scored(band) == IF blockers.scoring = {} THEN band ELSE Lower(band)
    IN  Outcome(FULFILLMENT, d.name,
          <<Check(None \in spends \/ total = 0, "MISSING_REQUIRED_DOMAIN", base),
            Check(weak = {} /\ None \in {d.delivery, d.peerDelivery, d.return, d.peerReturn},
                  "MISSING_REQUIRED_DOMAIN", {CampaignId(d)}),
            Check(weak = {} /\ BetterThanPeers(d) # {}, "CONTRADICTORY_EVIDENCE", {CampaignId(d)}),
            Check(weak = {}, "INSUFFICIENT_MATERIALITY", {CampaignId(d)}),
            Check(d.fulfillmentBand = LOW, "INSUFFICIENT_SAMPLE", base),
            Check(share < 200, "INSUFFICIENT_MATERIALITY", all \cup weak)>>,
          Offer(Scored(IF share >= 350 /\ certain THEN HIGH ELSE MEDIUM),
                Scored(IF certain THEN HIGH ELSE MEDIUM),
                support, {}, blockers.attached,
                Max({s.impact : s \in delivery \cup returns})))

\* The checks the two rules about a leakage stage share.
StageChecks(item, refs) ==
    LET l == CHOOSE l \in item : TRUE
        rate == Rate(l.observed, l.denominator)
    IN  <<Check(item = {}, "MISSING_REQUIRED_DOMAIN", {}),
          Check(item # {} /\ l.denominator < 30, "INSUFFICIENT_SAMPLE", refs),
          Check(item # {} /\ (l.observed < 10 \/ rate < 50), "INSUFFICIENT_MATERIALITY", refs)>>

\* _candidate_confirmation
Confirmation(c) ==
    LET item == LeakageItem(c, "MATCHED_NOT_CONFIRMED")
        l == CHOOSE l \in item : TRUE
        refs == {LeakageId(x) : x \in item}
        signal == SignalItems(c, "CONFIRMATION_LEAKAGE", Business)
        support == refs \cup Ids(signal) \cup NormalAnomalyRefs(c, {"confirmed_order_volume"})
        blockers == AssessBlockers(CONFIRMATION, c, support)
        Scored(band) == IF blockers.scoring = {} THEN band ELSE Lower(band)
    IN  Outcome(CONFIRMATION, Business,
          StageChecks(item, refs) \o <<Check(signal = {}, "MISSING_REQUIRED_DOMAIN", refs)>>,
          Offer(Scored(IF l.observed >= 100 THEN HIGH
                       ELSE IF l.observed >= 25 \/ Rate(l.observed, l.denominator) >= 200
                            THEN MEDIUM ELSE LOW),
                Scored(SampleBand(l.denominator)),
                support, {}, blockers.attached, l.observed))

\* _candidate_measurement: the stage is a measurement gap by its definition.
Measurement(c) ==
    LET item == LeakageItem(c, "PLATFORM_VS_OBSERVED")
        l == CHOOSE l \in item : TRUE
        refs == {LeakageId(x) : x \in item}
    IN  Outcome(MEASUREMENT, Business, StageChecks(item, refs),
          Offer(LOW, SampleBand(l.denominator),
                refs \cup Ids(SignalItems(c, "PLATFORM_OBSERVED_GAP", Business)),
                {}, {}, l.observed))

\* _candidate_acquisition_efficiency
Efficiency(c, d) ==
    LET signal == SignalItems(c, "CAMPAIGN_ACQUISITION_COST_GAP", d.name)
        gap == CHOOSE s \in signal : TRUE
        own == {CampaignId(d)}
        better == BetterThanPeers(d)
        certain == IF d.acquisitionBand = HIGH THEN HIGH ELSE MEDIUM
        blockers == AssessBlockers(EFFICIENCY, c, Ids(signal))
    IN  Outcome(EFFICIENCY, d.name,
          <<Check(d.cost = None \/ d.peerCost = None \/ d.peerCost <= 0,
                  "MISSING_REQUIRED_DOMAIN", own \cup Ids(signal)),
            Check(100 * d.cost < 125 * d.peerCost, "INSUFFICIENT_MATERIALITY", own),
            Check(d.acquisitionBand = LOW, "INSUFFICIENT_SAMPLE", own),
            Check(signal = {}, "MISSING_REQUIRED_DOMAIN", own),
            Check(Cardinality(better) = 2, "CONTRADICTORY_EVIDENCE", own \cup Ids(signal))>>,
          Offer(IF better = {} /\ certain = HIGH /\ gap.relative >= 500 THEN MEDIUM ELSE LOW,
                IF better = {} THEN certain ELSE Lower(certain),
                Ids(signal), IF better = {} THEN {} ELSE own, blockers.attached, gap.impact))

Outcomes(c) ==
    {Fulfillment(c, d) : d \in c.campaigns} \cup {Confirmation(c), Measurement(c)}
    \cup {Efficiency(c, d) : d \in c.campaigns}

-----------------------------------------------------------------------------
(* The evaluation.                                                          *)

\* The facts of an item a quoted impact can be traced to.
Figures(c, id) ==
    {s.impact : s \in {s \in c.signals : SignalId(s) = id}}
    \cup {l.observed : l \in {l \in c.leakage : LeakageId(l) = id}}

ImpactIsTraceable(c, o) == \E id \in o.support : o.impact \in Figures(c, id)

\* InvestigationOpportunity: disjoint buckets of evidence, some of it in support.
IsOpportunityModel(o) ==
    /\ o.support # {} /\ o.impact >= 0
    /\ o.support \cap o.counter = {} /\ o.support \cap o.blocking = {}
    /\ o.counter \cap o.blocking = {}

\* validate_opportunity: a scope may be named like a phone number, which every
\* text that holds the name is then refused for.
IsOpportunity(c, o) ==
    /\ IsOpportunityModel(o) /\ o.scope \notin PhoneShaped
    /\ o.support \cup o.counter \cup o.blocking \subseteq Evidence(c)
    /\ ImpactIsTraceable(c, o)

\* validate_suppressed
IsSuppressed(c, o) == o.refs \subseteq Evidence(c) /\ o.scope \notin PhoneShaped

ValidOpportunities(outcomes, c) ==
    \A o \in outcomes : IF o.offered THEN IsOpportunity(c, o) ELSE IsSuppressed(c, o)

NameOrder(scope) ==
    IF scope = Business THEN 0
    ELSE CHOOSE i \in DOMAIN CampaignNames : CampaignNames[i] = scope

\* Plausible fault: the order of the rules comes before the priority.
SortKeyByRule(o) == <<RuleOrder(o.type), o.priority, -o.impact, NameOrder(o.scope)>>

\* The sort key of the candidates.
SortKey(o) == <<o.priority, RuleOrder(o.type), -o.impact, NameOrder(o.scope)>>

\* evaluate_opportunities
Opportunities(outcomes) ==
    LET offered == {o \in outcomes : o.offered}
    IN  Ranked(offered, [o \in offered |-> SortKey(o)])
OpportunityId(o) == <<o.type, o.scope>>
=============================================================================
