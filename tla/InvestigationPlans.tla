------------------------- MODULE InvestigationPlans -------------------------
(***************************************************************************)
(* The investigation plan of an opportunity and the portfolio of plans     *)
(* (src/intelligence/investigations.py, investigation_models.py).  A plan  *)
(* lists the tasks its registry selects for the opportunity's type; what a *)
(* task requires is looked up in the context and makes it ready or not.    *)
(***************************************************************************)
EXTENDS OpportunityRules

\* A group of selectors is met by an item of one of the types, with one of the
\* keys if there are any, of the opportunity's scope, among its references.
Group(types, keys) == [types |-> types, keys |-> keys, scoped |-> FALSE, cited |-> FALSE]
Scoped(group) == [group EXCEPT !.scoped = TRUE]
Cited(group) == [group EXCEPT !.cited = TRUE]

\* No query yields an item with an evidence_dimension.
Dimension == Group({"DIMENSION"}, {})
OwnDiagnostics == Scoped(Group({"CAMPAIGN_DIAGNOSTIC"}, {}))

REQUIREMENT_REGISTRY ==
    [confirmation_gap_baseline |-> <<Group({"LEAKAGE"}, {"MATCHED_NOT_CONFIRMED"}),
                                     Group({"SIGNAL"}, {"CONFIRMATION_LEAKAGE"})>>,
     identity_coverage |-> <<Cited(Group({"LEAKAGE", "SIGNAL"},
                                         {"IDENTITY_UNRESOLVED", "IDENTITY_RESOLUTION_GAP"}))>>,
     confirmation_dispositions |-> <<Dimension>>,
     campaign_offer_mix |-> <<Scoped(Dimension)>>,
     upstream_order_cohorts |-> <<Dimension>>,
     campaign_downstream_peer_evidence |-> <<OwnDiagnostics, Scoped(Group({"SIGNAL"},
        {"CAMPAIGN_DELIVERY_GAP", "CAMPAIGN_RETURN_PRESSURE"}))>>,
     adgroup_downstream_cohorts |-> <<Scoped(Dimension)>>,
     platform_observed_gap |-> <<Group({"LEAKAGE"}, {"PLATFORM_VS_OBSERVED"})>>,
     platform_event_definition |-> <<Dimension>>,
     lightfunnels_inclusion_rules |-> <<Dimension>>,
     acquisition_cost_peer_evidence |->
        <<OwnDiagnostics, Scoped(Group({"SIGNAL"}, {"CAMPAIGN_ACQUISITION_COST_GAP"}))>>,
     campaign_downstream_outcomes |-> <<OwnDiagnostics>>,
     below_campaign_acquisition_cohorts |-> <<Scoped(Dimension)>>]

TaskSpec(key, requirements) == [key |-> key, requirements |-> requirements]

\* The tasks of each plan in order; those that assess the identity coverage are
\* there only for an opportunity that cites identity evidence.
PLAN_REGISTRY ==
    [type \in Range(RULE_REGISTRY) |->
       CASE type = CONFIRMATION ->
              <<TaskSpec("validate-confirmation-baseline", {"confirmation_gap_baseline"}),
                TaskSpec("assess-identity-coverage", {"identity_coverage"}),
                TaskSpec("segment-confirmation-dispositions", {"confirmation_dispositions"}),
                TaskSpec("compare-offer-upstream-cohorts",
                         {"campaign_offer_mix", "upstream_order_cohorts"})>>
         [] type = FULFILLMENT ->
              <<TaskSpec("validate-peer-pattern", {"campaign_downstream_peer_evidence"}),
                TaskSpec("assess-linkage-coverage", {"identity_coverage"}),
                TaskSpec("compare-offer-mix", {"campaign_offer_mix"}),
                TaskSpec("compare-adgroup-cohorts", {"adgroup_downstream_cohorts"})>>
         [] type = MEASUREMENT ->
              <<TaskSpec("validate-measurement-gap", {"platform_observed_gap"}),
                TaskSpec("reconcile-platform-semantics", {"platform_event_definition"}),
                TaskSpec("reconcile-observed-inclusion", {"lightfunnels_inclusion_rules"})>>
         [] type = EFFICIENCY ->
              <<TaskSpec("validate-cost-gap", {"acquisition_cost_peer_evidence"}),
                TaskSpec("compare-downstream-evidence", {"campaign_downstream_outcomes"}),
                TaskSpec("collect-below-campaign-cohorts",
                         {"below_campaign_acquisition_cohorts"})>>]

-----------------------------------------------------------------------------
(* Requirements and tasks.                                                  *)

OpportunityRefs(o) == o.support \cup o.counter \cup o.blocking

Matches(id, group, o) ==
    /\ id[1] \in group.types
    /\ group.keys # {} => id[2] \in group.keys
    /\ group.scoped => id[3] = o.scope
    /\ group.cited => id \in OpportunityRefs(o)

\* No requirement of a plan names an economic status that blocks it.
ResolveRequirement(name, o, c) ==
    LET found == [i \in DOMAIN REQUIREMENT_REGISTRY[name] |->
                    {id \in Evidence(c) : Matches(id, REQUIREMENT_REGISTRY[name][i], o)}]
        met == {i \in DOMAIN found : found[i] # {}}
    IN  [name |-> name, refs |-> UNION {found[i] : i \in DOMAIN found},
         status |-> IF met = DOMAIN found THEN "AVAILABLE"
                    ELSE IF met # {} THEN "PARTIAL" ELSE "MISSING_FROM_CONTEXT"]

DeriveTaskReadiness(statuses) ==
    CASE "MISSING_FROM_CONTEXT" \in statuses -> "BLOCKED_MISSING_EVIDENCE"
      [] "PARTIAL" \in statuses /\ "MISSING_FROM_CONTEXT" \notin statuses -> "PARTIALLY_READY"
      [] OTHER -> "READY_NOW"

ReadinessOrder == [READY_NOW |-> 0, PARTIALLY_READY |-> 1, BLOCKED_MISSING_EVIDENCE |-> 2]

\* The places in the registry of the tasks that are selected.
SelectedTaskSpecs(o, c) ==
    {i \in DOMAIN PLAN_REGISTRY[o.type] :
        "identity_coverage" \in PLAN_REGISTRY[o.type][i].requirements =>
            ResolveRequirement("identity_coverage", o, c).status # "MISSING_FROM_CONTEXT"}

-----------------------------------------------------------------------------
(* Plans.                                                                   *)

\* The first task that can begin, else the first that can begin in part.
RecommendedTask(tasks) ==
    LET Of(readiness) == {i \in DOMAIN tasks : tasks[i].readiness = readiness}
    IN  IF Of("READY_NOW") # {} THEN tasks[Min(Of("READY_NOW"))].id
        ELSE IF Of("PARTIALLY_READY") # {} THEN tasks[Min(Of("PARTIALLY_READY"))].id ELSE <<>>

PlanStatus(tasks) ==
    LET all == {tasks[i].readiness : i \in DOMAIN tasks} IN
    IF all = {"READY_NOW"} THEN "READY"
    ELSE IF all \cap {"READY_NOW", "PARTIALLY_READY"} # {} THEN "PARTIAL" ELSE "BLOCKED"

\* The tasks, by readiness and then as registered.
BuildTask(o, spec, required) ==
    [id |-> <<o.type, o.scope, spec.key>>, requirements |-> spec.requirements,
     missing |-> {r.name : r \in {r \in required : r.status # "AVAILABLE"}},
     refs |-> UNION {r.refs : r \in required},
     readiness |-> DeriveTaskReadiness({r.status : r \in required})]

BuildTasks(o, selected, requirements) ==
    LET spec == PLAN_REGISTRY[o.type]
        task == [i \in selected |-> BuildTask(o, spec[i],
                    {r \in requirements : r.name \in spec[i].requirements})]
        order == Ranked(selected, [i \in selected |-> <<ReadinessOrder[task[i].readiness], i>>])
    IN  [k \in DOMAIN order |-> task[order[k]]]

PlanOf(o, requirements, tasks) ==
    [opportunity |-> OpportunityId(o), priority |-> o.priority, tasks |-> tasks,
     requirements |-> requirements, status |-> PlanStatus(tasks),
     recommended |-> RecommendedTask(tasks),
     unresolved |-> {r.name : r \in {r \in requirements : r.status # "AVAILABLE"}}]

\* _build_investigation_plan
PlanWith(o, c, selected) ==
    LET requirements == {ResolveRequirement(n, o, c) :
                n \in UNION {PLAN_REGISTRY[o.type][i].requirements : i \in selected}}
    IN  PlanOf(o, requirements, BuildTasks(o, selected, requirements))
BuildPlan(o, c) == PlanWith(o, c, SelectedTaskSpecs(o, c))

\* The strict models: what is available cites evidence and what is missing does
\* not, a task misses only what it requires, and a plan has tasks.
IsRequirement(r) ==
    /\ r.status = "AVAILABLE" => r.refs # {}
    /\ r.status = "MISSING_FROM_CONTEXT" => r.refs = {}
IsTask(t) == t.requirements # {} /\ t.missing \subseteq t.requirements
IsPlanModel(p) ==
    /\ p.tasks # <<>> /\ \A t \in Range(p.tasks) : IsTask(t)
    /\ p.requirements # {} /\ \A r \in p.requirements : IsRequirement(r)

\* validate_investigation_plan: the plan is its opportunity's, in the order of
\* readiness, and what it requires is what the context holds now.
IsPlan(p, o, c) ==
    /\ IsOpportunity(c, o) /\ IsPlanModel(p)
    /\ p.opportunity = OpportunityId(o) /\ p.priority = o.priority
    /\ Cardinality({t.id : t \in Range(p.tasks)}) = Len(p.tasks)
    /\ \A i, j \in DOMAIN p.tasks : i < j =>
          ReadinessOrder[p.tasks[i].readiness] <= ReadinessOrder[p.tasks[j].readiness]
    /\ \A r \in p.requirements : /\ r = ResolveRequirement(r.name, o, c)
                                 /\ r.refs \subseteq Evidence(c)
    /\ \A t \in Range(p.tasks) : LET required == {r \in p.requirements : r.name \in t.requirements} IN
          /\ Cardinality(required) = Cardinality(t.requirements)
          /\ t.readiness = DeriveTaskReadiness({r.status : r \in required})
          /\ t.refs = UNION {r.refs : r \in required}
    /\ p.status = PlanStatus(p.tasks) /\ p.recommended = RecommendedTask(p.tasks)

-----------------------------------------------------------------------------
(* The portfolio, a plan per opportunity in the opportunities' order.       *)

AllTasks(plans) == FlattenSeq([i \in DOMAIN plans |-> plans[i].tasks])

\* Each requirement some plan finds missing, with the plans and tasks it holds up.
AggregateGaps(plans) ==
    LET Missing(i) == {r.name : r \in {r \in plans[i].requirements :
                                          r.status = "MISSING_FROM_CONTEXT"}}
        Of(n) == {i \in DOMAIN plans : n \in Missing(i)}
    IN  {[requirement |-> n, opportunities |-> {plans[i].opportunity : i \in Of(n)},
          tasks |-> {t.id : t \in {t \in UNION {Range(plans[i].tasks) : i \in Of(n)} :
                                      n \in t.requirements}}] :
            n \in UNION {Missing(i) : i \in DOMAIN plans}}

IsGap(gap) == gap.opportunities # {} /\ gap.tasks # {}

\* The plans of the portfolio, sorted by priority, then by the opportunities' order.
BuildPlans(opportunities, c) ==
    LET order == Ranked(DOMAIN opportunities,
                        [i \in DOMAIN opportunities |-> <<opportunities[i].priority, i>>])
    IN  [i \in DOMAIN opportunities |-> BuildPlan(opportunities[order[i]], c)]

\* validate_investigation_portfolio, after the validation of each plan.
IsPlanPortfolio(plans, opportunities, c) ==
    /\ [i \in DOMAIN plans |-> plans[i].opportunity]
         = [i \in DOMAIN opportunities |-> OpportunityId(opportunities[i])]
    /\ \A i \in DOMAIN plans : IsPlan(plans[i], opportunities[i], c)
    /\ \A gap \in AggregateGaps(plans) : IsGap(gap)
=============================================================================
