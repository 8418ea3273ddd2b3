---------------------------- MODULE DecisionChain ----------------------------
(***************************************************************************)
(* From plans to decisions and to the order of the work                    *)
(* (src/intelligence/decisions.py, decision_models.py, sequencing.py and   *)
(* sequencing_models.py): whether the evidence lets a human review each    *)
(* decision an opportunity raises, which missing evidence weighs on most   *)
(* decisions, and which task to begin with.  Chain is the whole product of *)
(* a context with the first layer that rejects it, if one does.            *)
(***************************************************************************)
EXTENDS InvestigationPlans

\* A frame: the requirements and tasks it rests on, and whether counter-evidence
\* and blocking evidence keep it from being ready.  Counter-evidence may also be
\* allowed when disclosed, blockers as context.
Frame(requirements, tasks, counterPrevents, blockerPrevents) ==
    [requirements |-> requirements, tasks |-> tasks,
     counterPrevents |-> counterPrevents, blockerPrevents |-> blockerPrevents]

\* Every frame requires a task that can begin; none requires trusted economics.
DECISION_FRAME_REGISTRY ==
    [type \in Range(RULE_REGISTRY) |->
       CASE type = CONFIRMATION ->
              <<Frame(<<"confirmation_gap_baseline">>, {"validate-confirmation-baseline"}, TRUE, FALSE),
                Frame(<<"confirmation_gap_baseline", "confirmation_dispositions",
                        "campaign_offer_mix", "upstream_order_cohorts">>,
                      {"validate-confirmation-baseline", "segment-confirmation-dispositions",
                       "compare-offer-upstream-cohorts"}, TRUE, TRUE)>>
         [] type = FULFILLMENT ->
              [i \in 1 .. 2 |->
                Frame(<<"campaign_downstream_peer_evidence", "campaign_offer_mix",
                        "adgroup_downstream_cohorts">>,
                      {"validate-peer-pattern", "compare-offer-mix", "compare-adgroup-cohorts"},
                      i = 2, TRUE)]
         [] type = MEASUREMENT ->
              <<Frame(<<"platform_observed_gap">>, {"validate-measurement-gap"}, FALSE, FALSE),
                Frame(<<"platform_observed_gap", "platform_event_definition",
                        "lightfunnels_inclusion_rules">>,
                      {"validate-measurement-gap", "reconcile-platform-semantics",
                       "reconcile-observed-inclusion"}, TRUE, TRUE)>>
         [] type = EFFICIENCY ->
              <<Frame(<<"acquisition_cost_peer_evidence", "campaign_downstream_outcomes">>,
                      {"validate-cost-gap", "compare-downstream-evidence"}, FALSE, FALSE),
                Frame(<<"acquisition_cost_peer_evidence", "campaign_downstream_outcomes",
                        "below_campaign_acquisition_cohorts">>,
                      {"validate-cost-gap", "compare-downstream-evidence",
                       "collect-below-campaign-cohorts"}, TRUE, TRUE)>>]

FrameOrders == <<"first", "second">>
RequirementOf(plan, name) == CHOOSE r \in plan.requirements : r.name = name

\* Plausible fault: tasks that cannot begin are left out.
RelevantTasksThatBegin(plan, frame) ==
    {t \in Range(plan.tasks) : t.id[3] \in frame.tasks /\ t.readiness = "READY_NOW"}

RelevantTasks(plan, frame) == {t \in Range(plan.tasks) : t.id[3] \in frame.tasks}
TaskIds(tasks) == {t.id : t \in tasks}

\* A frame whose requirements or tasks its plan does not have is an error.
FrameResolves(plan, frame) ==
    /\ Range(frame.requirements) \subseteq {r.name : r \in plan.requirements}
    /\ frame.tasks \subseteq {t.id[3] : t \in Range(plan.tasks)}

\* The elements of a sequence at some of its places, in their order.
At(seq, places) ==
    FlattenSeq([i \in DOMAIN seq |-> IF i \in places THEN <<seq[i]>> ELSE <<>>])

Readiness(o, frame, unresolved, relevant) ==
    LET startable == \E t \in relevant : t.readiness = "READY_NOW" IN
    IF unresolved # <<>> \/ ~startable
       \/ (frame.counterPrevents /\ o.counter # {})
       \/ (frame.blockerPrevents /\ o.blocking # {})
    THEN "NEEDS_MORE_EVIDENCE" ELSE "READY_FOR_HUMAN_REVIEW"

\* Plausible fault: only what the opportunity cites supports the decision.
SupportOfOpportunity(o, required) == o.support \ (o.counter \cup o.blocking)

\* What supports a decision: evidence of the opportunity and of what it requires.
Support(o, required) ==
    (o.support \cup UNION {r.refs : r \in required}) \ (o.counter \cup o.blocking)

\* _components and assess_decision_frame.  BLOCKED_BY_BOUNDARY needs a frame or
\* a requirement with an economic boundary, which no registered one has.
Assess(o, plan, i) ==
    LET frame == DECISION_FRAME_REGISTRY[o.type][i]
        required == {RequirementOf(plan, n) : n \in Range(frame.requirements)}
        unresolved == At(frame.requirements, {k \in DOMAIN frame.requirements :
                          RequirementOf(plan, frame.requirements[k]).status # "AVAILABLE"})
        relevant == RelevantTasks(plan, frame)
        readiness == Readiness(o, frame, unresolved, relevant)
        adding == {t \in relevant : t.requirements \cap Range(unresolved) # {}}
        next == IF readiness # "READY_FOR_HUMAN_REVIEW" /\ adding = {} THEN relevant ELSE adding
    IN  [id |-> <<o.type, o.scope, FrameOrders[i]>>, opportunity |-> OpportunityId(o),
         readiness |-> readiness, unresolved |-> unresolved,
         required |-> Range(frame.requirements), relevant |-> TaskIds(relevant),
         next |-> TaskIds(next),
         support |-> Support(o, required), counter |-> o.counter, blocking |-> o.blocking]

\* DecisionReadinessAssessment: disjoint buckets, some support, tasks to look at.
IsAssessmentModel(a) ==
    /\ a.support # {} /\ a.required # {} /\ a.relevant # {}
    /\ a.support \cap a.counter = {} /\ a.support \cap a.blocking = {}
    /\ a.counter \cap a.blocking = {}
    /\ Range(a.unresolved) \subseteq a.required /\ a.next \subseteq a.relevant

\* validate_decision_assessment, but for what repeats the derivation.
IsAssessment(a, o, plan, c) ==
    /\ IsAssessmentModel(a)
    /\ a.opportunity = OpportunityId(o) /\ plan.opportunity = OpportunityId(o)
    /\ a.support \cup a.counter \cup a.blocking \subseteq Evidence(c)
    /\ a.relevant \subseteq TaskIds(Range(plan.tasks))
    /\ a.readiness = "READY_FOR_HUMAN_REVIEW" => a.unresolved = <<>>

\* Every frame of every opportunity, in the opportunities' order.
BuildDecisions(opportunities, plans) ==
    FlattenSeq([i \in DOMAIN opportunities |->
        [f \in DOMAIN DECISION_FRAME_REGISTRY[opportunities[i].type] |->
            Assess(opportunities[i], plans[i], f)]])

\* Every frame resolves, and validate_decision_readiness_portfolio: every frame
\* once, each valid.
IsDecisionPortfolio(decisions, opportunities, plans, c) ==
    LET frames == [i \in DOMAIN opportunities |-> DECISION_FRAME_REGISTRY[opportunities[i].type]]
    IN  /\ \A i \in DOMAIN opportunities : \A frame \in Range(frames[i]) :
              FrameResolves(plans[i], frame)
        /\ Len(decisions) = Len(FlattenSeq(frames))
        /\ Cardinality({d.id : d \in Range(decisions)}) = Len(decisions)
        /\ \A d \in Range(decisions) : \E i \in DOMAIN opportunities :
              IsAssessment(d, opportunities[i], plans[i], c)

-----------------------------------------------------------------------------
(* Sequencing.                                                              *)

\* _validate_source_graph: ids of each layer are unique, every decision and task
\* has its plan, and one requirement has one status in all plans.
IsSourceGraph(opportunities, plans, decisions) ==
    LET tasks == AllTasks(plans)
        requirements == UNION {plans[i].requirements : i \in DOMAIN plans}
        StatusOf(n) == {r.status : r \in {r \in requirements : r.name = n}}
    IN  /\ [i \in DOMAIN plans |-> plans[i].opportunity]
             = [i \in DOMAIN opportunities |-> OpportunityId(opportunities[i])]
        /\ Cardinality({OpportunityId(o) : o \in Range(opportunities)}) = Len(opportunities)
        /\ Cardinality(TaskIds(Range(tasks))) = Len(tasks)
        /\ Cardinality({d.id : d \in Range(decisions)}) = Len(decisions)
        /\ \A n \in {r.name : r \in requirements} : Cardinality(StatusOf(n)) = 1
        /\ \A d \in Range(decisions) : \E i \in DOMAIN plans :
              /\ plans[i].opportunity = d.opportunity
              /\ d.relevant \subseteq TaskIds(Range(plans[i].tasks))
              /\ d.required \subseteq {r.name : r \in plans[i].requirements}

Targeted(decisions) == {d \in Range(decisions) : d.readiness = "NEEDS_MORE_EVIDENCE"}

OrderOf(opportunities, id) ==
    Min({i \in DOMAIN opportunities : OpportunityId(opportunities[i]) = id})

\* The unresolved requirements of the decisions that need evidence, in the order
\* in which they appear.
Asked(decisions) ==
    FlattenSeq([i \in DOMAIN decisions |->
        IF decisions[i] \in Targeted(decisions) THEN decisions[i].unresolved ELSE <<>>])

\* _derive_portfolio, the focuses: for each unresolved requirement, the decisions
\* that wait for it and the tasks that could produce it.
LeverageItems(opportunities, plans, decisions) ==
    LET asked == Asked(decisions)
        open == [n \in Range(asked) |-> {d \in Targeted(decisions) : n \in Range(d.unresolved)}]
        from == [n \in Range(asked) |-> {d.opportunity : d \in open[n]}]
        rank == [n \in Range(asked) |->
                   <<-Cardinality(open[n]),
                     Min({opportunities[OrderOf(opportunities, id)].priority : id \in from[n]}),
                     -Cardinality(from[n]), Min({i \in DOMAIN asked : asked[i] = n})>>]
        order == Ranked(Range(asked), rank)
    IN  [k \in DOMAIN order |-> LET n == order[k] IN
            [requirement |-> n, decisions |-> {d.id : d \in open[n]}, opportunities |-> from[n],
             tasks |-> {t \in Range(AllTasks(plans)) :
                            n \in t.requirements /\ \E d \in open[n] : t.id \in d.next}]]

\* _derive_portfolio, the tasks that such decisions name as their next evidence.
SequenceItems(opportunities, plans, decisions) ==
    LET tasks == AllTasks(plans)
        wanted == {t \in Range(tasks) : \E d \in Targeted(decisions) : t.id \in d.next}
        by == [t \in wanted |-> {d \in Targeted(decisions) : t.id \in d.next}]
        Order(t) == OrderOf(opportunities, <<t.id[1], t.id[2]>>)
        rank == [t \in wanted |->
                   <<IF t.readiness = "READY_NOW" THEN 0 ELSE 1, opportunities[Order(t)].priority,
                     -Cardinality(by[t]), Order(t), Min({i \in DOMAIN tasks : tasks[i] = t})>>]
        order == Ranked(wanted, rank)
    IN  [k \in DOMAIN order |-> LET t == order[k] IN
            [task |-> t.id, decisions |-> {d.id : d \in by[t]},
             addressed |-> t.requirements \cap UNION {Range(d.unresolved) : d \in by[t]},
             startable |-> t.readiness = "READY_NOW"]]

\* _derive_portfolio: the first task that can begin is recommended.
WithRecommendation(leverage, items, decisions) ==
    LET startable == {i \in DOMAIN items : items[i].startable}
    IN  [leverage |-> leverage, items |-> items,
         recommended |-> IF startable = {} THEN <<>> ELSE items[Min(startable)].task,
         state |-> IF startable # {} THEN "READY_TASK_AVAILABLE"
                   ELSE IF Targeted(decisions) # {} THEN "EVIDENCE_GAP_FIRST"
                   ELSE "NO_OPEN_READINESS_GAPS"]

Sequencing(opportunities, plans, decisions) ==
    WithRecommendation(LeverageItems(opportunities, plans, decisions),
                       SequenceItems(opportunities, plans, decisions), decisions)

\* The strict models of the two kinds of items and of the portfolio.
IsLeverage(l) == l.decisions # {} /\ l.opportunities # {}
IsSequenceItem(item) == item.decisions # {}
IsSequencingModel(p) ==
    /\ \A l \in Range(p.leverage) : IsLeverage(l)
    /\ \A item \in Range(p.items) : IsSequenceItem(item)
    /\ Cardinality({l.requirement : l \in Range(p.leverage)}) = Len(p.leverage)
    /\ Cardinality({item.task : item \in Range(p.items)}) = Len(p.items)
    /\ p.recommended # <<>> =>
          \E item \in Range(p.items) : item.task = p.recommended /\ item.startable

\* validate_investigation_sequencing_portfolio, but for the repeated derivation.
IsSequencing(p, plans, decisions) ==
    LET Decision(id) == {d \in Range(decisions) : d.id = id} IN
    /\ IsSequencingModel(p)
    /\ \A l \in Range(p.leverage) : \A id \in l.decisions : \E d \in Decision(id) :
          d.readiness = "NEEDS_MORE_EVIDENCE" /\ l.requirement \in Range(d.unresolved)
    /\ \A item \in Range(p.items) :
          /\ item.task \in TaskIds(Range(AllTasks(plans)))
          /\ \A id \in item.decisions : \E d \in Decision(id) : item.task \in d.next

-----------------------------------------------------------------------------
(* The layers one after another, each on the results of those before it.    *)

\* A layer that fails ends the product with its error; the later ones stay empty.
Layer(p, valid, error, result) ==
    IF p.error # "NONE" THEN p
    ELSE IF valid THEN result ELSE [p EXCEPT !.error = error]

NoProduct == [error |-> "NONE", opportunities |-> <<>>, plans |-> <<>>, decisions |-> <<>>,
              sequencing |-> <<>>]

WithOpportunities(p, c, outcomes) ==
    Layer(p, ValidOpportunities(outcomes, c), "OPPORTUNITY_ERROR",
          [p EXCEPT !.opportunities = Opportunities(outcomes)])

WithPlans(p, c, plans) ==
    Layer(p, IsPlanPortfolio(plans, p.opportunities, c), "INVESTIGATION_ERROR",
          [p EXCEPT !.plans = plans])

WithDecisions(p, c, decisions) ==
    Layer(p, IsDecisionPortfolio(decisions, p.opportunities, p.plans, c), "DECISION_ERROR",
          [p EXCEPT !.decisions = decisions])

WithSequencing(p, sequencing) ==
    Layer(p, /\ IsSourceGraph(p.opportunities, p.plans, p.decisions)
             /\ IsSequencing(sequencing, p.plans, p.decisions), "SEQUENCING_ERROR",
          [p EXCEPT !.sequencing = sequencing])

\* Each layer builds on the results of those before it.
Planned(p, c) == WithPlans(p, c, BuildPlans(p.opportunities, c))
Decided(p, c) == WithDecisions(p, c, BuildDecisions(p.opportunities, p.plans))
Sequenced(p) == WithSequencing(p, Sequencing(p.opportunities, p.plans, p.decisions))
Chain(c) == Sequenced(Decided(Planned(WithOpportunities(NoProduct, c, Outcomes(c)), c), c))
=============================================================================
