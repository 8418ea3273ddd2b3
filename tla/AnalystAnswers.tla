---------------------------- MODULE AnalystAnswers ----------------------------
(***************************************************************************)
(* The answers of the analyst (src/intelligence/narration.py, providers.py,*)
(* answer_models.py and the four *_answers.py): what evidence an answer    *)
(* cites, what validate_answer rejects, and what a repair may change.      *)
(*                                                                         *)
(* Wording is reduced to its defects, one for each check of the text.  A   *)
(* question is a record: its intent, whether it holds one of the economic  *)
(* terms ("contribution" is a term of validate_answer but of no intent,    *)
(* and "customer" holds "mer"), and the campaigns it names.                *)
(***************************************************************************)
EXTENDS DecisionChain

CausalWording == "UNSUPPORTED_CAUSAL_WORDING"

\* An answer: the evidence its findings cite, the defects of its text, whether
\* it says that it cannot answer fully and that FX is required, and all the
\* rest (steps, limitations, confidence, notes, numbers) as one value.
Answer(question, refs, cannot, statesFx) ==
    [question |-> question, refs |-> refs, defects |-> {}, cannot |-> cannot,
     statesFx |-> statesFx, rest |-> "built"]

-----------------------------------------------------------------------------
(* Validation.                                                              *)

\* Plausible fault: the text is checked, the references are not.
ViolationsOfText(answer, question, c) ==
    answer.defects
    \cup (IF answer.question = question THEN {} ELSE {"QUESTION_MISMATCH"})
    \cup (IF /\ c.economics = "FX_REQUIRED" /\ question.economic
             /\ ~(answer.cannot /\ answer.statesFx)
          THEN {"UNSUPPORTED_FINANCIAL_CLAIM"} ELSE {})

\* validate_answer: no evidence of a context supports a causal claim, because no
\* signal may make one.
Violations(answer, question, c) ==
    answer.defects
    \cup (IF answer.question = question THEN {} ELSE {"QUESTION_MISMATCH"})
    \cup (IF answer.refs \subseteq Evidence(c) THEN {} ELSE {"UNKNOWN_EVIDENCE_REF"})
    \cup (IF /\ c.economics = "FX_REQUIRED" /\ question.economic
             /\ ~(answer.cannot /\ answer.statesFx)
          THEN {"UNSUPPORTED_FINANCIAL_CLAIM"} ELSE {})

\* A finding without references is refused when it is built.
IsAnswer(answer, question, c) == answer.refs # {} /\ Violations(answer, question, c) = {}

\* Plausible fault: a repair may cite other evidence than the rejected answer.
RepairsWordingAnyhow(repaired, rejected) ==
    repaired.question = rejected.question /\ repaired.rest = rejected.rest

\* validate_repair_contract: wording may change, nothing else.
RepairsWording(repaired, rejected) ==
    /\ repaired.question = rejected.question /\ repaired.refs = rejected.refs
    /\ repaired.cannot = rejected.cannot /\ repaired.rest = rejected.rest

-----------------------------------------------------------------------------
(* DeterministicAnswerBuilder, which answers when a repair failed and for   *)
(* the offline provider.                                                    *)

\* A finding about a campaign quotes its name.
Found(question, refs, cannot, statesFx) ==
    [Answer(question, refs, cannot, statesFx) EXCEPT
        !.defects = IF \E id \in refs : id[1] = "CAMPAIGN_DIAGNOSTIC" /\ id[3] \in PhoneShaped
                    THEN {"PII_DETECTED"} ELSE {}]

\* Of the signals that are not HIGH the first three are cited; which, is left out.
LeadingSignals(c) ==
    LET high == {s \in c.signals : s.high} IN Ids(IF high # {} THEN high ELSE c.signals)

PriorityAnswer(question, c) ==
    Found(question, LeadingSignals(c), LeadingSignals(c) = {}, FALSE)

\* The first n of some campaigns, which a context lists by name.
FirstCampaigns(n, campaigns) ==
    {d \in campaigns : Cardinality({e \in campaigns : NameOrder(e.name) < NameOrder(d.name)}) < n}

ReturnsAnswer(question, c) ==
    LET observed == {s \in c.signals : s.type \in
            {"RETURN_PRESSURE", "CAMPAIGN_RETURN_PRESSURE", "CAMPAIGN_DELIVERY_GAP"}}
    IN  Found(question, IF observed # {} THEN Ids(observed)
                         ELSE {CampaignId(d) : d \in FirstCampaigns(2, c.campaigns)}, TRUE, FALSE)

\* The campaigns a question names, or the first of all.
PauseAnswer(question, c) ==
    LET named == {d \in c.campaigns : d.name \in question.names}
        asked == IF named # {} THEN named ELSE FirstCampaigns(1, c.campaigns)
    IN  Found(question, {CampaignId(d) : d \in asked}
                    \cup Ids({s \in c.signals : s.scope \in {d.name : d \in asked}}), TRUE, FALSE)

CampaignsAnswer(question, c) ==
    LET known == {d.name : d \in c.campaigns} \cap question.names
        asked == IF known # {} THEN known ELSE Range(CampaignNames)
        refs == {CampaignId(d) : d \in FirstCampaigns(3, {d \in c.campaigns : d.name \in asked})}
                    \cup Ids({s \in c.signals : s.scope \in asked})
    IN  IF refs = {} THEN PriorityAnswer(question, c) ELSE Found(question, refs, FALSE, FALSE)

EconomicsAnswer(question, c) ==
    Found(question, {EconomicsId(c)}, TRUE, c.economics = "FX_REQUIRED")

AnomaliesAnswer(question, c) ==
    LET active == {m \in PilotAnomalyMetrics : c.anomalies[m] = "ANOMALY"}
        shown == IF active # {} THEN active ELSE PilotAnomalyMetrics
        structural == {s \in c.signals : s.high}
        one == IF structural = {} THEN {} ELSE {SignalId(CHOOSE s \in structural : TRUE)}
    IN  Found(question, {AnomalyId(m) : m \in shown} \cup one, FALSE, FALSE)

DeterministicAnswer(question, c) ==
    CASE question.intent = "PROFIT" -> EconomicsAnswer(question, c)
      [] question.intent = "ANOMALY_TODAY" -> AnomaliesAnswer(question, c)
      [] question.intent = "CAMPAIGN_PAUSE" -> PauseAnswer(question, c)
      [] question.intent = "RETURNS_REASON" -> ReturnsAnswer(question, c)
      [] question.intent = "CAMPAIGNS" -> CampaignsAnswer(question, c)
      [] OTHER -> PriorityAnswer(question, c)

-----------------------------------------------------------------------------
(* Answers about an item of the product, which quote it without a provider. *)

OpportunityAnswer(question, o) == Answer(question, OpportunityRefs(o), TRUE, FALSE)

\* Plausible fault: only what the task itself found grounds the answer.
TaskAnswerOfItsOwn(question, task, plan, c) ==
    Answer(question, task.refs, task.readiness # "READY_NOW", FALSE)

\* A task that found nothing is answered from the evidence of its plan.
TaskAnswer(question, task, plan, c) ==
    LET refs == IF task.refs # {} THEN task.refs ELSE UNION {r.refs : r \in plan.requirements}
    IN  Answer(question, refs \cap Evidence(c), task.readiness # "READY_NOW", FALSE)

\* The builders look up what an item names; a name that is not there is an error.
RequirementNames(plans) == {r.name : r \in UNION {x.requirements : x \in plans}}

TaskResolves(task, plan) == task.missing \subseteq RequirementNames({plan})

\* An answer about a decision cites what its readiness rests on.
DecisionRefs(d) == d.support \cup d.counter \cup d.blocking

DecisionAnswer(question, d) ==
    Answer(question, DecisionRefs(d), d.readiness # "READY_FOR_HUMAN_REVIEW", FALSE)

DecisionResolves(d, plan) ==
    Range(d.unresolved) \subseteq RequirementNames({plan}) /\ d.next \subseteq TaskIds(Range(plan.tasks))

\* The evidence of the decisions an answer about the order of the work is about, of
\* all when there are none; failing that, any.
GroundingRefs(about, p, c) ==
    LET cited == IF about # {} THEN {d \in Range(p.decisions) : d.id \in about}
                 ELSE Range(p.decisions)
        refs == UNION {DecisionRefs(d) : d \in cited}
    IN  IF refs # {} THEN refs ELSE {CHOOSE id \in Evidence(c) : TRUE}

\* The requirements and decisions that the wording names, whatever the intent.
OrderResolves(chosen, p) ==
    LET decisions == {d.id : d \in Range(p.decisions)}
        items == {i \in Range(p.sequencing.items) :
                    i = chosen \/ i.task = p.sequencing.recommended}
        focuses == {l \in Range(p.sequencing.leverage) :
                      l = chosen \/ l = Head(p.sequencing.leverage)}
    IN  /\ \A i \in items : i.addressed \subseteq RequirementNames(Range(p.plans))
        /\ \A i \in items \cup focuses : i.decisions \subseteq decisions

\* The service asks about a chosen item.  Whether it can answer fully depends on the
\* intent and is never needed: it states nothing of FX.
SequencingAnswer(question, chosen, p, c) ==
    Answer(question, GroundingRefs(chosen.decisions, p, c), FALSE, FALSE)
=============================================================================
