---------------------------- MODULE AnalystService ----------------------------
(***************************************************************************)
(* The analyst service (src/api/service.py and app.py) over a warehouse    *)
(* that is reloaded while it answers.  Handlers call the service without   *)
(* awaiting, so that a process works on one request at a time, but every   *)
(* query of build_context has a connection of its own: loads fall between  *)
(* them.  A request then runs the layers it needs on the context it has,   *)
(* or narrates it through a provider, a call out of Pulse that may fail or *)
(* answer anything.  Ids in a request come from earlier answers, that is   *)
(* from other contexts.                                                    *)
(***************************************************************************)
EXTENDS AnalystAnswers

CONSTANTS Snapshots,   \* what the warehouse may hold, as sources of the evidence
          Requests,    \* the requests clients make
          Providers,   \* settings of PULSE_LLM_PROVIDER
          MaxLoads     \* bound on the loads of a behaviour

NoQuestion == [intent |-> "GENERAL", economic |-> FALSE, names |-> {}]
\* form is "list", "get" or "ask"; kind names the items (or the narration); valid
\* stands for the shape checks, one context per question and an aggregate question.
Request(form, kind, id, question) ==
    [form |-> form, kind |-> kind, id |-> id, question |-> question, valid |-> TRUE]
\* The endpoints: the items of a kind, one item, and a question.
ListOf(kind) == Request("list", kind, <<>>, NoQuestion)
Detail(kind, id) == Request("get", kind, id, NoQuestion)
Ask(kind, id, question) == Request("ask", kind, id, question)
Idle == Request("none", "none", <<>>, NoQuestion)
\* A plan is not asked about.
Kinds == {"opportunity", "plan", "task", "decision", "requirement", "step"}
ASSUME RequestsAssumption ==
    /\ Idle \notin Requests
    /\ \A r \in Requests : IF r.form = "ask" THEN r.kind \in (Kinds \ {"plan"}) \cup {"narration"}
                                             ELSE r.kind \in Kinds

\* What the warehouse may hold: the spend and the conversions of a campaign may be
\* unknown, its other counts are not.
IsOutcomeRow(r) ==
    /\ r.name \in Range(CampaignNames)
    /\ r.spend \in Nat \cup {None} /\ r.conversions \in Nat \cup {None}
    /\ \A column \in {"orders", "unresolved", "matched", "confirmed", "shipped", "delivered",
                       "returned"} : r[column] \in Nat
ASSUME SnapshotsAssumption ==
    \A s \in Snapshots : IsFiniteSet(s.rows) /\ \A r \in s.rows : IsOutcomeRow(r)

NoAnswer == Answer(NoQuestion, {}, FALSE, FALSE)

VARIABLES warehouse,  \* the snapshot it serves; each load replaces it at once
          version,    \* the number of loads
          provider,   \* the configured provider
          request,    \* the request in work, Idle if there is none
          parts,      \* what its queries returned: sources and their versions
          draft,      \* a provider's answer that was sent back for repair
          response    \* the last response: its request, code and answer
vars == <<warehouse, version, provider, request, parts, draft, response>>

Response(code, answer) == [request |-> request, code |-> code, answer |-> answer]

Init == /\ warehouse \in Snapshots /\ version = 0 /\ provider \in Providers
        /\ request = Idle /\ parts = <<>> /\ draft = NoAnswer
        /\ response = [request |-> Idle, code |-> "NONE", answer |-> NoAnswer]

-----------------------------------------------------------------------------
Load == /\ version < MaxLoads /\ version' = version + 1
        /\ warehouse' \in {s \in Snapshots : s.rows # {}} \ {warehouse}
        /\ UNCHANGED <<provider, request, parts, draft, response>>

\* The provider is built before the context is.
Startable(r) == r.valid /\ ~(r.kind = "narration" /\ provider = "unsupported")

Refuse(r) == /\ request = Idle /\ ~Startable(r)
             /\ response' = [request |-> r, answer |-> NoAnswer,
                    code |-> IF ~r.valid THEN "INVALID_REQUEST" ELSE "PROVIDER_CONFIGURATION_ERROR"]
             /\ UNCHANGED <<warehouse, version, provider, request, parts, draft>>

\* Plausible fault: evidence that was read for the last request is used again.
ReceiveWithKeptEvidence(r) ==
    /\ request = Idle /\ Startable(r) /\ request' = r
    /\ response' = [request |-> r, code |-> "NONE", answer |-> NoAnswer]
    /\ UNCHANGED <<warehouse, version, provider, parts, draft>>

Receive(r) == /\ request = Idle /\ Startable(r) /\ request' = r /\ parts' = <<>>
              /\ response' = [request |-> r, code |-> "NONE", answer |-> NoAnswer]
              /\ UNCHANGED <<warehouse, version, provider, draft>>

Respond(code, answer) ==
    /\ request' = Idle /\ draft' = NoAnswer /\ response' = Response(code, answer)
    /\ UNCHANGED <<warehouse, version, provider, parts>>

-----------------------------------------------------------------------------
(* The context: the queries of build_context in their order.                *)

Queries == <<"as_of", "signals", "leakage", "campaigns", "anomalies", "economics">>
KnownBusiness == parts # <<>> => parts[1].source.rows # {}

Query == /\ request # Idle /\ Len(parts) < Len(Queries) /\ KnownBusiness
         /\ parts' = Append(parts, [version |-> version, source |-> warehouse])
         /\ UNCHANGED <<warehouse, version, provider, request, draft, response>>

QueryFails == /\ request # Idle /\ Len(parts) < Len(Queries) /\ KnownBusiness
              /\ Respond("WAREHOUSE_UNAVAILABLE", NoAnswer)

\* The first query finds no row for the business.
BusinessNotFound == request # Idle /\ ~KnownBusiness /\ Respond("BUSINESS_NOT_FOUND", NoAnswer)

Context == Assemble(parts[2].source, parts[3].source, parts[4].source, parts[5].source,
                    parts[6].source)
HasContext == request # Idle /\ Len(parts) = Len(Queries) /\ IsContext(Context)

ContextIsRefused == /\ request # Idle /\ Len(parts) = Len(Queries) /\ ~IsContext(Context)
                    /\ Respond("WAREHOUSE_UNAVAILABLE", NoAnswer)

-----------------------------------------------------------------------------
(* Lists, details and questions about an item.                              *)

\* The layers each kind of item needs; a layer's error ends the request.
Layers == [opportunity |-> {"OPPORTUNITY_ERROR"},
           plan |-> {"OPPORTUNITY_ERROR", "INVESTIGATION_ERROR"},
           task |-> {"OPPORTUNITY_ERROR", "INVESTIGATION_ERROR"},
           decision |-> {"OPPORTUNITY_ERROR", "INVESTIGATION_ERROR", "DECISION_ERROR"},
           requirement |-> {"OPPORTUNITY_ERROR", "INVESTIGATION_ERROR", "DECISION_ERROR",
                            "SEQUENCING_ERROR"},
           step |-> {"OPPORTUNITY_ERROR", "INVESTIGATION_ERROR", "DECISION_ERROR",
                     "SEQUENCING_ERROR"}]

Rejected(p) == p.error \in Layers[request.kind]

\* The item of an id, as a set of one or none: ids are unique in a valid product.
ResolveOpportunity(p, id) == {o \in Range(p.opportunities) : OpportunityId(o) = id}
ResolveInvestigationPlan(p, id) == {x \in Range(p.plans) : x.opportunity = id}
ResolveInvestigationTask(p, id) == {t \in Range(AllTasks(p.plans)) : t.id = id}
ResolveDecision(p, id) == {d \in Range(p.decisions) : d.id = id}
ResolveFocus(p, id) == {l \in Range(p.sequencing.leverage) : <<l.requirement>> = id}
ResolveStep(p, id) == {i \in Range(p.sequencing.items) : i.task = id}

Find(r, p) ==
    CASE r.kind = "opportunity" -> ResolveOpportunity(p, r.id)
      [] r.kind = "plan" -> ResolveInvestigationPlan(p, r.id)
      [] r.kind = "task" -> ResolveInvestigationTask(p, r.id)
      [] r.kind = "decision" -> ResolveDecision(p, r.id)
      [] r.kind = "requirement" -> ResolveFocus(p, r.id)
      [] r.kind = "step" -> ResolveStep(p, r.id)

PlanOfTask(p, id) == CHOOSE x \in Range(p.plans) : id \in TaskIds(Range(x.tasks))
PlanOfDecision(p, d) == CHOOSE x \in Range(p.plans) : x.opportunity = d.opportunity

ItemAnswer(r, item, p, c) ==
    CASE r.kind = "opportunity" -> OpportunityAnswer(r.question, item)
      [] r.kind = "task" -> TaskAnswer(r.question, item, PlanOfTask(p, item.id), c)
      [] r.kind = "decision" -> DecisionAnswer(r.question, item)
      [] OTHER -> SequencingAnswer(r.question, item, p, c)

ItemResolves(r, item, p) ==
    CASE r.kind = "opportunity" -> TRUE
      [] r.kind = "task" -> TaskResolves(item, PlanOfTask(p, item.id))
      [] r.kind = "decision" -> DecisionResolves(item, PlanOfDecision(p, item))
      [] OTHER -> OrderResolves(item, p)

\* Validation failures of the layers and of the answer are told apart from each
\* other by their codes only.
ServeList ==
    /\ HasContext /\ request.form = "list"
    /\ Respond(IF Rejected(Chain(Context)) THEN "VALIDATION_FAILED" ELSE "OK", NoAnswer)

ServeItem ==
    /\ HasContext /\ request.form = "get"
    /\ LET p == Chain(Context) IN
       Respond(IF Rejected(p) THEN "VALIDATION_FAILED"
               ELSE IF Find(request, p) = {} THEN "NOT_FOUND" ELSE "OK", NoAnswer)

\* The answer about an item of the product, which its validation may reject.
AnswerAbout(item, p, c) ==
    LET answer == ItemAnswer(request, item, p, c) IN
    IF ItemResolves(request, item, p) /\ IsAnswer(answer, request.question, c)
    THEN Respond("OK", answer)
    ELSE Respond("VALIDATION_FAILED", NoAnswer)

AskAbout(p, c) ==
    IF Rejected(p) THEN Respond("VALIDATION_FAILED", NoAnswer)
    ELSE LET found == Find(request, p) IN
         IF found = {} THEN Respond("NOT_FOUND", NoAnswer)
         ELSE AnswerAbout(CHOOSE item \in found : TRUE, p, c)

AskItem ==
    /\ HasContext /\ request.form = "ask" /\ request.kind # "narration"
    /\ AskAbout(Chain(Context), Context)

-----------------------------------------------------------------------------
(* Narration.                                                               *)

\* External: what the model may answer instead of the facts it was given.  Ids
\* that this context does not have are those of another one.
Elsewhere == <<"SIGNAL", "ELSEWHERE", Business>>
Distorted(answer) ==
    {[answer EXCEPT !.refs = refs, !.defects = defects, !.rest = rest, !.cannot = cannot] :
        refs \in {answer.refs, {Elsewhere}, {AnomalyId("daily_target_spend")}} \ {{}},
        defects \in {{}, {CausalWording}, {CausalWording, "UNSUPPORTED_NUMBER"}},
        rest \in {"built", "other"}, cannot \in {answer.cannot, TRUE}}

Validated(answer) == IsAnswer(answer, request.question, Context)
Repairable(answer) ==
    provider = "openai" /\ Violations(answer, request.question, Context) = {CausalWording}

Fallback == LET answer == DeterministicAnswer(request.question, Context) IN
    IF Validated(answer) THEN Respond("OK", answer) ELSE Respond("VALIDATION_FAILED", NoAnswer)

Narrating == HasContext /\ request.kind = "narration"

\* The offline provider is the deterministic builder; the other may answer anything.
Narrate ==
    /\ Narrating /\ draft = NoAnswer
    /\ LET facts == DeterministicAnswer(request.question, Context) IN
       \E answer \in IF provider = "fake" THEN {facts} ELSE Distorted(facts) :
          IF Validated(answer) THEN Respond("OK", answer)
          ELSE IF Repairable(answer)
               THEN draft' = answer /\ UNCHANGED <<warehouse, version, provider, request, parts, response>>
          ELSE Respond("VALIDATION_FAILED", NoAnswer)

\* Errors of the provider and its malformed answers.
ProviderFails == /\ Narrating /\ draft = NoAnswer /\ provider = "openai"
                 /\ Respond("PROVIDER_UNAVAILABLE", NoAnswer)

\* The one repair, of the wording only.
Repair ==
    /\ Narrating /\ draft # NoAnswer
    /\ \E answer \in Distorted(draft) \cup {[draft EXCEPT !.defects = {}]} :
          RepairsWording(answer, draft) /\ Validated(answer) /\ Respond("OK", answer)

\* A repair that is refused, or fails, is discarded for the deterministic answer.
RepairFails == Narrating /\ draft # NoAnswer /\ Fallback

-----------------------------------------------------------------------------
Next == \/ Load
        \/ \E r \in Requests : Receive(r) \/ Refuse(r)
        \/ Query \/ QueryFails \/ BusinessNotFound \/ ContextIsRefused
        \/ ServeList \/ ServeItem \/ AskItem \/ Narrate \/ ProviderFails \/ Repair \/ RepairFails

Spec == Init /\ [][Next]_vars

-----------------------------------------------------------------------------
(* Properties.                                                              *)

\* The service reads as ContextAssembly promises: a request starts from no
\* evidence, every part is what the warehouse serves at that moment, and what is
\* answered rests on all six queries.
Reads == INSTANCE ContextAssembly WITH
            N <- Len(Queries), version <- version, open <- request # Idle,
            read <- [i \in 1 .. Len(parts) |-> parts[i].version],
            answered <- response.code = "OK"
Refinement == Reads!Spec

\* What a whole product is made of, when a request that needs it has its context.
Produces == HasContext /\ request.kind = "requirement" /\ request.form = "list"

\* The layers agree on every context the queries can assemble, also on one whose
\* parts come from before and after a load: no layer refuses what another built.
\* Only the name of a campaign can end the product, and then it ends all of it.
NamedLikePhone(c) == \E d \in c.campaigns : d.name \in PhoneShaped
ChainCompletes ==
    Produces => LET c == Context IN
        Chain(c).error = IF NamedLikePhone(c) THEN "OPPORTUNITY_ERROR" ELSE "NONE"

\* A decision is ready for human review only if, for every requirement of its
\* frame, the context holds evidence of every kind the requirement asks for and
\* the decision cites it: that a task could be begun is not evidence.
ReadyMeansEvidence ==
    Produces => LET c == Context  p == Chain(c) IN
        p.error = "NONE" => \A d \in Range(p.decisions) :
            d.readiness = "READY_FOR_HUMAN_REVIEW" => \A n \in d.required :
                LET o == CHOOSE o \in Range(p.opportunities) : OpportunityId(o) = d.opportunity
                    groups == Range(REQUIREMENT_REGISTRY[n])
                IN  \A g \in groups :
                        \E id \in Evidence(c) \cap DecisionRefs(d) : Matches(id, g, o)

\* Sequencing forgets no gap: each unresolved requirement of a decision that needs
\* evidence is a focus that names the decision, some task of the sequence that
\* requires it is wanted for that decision, and a task is recommended exactly when
\* one of them can begin.
SequenceCoversUnresolved ==
    Produces => LET p == Chain(Context) IN
        p.error = "NONE" =>
            /\ \A d \in Range(p.decisions) : d.readiness = "NEEDS_MORE_EVIDENCE" =>
                  \A n \in Range(d.unresolved) :
                    /\ \E l \in Range(p.sequencing.leverage) :
                          l.requirement = n /\ d.id \in l.decisions /\ l.tasks # {}
                    /\ \E i \in Range(p.sequencing.items) :
                          d.id \in i.decisions /\ n \in i.addressed
            /\ (p.sequencing.recommended # <<>>) =
                  (\E t \in Range(AllTasks(p.plans)) : t.readiness = "READY_NOW" /\
                     \E d \in Range(p.decisions) :
                        d.readiness = "NEEDS_MORE_EVIDENCE" /\ t.id \in d.next)

\* Where a tenth of the orders has no resolved identity, no opportunity that rests
\* on the linkage of campaigns to fulfilment is of HIGH priority or confidence, and
\* the decisions about it disclose the gap.
IdentityGapCapsTrust ==
    Produces => LET c == Context  p == Chain(c)
                    gap == {l \in LeakageItem(c, "IDENTITY_UNRESOLVED") :
                              l.denominator > 0 /\ 10 * l.observed >= l.denominator}
                IN  p.error = "NONE" /\ gap # {} =>
        /\ \A o \in Range(p.opportunities) :
              o.type = FULFILLMENT => o.priority # HIGH /\ o.confidence # HIGH
        /\ \A d \in Range(p.decisions) : d.opportunity[1] = FULFILLMENT =>
              {LeakageId(l) : l \in gap} \subseteq d.blocking

\* What is listed can be asked about: a question about an item of the context is
\* refused only when it is about economics that wait for FX, or when a campaign is
\* named like a phone number.
ItemsAreAnswerable ==
    response.request.kind # "narration" /\ response.code = "VALIDATION_FAILED" =>
        \/ response.request.question.economic /\ Context.economics = "FX_REQUIRED"
        \/ NamedLikePhone(Context)

\* Whatever a provider says, what is answered cites known evidence only, has no
\* rejected wording and, where FX is required, says so; an answer that was
\* repaired cites what the rejected one did unless it is the deterministic one.
AnswersAreGrounded ==
    response.code = "OK" /\ response.request.form = "ask" =>
        LET answer == response.answer IN
        /\ answer.refs # {} /\ answer.refs \subseteq Evidence(Context)
        /\ answer.defects = {}
        /\ response.request.question.economic /\ Context.economics = "FX_REQUIRED" =>
              answer.statesFx

RepairsKeepEvidence ==
    [][draft # NoAnswer /\ response'.code = "OK" =>
         \/ response'.answer.refs = draft.refs
         \/ response'.answer = DeterministicAnswer(request.question, Context)]_vars
=============================================================================
