------------------------ MODULE AnalystService_proofs ------------------------
(* What AnalystService guarantees for every content of the warehouse, every  *)
(* set of requests, every number of loads and whatever a provider answers.   *)
EXTENDS AnalystService, FiniteSetTheorems, TLAPS

\* What the mapping to ContextAssembly needs: the parts are a sequence of reads.
Part == [version : Nat, source : Snapshots]
PartsAreReads == version \in Nat /\ warehouse \in Snapshots /\ parts \in Seq(Part)

LEMMA InitParts == Init => PartsAreReads
BY DEF Init, PartsAreReads

LEMMA NextParts == PartsAreReads /\ [Next]_vars => PartsAreReads'
<1> SUFFICES ASSUME PartsAreReads, [Next]_vars PROVE PartsAreReads'
  OBVIOUS
<1> USE DEF PartsAreReads
<1>1. CASE Load
  BY <1>1 DEF Load
<1>2. ASSUME NEW r \in Requests, Receive(r) PROVE PartsAreReads'
  BY <1>2 DEF Receive
<1>3. ASSUME NEW r \in Requests, Refuse(r) PROVE PartsAreReads'
  BY <1>3 DEF Refuse
<1>4. CASE Query
  BY <1>4 DEF Query, Part
<1>5. CASE QueryFails \/ BusinessNotFound \/ ContextIsRefused
  BY <1>5 DEF QueryFails, BusinessNotFound, ContextIsRefused, Respond
<1>6. CASE ServeList \/ ServeItem \/ AskItem
  BY <1>6 DEF ServeList, ServeItem, AskItem, AskAbout, AnswerAbout, Respond
<1>7. CASE Narrate \/ ProviderFails \/ Repair \/ RepairFails
  BY <1>7 DEF Narrate, ProviderFails, Repair, RepairFails, Fallback, Respond
<1>8. CASE UNCHANGED vars
  BY <1>8 DEF vars
<1>9. QED
  BY <1>1, <1>2, <1>3, <1>4, <1>5, <1>6, <1>7, <1>8 DEF Next

-----------------------------------------------------------------------------
\* The versions of the parts, which are the reads of ContextAssembly.
VersionsOf(s) == [i \in 1 .. Len(s) |-> s[i].version]

LEMMA VersionsAppend ==
  ASSUME NEW s \in Seq(Part), NEW part \in Part
  PROVE  VersionsOf(Append(s, part)) = Append(VersionsOf(s), part.version)
<1>1. /\ Len(Append(s, part)) = Len(s) + 1
      /\ Append(s, part)[Len(s) + 1] = part
      /\ \A i \in 1 .. Len(s) : Append(s, part)[i] = s[i]
  OBVIOUS
<1>2. VersionsOf(s) \in Seq(Nat) /\ Len(VersionsOf(s)) = Len(s)
  <2>1. \A i \in 1 .. Len(s) : s[i].version \in Nat
    <3>1. \A i \in 1 .. Len(s) : s[i] \in Part
      OBVIOUS
    <3>2. \A x \in Part : x.version \in Nat
      BY DEF Part
    <3>3. QED
      BY <3>1, <3>2
  <2>2. Len(s) \in Nat /\ VersionsOf(s) \in [1 .. Len(s) -> Nat]
    BY <2>1 DEF VersionsOf
  <2>3. QED
    BY <2>2
<1>3. part.version \in Nat
  BY DEF Part
<1>4. /\ DOMAIN Append(VersionsOf(s), part.version) = 1 .. Len(s) + 1
      /\ Append(VersionsOf(s), part.version)[Len(s) + 1] = part.version
      /\ \A i \in 1 .. Len(s) : Append(VersionsOf(s), part.version)[i] = s[i].version
  BY <1>2, <1>3 DEF VersionsOf
<1>5. QED
  BY <1>1, <1>4 DEF VersionsOf

\* A request that ends maps to End: a positive response needs all its parts.
LEMMA RespondEnds ==
  ASSUME request # Idle, PartsAreReads, NEW code, NEW answer,
         code = "OK" => Len(parts) = Len(Queries), Respond(code, answer)
  PROVE  Reads!End
<1>1. request' = Idle /\ response'.code = code /\ version' = version /\ parts' = parts
  BY DEF Respond, Response
<1>2. Len(VersionsOf(parts)) = Len(parts)
  BY DEF PartsAreReads, VersionsOf
<1>3. QED
  BY <1>1, <1>2 DEF Reads!End, VersionsOf

LEMMA InitReads == Init => Reads!Init
<1> SUFFICES ASSUME Init PROVE Reads!Init
  OBVIOUS
<1>1. Len(parts) = 0 /\ 1 .. Len(parts) = {}
  BY DEF Init
<1>2. VersionsOf(parts) = <<>>
  BY <1>1 DEF VersionsOf
<1>3. QED
  BY <1>2 DEF Init, Reads!Init, VersionsOf

LEMMA NextReads == PartsAreReads /\ [Next]_vars => [Reads!Next]_(Reads!vars)
<1> SUFFICES ASSUME PartsAreReads, [Next]_vars PROVE Reads!Next \/ UNCHANGED Reads!vars
  OBVIOUS
<1>1. CASE Load
  BY <1>1 DEF Load, Reads!Load, Reads!Next
<1>2. ASSUME NEW r \in Requests, Receive(r) PROVE Reads!Begin
  <2>1. Len(parts') = 0 /\ 1 .. Len(parts') = {}
    BY <1>2 DEF Receive
  <2>2. request = Idle /\ request' # Idle /\ response'.code = "NONE" /\ version' = version
    BY <1>2, RequestsAssumption DEF Receive
  <2>3. QED
    BY <2>1, <2>2 DEF Reads!Begin
<1>3. ASSUME NEW r \in Requests, Refuse(r) PROVE Reads!Refuse
  BY <1>3 DEF Refuse, Reads!Refuse
<1>4. CASE Query
  <2>1. [version |-> version, source |-> warehouse] \in Part
    BY DEF PartsAreReads, Part
  <2>2. VersionsOf(parts') = Append(VersionsOf(parts), version)
    BY <1>4, <2>1, VersionsAppend DEF Query, PartsAreReads
  <2>3. Len(VersionsOf(parts)) = Len(parts)
    BY DEF PartsAreReads, VersionsOf
  <2>4. Reads!Read
    BY <1>4, <2>2, <2>3 DEF Query, Reads!Read, VersionsOf
  <2>5. QED
    BY <2>4 DEF Reads!Next
<1>5. CASE QueryFails \/ BusinessNotFound \/ ContextIsRefused
  <2>1. Reads!End
    BY <1>5, RespondEnds DEF QueryFails, BusinessNotFound, ContextIsRefused
  <2>2. QED
    BY <2>1 DEF Reads!Next
<1>6. CASE ServeList \/ ServeItem \/ AskItem
  <2>1. request # Idle /\ Len(parts) = Len(Queries) /\ \E code, answer : Respond(code, answer)
    BY <1>6 DEF ServeList, ServeItem, AskItem, AskAbout, AnswerAbout, HasContext
  <2>2. Reads!End
    BY <2>1, RespondEnds
  <2>3. QED
    BY <2>2 DEF Reads!Next
<1>7. CASE Narrate \/ ProviderFails \/ Repair \/ RepairFails
  <2>1. request # Idle /\ Len(parts) = Len(Queries)
    BY <1>7 DEF Narrate, ProviderFails, Repair, RepairFails, Narrating, HasContext
  <2>2. \/ \E code, answer : Respond(code, answer)
        \/ UNCHANGED <<version, request, parts, response>>
    BY <1>7 DEF Narrate, ProviderFails, Repair, RepairFails, Fallback
  <2>3. Reads!End \/ UNCHANGED <<version, request, parts, response>>
    BY <2>1, <2>2, RespondEnds
  <2>4. QED
    BY <2>3 DEF Reads!Next, Reads!vars
<1>8. CASE UNCHANGED vars
  BY <1>8 DEF vars, Reads!vars
<1>9. QED
  BY <1>1, <1>2, <1>3, <1>4, <1>5, <1>6, <1>7, <1>8 DEF Next, Reads!Next

\* The service implements ContextAssembly: whatever loads fall between its queries,
\* every request starts from no evidence, reads its parts in the order of its
\* queries as they are served, and answers only from all of them.
THEOREM ServiceReadsInOrder == Spec => Refinement
<1>1. QED
  BY InitParts, NextParts, InitReads, NextReads, PTL DEF Spec, Refinement, Reads!Spec

-----------------------------------------------------------------------------
\* What ContextAssembly says of the reads, and the inductive invariant it needs: what
\* is being worked on has not been answered, so that an answer's reads are complete.
InOrder(s, v) ==
  /\ \A i, j \in 1 .. Len(s) : i <= j => s[i] <= s[j]
  /\ \A i \in 1 .. Len(s) : s[i] <= v

OrderInv ==
  /\ InOrder(VersionsOf(parts), version)
  /\ response.code = "OK" => Len(VersionsOf(parts)) = Len(Queries)
  /\ request # Idle => response.code # "OK"

LEMMA VersionsAreNat ==
  ASSUME PartsAreReads PROVE VersionsOf(parts) \in Seq(Nat)
<1>1. \A i \in 1 .. Len(parts) : parts[i] \in Part
  BY DEF PartsAreReads
<1>2. \A x \in Part : x.version \in Nat
  BY DEF Part
<1>3. Len(parts) \in Nat /\ VersionsOf(parts) \in [1 .. Len(parts) -> Nat]
  BY <1>1, <1>2 DEF PartsAreReads, VersionsOf
<1>4. QED
  BY <1>3

LEMMA ReadNext ==
  ASSUME NEW s \in Seq(Nat), NEW v \in Nat, InOrder(s, v)
  PROVE  InOrder(Append(s, v), v)
<1>1. /\ Len(Append(s, v)) = Len(s) + 1
      /\ \A i \in 1 .. Len(s) : Append(s, v)[i] = s[i]
      /\ Append(s, v)[Len(s) + 1] = v
  OBVIOUS
<1>2. \A i \in 1 .. Len(s) : s[i] \in Nat
  OBVIOUS
<1>3. \A i \in 1 .. Len(Append(s, v)) : Append(s, v)[i] <= v
  BY <1>1, <1>2 DEF InOrder
<1>4. \A i, j \in 1 .. Len(Append(s, v)) : i <= j => Append(s, v)[i] <= Append(s, v)[j]
  BY <1>1, <1>2, <1>3 DEF InOrder
<1>5. QED
  BY <1>3, <1>4 DEF InOrder

LEMMA NextOrder == PartsAreReads /\ OrderInv /\ [Next]_vars => OrderInv'
<1> SUFFICES ASSUME PartsAreReads, OrderInv, [Next]_vars PROVE OrderInv'
  OBVIOUS
<1>1. PICK s \in Seq(Nat) : s = VersionsOf(parts)
  BY VersionsAreNat
<1>2. PICK t : t = VersionsOf(parts)'
  OBVIOUS
<1>3. /\ version \in Nat /\ InOrder(s, version)
      /\ response.code = "OK" => Len(s) = Len(Queries)
      /\ request # Idle => response.code # "OK"
  BY <1>1 DEF OrderInv, PartsAreReads
<1>4. Reads!Next \/ UNCHANGED Reads!vars
  BY NextReads
<1>5. /\ InOrder(t, version')
      /\ response'.code = "OK" => Len(t) = Len(Queries)
      /\ request' # Idle => response'.code # "OK"
  <2>1. ASSUME t = s, version' >= version, version' \in Nat PROVE InOrder(t, version')
    BY <1>3, <2>1 DEF InOrder
  <2>2. CASE Reads!Load
    BY <1>1, <1>2, <1>3, <2>1, <2>2 DEF Reads!Load, VersionsOf
  <2>3. CASE Reads!Begin
    <3>1. t = <<>> /\ request' # Idle /\ response'.code # "OK"
      BY <1>2, <2>3 DEF Reads!Begin, VersionsOf
    <3>2. Len(t) = 0 /\ 1 .. Len(t) = {}
      BY <3>1
    <3>3. QED
      BY <3>1, <3>2 DEF InOrder
  <2>4. CASE Reads!Read
    <3>1. /\ t = Append(s, version) /\ version' = version
          /\ request # Idle /\ (response'.code = "OK" <=> response.code = "OK")
      BY <1>1, <1>2, <2>4 DEF Reads!Read, VersionsOf
    <3>2. InOrder(t, version')
      BY <1>3, <3>1, ReadNext
    <3>3. QED
      BY <1>3, <3>1, <3>2
  <2>5. CASE Reads!End
    <3>1. /\ t = s /\ version' = version /\ request' = Idle
          /\ response'.code = "OK" => Len(s) = Len(Queries)
      BY <1>1, <1>2, <2>5 DEF Reads!End, VersionsOf
    <3>2. QED
      BY <1>3, <2>1, <3>1
  <2>6. CASE Reads!Refuse
    <3>1. t = s /\ version' = version /\ response'.code # "OK"
      BY <1>1, <1>2, <2>6 DEF Reads!Refuse, VersionsOf
    <3>2. QED
      BY <1>3, <2>1, <3>1
  <2>7. CASE UNCHANGED Reads!vars
    <3>1. /\ t = s /\ version' = version /\ (request' # Idle <=> request # Idle)
          /\ response'.code = "OK" <=> response.code = "OK"
      BY <1>1, <1>2, <2>7 DEF Reads!vars, VersionsOf
    <3>2. QED
      BY <1>3, <2>1, <3>1
  <2>8. QED
    BY <1>4, <2>2, <2>3, <2>4, <2>5, <2>6, <2>7 DEF Reads!Next
<1>6. QED
  BY <1>2, <1>5 DEF OrderInv

\* The evidence of a request never goes back in time: a part that was queried later is
\* not of an earlier load, none is of a load still to come, and what is answered
\* rests on all six queries.
THEOREM EvidenceIsInOrder == Spec => []Reads!PartsInOrder
<1>1. Init => PartsAreReads /\ OrderInv
  <2>1. ASSUME Init PROVE OrderInv
    <3>1. Len(parts) = 0 /\ 1 .. Len(parts) = {}
      BY <2>1 DEF Init
    <3>2. PICK s : s = VersionsOf(parts)
      OBVIOUS
    <3>3. Len(s) = 0 /\ 1 .. Len(s) = {}
      BY <3>1, <3>2 DEF VersionsOf
    <3>4. QED
      BY <2>1, <3>2, <3>3 DEF Init, OrderInv, InOrder
  <2>2. QED
    BY <2>1, InitParts
<1>2. PartsAreReads /\ OrderInv => Reads!PartsInOrder
  BY DEF OrderInv, InOrder, Reads!PartsInOrder, VersionsOf
<1>3. PartsAreReads /\ OrderInv /\ [Next]_vars => (PartsAreReads /\ OrderInv)'
  BY NextParts, NextOrder
<1>4. QED
  BY <1>1, <1>2, <1>3, PTL DEF Spec

-----------------------------------------------------------------------------
\* The inductive invariant of the answers: a positive response is the last thing
\* that happened to a request, so that its evidence is still the parts that were
\* read for it.
GroundedInv == /\ response.code = "OK" => request = Idle
               /\ AnswersAreGrounded

\* An answer that validate_answer lets through is grounded.
LEMMA ValidIsGrounded ==
  ASSUME NEW answer, NEW question, NEW c, IsAnswer(answer, question, c)
  PROVE  /\ answer.refs # {} /\ answer.refs \subseteq Evidence(c)
         /\ answer.defects = {}
         /\ question.economic /\ c.economics = "FX_REQUIRED" => answer.statesFx
<1>1. answer.refs # {} /\ Violations(answer, question, c) = {}
  BY DEF IsAnswer
<1>2. answer.defects = {} /\ answer.refs \subseteq Evidence(c)
  BY <1>1 DEF Violations
<1>3. question.economic /\ c.economics = "FX_REQUIRED" => answer.statesFx
  BY <1>1 DEF Violations
<1>4. QED
  BY <1>1, <1>2, <1>3

LEMMA NotAnswered == response'.code # "OK" => GroundedInv'
BY DEF GroundedInv, AnswersAreGrounded

\* A response whose answer, if it has one, is valid.
GroundedEnd(code, answer) ==
  /\ Respond(code, answer)
  /\ code = "OK" /\ request.form = "ask" => IsAnswer(answer, request.question, Context)

\* A request that ends positively keeps the invariant if its answer is valid or it
\* asked no question.
LEMMA RespondGrounds ==
  ASSUME NEW code, NEW answer, GroundedEnd(code, answer)
  PROVE  GroundedInv'
<1>1. /\ request' = Idle /\ parts' = parts
      /\ response' = [request |-> request, code |-> code, answer |-> answer]
  BY DEF GroundedEnd, Respond, Response
<1>2. Context' = Context
  BY <1>1 DEF Context
<1>3. CASE code = "OK" /\ request.form = "ask"
  <2>1. IsAnswer(answer, request.question, Context)
    BY <1>3 DEF GroundedEnd
  <2>2. /\ answer.refs # {} /\ answer.refs \subseteq Evidence(Context)
        /\ answer.defects = {}
        /\ request.question.economic /\ Context.economics = "FX_REQUIRED" => answer.statesFx
    BY <2>1, ValidIsGrounded
  <2>3. QED
    BY <1>1, <1>2, <2>2 DEF GroundedInv, AnswersAreGrounded
<1>4. CASE ~(code = "OK" /\ request.form = "ask")
  BY <1>1, <1>4 DEF GroundedInv, AnswersAreGrounded
<1>5. QED
  BY <1>3, <1>4

LEMMA NextGrounded == GroundedInv /\ [Next]_vars => GroundedInv'
<1> SUFFICES ASSUME GroundedInv, [Next]_vars PROVE GroundedInv'
  OBVIOUS
<1>0. ASSUME UNCHANGED <<request, parts, response>> PROVE GroundedInv'
  <2>1. Context' = Context
    BY <1>0 DEF Context
  <2>2. QED
    BY <1>0, <2>1 DEF GroundedInv, AnswersAreGrounded
<1>1. CASE Load
  BY <1>0, <1>1 DEF Load
<1>2. ASSUME NEW r \in Requests, Receive(r) PROVE GroundedInv'
  BY <1>2, NotAnswered DEF Receive
<1>3. ASSUME NEW r \in Requests, Refuse(r) PROVE GroundedInv'
  BY <1>3, NotAnswered DEF Refuse
<1>4. CASE Query
  <2>1. response' = response /\ request # Idle
    BY <1>4 DEF Query
  <2>2. QED
    BY <2>1, NotAnswered DEF GroundedInv
<1>5. CASE QueryFails \/ BusinessNotFound \/ ContextIsRefused
  BY <1>5, RespondGrounds DEF QueryFails, BusinessNotFound, ContextIsRefused, GroundedEnd
<1>6. CASE ServeList \/ ServeItem
  <2>1. request.form # "ask" /\ \E code : GroundedEnd(code, NoAnswer)
    BY <1>6 DEF ServeList, ServeItem, GroundedEnd
  <2>2. QED
    BY <2>1, RespondGrounds
<1>7. CASE AskItem
  <2>1. \E code, answer : GroundedEnd(code, answer)
    BY <1>7 DEF AskItem, AskAbout, AnswerAbout, GroundedEnd
  <2>2. PICK code, answer : GroundedEnd(code, answer)
    BY <2>1
  <2>3. QED
    BY <2>2, RespondGrounds
<1>8. ASSUME Fallback PROVE GroundedInv'
  <2>1. \E code, answer : GroundedEnd(code, answer)
    BY <1>8 DEF Fallback, Validated, GroundedEnd
  <2>2. PICK code, answer : GroundedEnd(code, answer)
    BY <2>1
  <2>3. QED
    BY <2>2, RespondGrounds
<1>9. CASE Narrate \/ ProviderFails \/ Repair \/ RepairFails
  <2>1. \/ \E code, answer : GroundedEnd(code, answer)
        \/ UNCHANGED <<request, parts, response>>
        \/ Fallback
    BY <1>9 DEF Narrate, ProviderFails, Repair, RepairFails, Validated, GroundedEnd
  <2>2. CASE \E code, answer : GroundedEnd(code, answer)
    <3>1. PICK code, answer : GroundedEnd(code, answer)
      BY <2>2
    <3>2. QED
      BY <3>1, RespondGrounds
  <2>3. QED
    BY <1>0, <1>8, <2>1, <2>2
<1>10. CASE UNCHANGED vars
  BY <1>0, <1>10 DEF vars
<1>11. QED
  BY <1>1, <1>2, <1>3, <1>4, <1>5, <1>6, <1>7, <1>9, <1>10 DEF Next

\* Whatever a provider says and whatever loads intervene, an answered question cites
\* evidence of its context and nothing else, in wording no check rejects, and says
\* that FX is required where it is.
THEOREM AnswersGrounded == Spec => []AnswersAreGrounded
<1>1. Init => GroundedInv
  BY DEF Init, GroundedInv, AnswersAreGrounded
<1>2. GroundedInv => AnswersAreGrounded
  BY DEF GroundedInv
<1>3. QED
  BY <1>1, <1>2, NextGrounded, PTL DEF Spec

-----------------------------------------------------------------------------
\* The inductive invariant of the repair: a rejected answer waits for its repair only
\* while a narration is in work, and what is in work has not been answered.
RepairInv == /\ request # Idle => response.code # "OK"
             /\ request # Idle => request \in Requests
             /\ draft # NoAnswer => request # Idle /\ request.kind = "narration"
                                    /\ Len(parts) = Len(Queries)

LEMMA NextRepair == RepairInv /\ [Next]_vars => RepairInv'
<1> SUFFICES ASSUME RepairInv, [Next]_vars PROVE RepairInv'
  OBVIOUS
<1>0. ASSUME request' = Idle, draft' = NoAnswer PROVE RepairInv'
  BY <1>0 DEF RepairInv
<1>1. CASE Load
  BY <1>1 DEF Load, RepairInv
<1>2. ASSUME NEW r \in Requests, Receive(r) PROVE RepairInv'
  BY <1>2 DEF Receive, RepairInv
<1>3. ASSUME NEW r \in Requests, Refuse(r) PROVE RepairInv'
  BY <1>3 DEF Refuse, RepairInv
<1>4. CASE Query
  BY <1>4 DEF Query, RepairInv
<1>5. CASE QueryFails \/ BusinessNotFound \/ ContextIsRefused
  BY <1>0, <1>5 DEF QueryFails, BusinessNotFound, ContextIsRefused, Respond
<1>6. CASE ServeList \/ ServeItem \/ AskItem
  BY <1>0, <1>6 DEF ServeList, ServeItem, AskItem, AskAbout, AnswerAbout, Respond
<1>7. CASE Narrate
  <2>1. \/ request' = Idle /\ draft' = NoAnswer
        \/ UNCHANGED <<request, parts, response>>
    BY <1>7 DEF Narrate, Respond
  <2>2. request # Idle /\ request.kind = "narration" /\ Len(parts) = Len(Queries)
    BY <1>7 DEF Narrate, Narrating, HasContext
  <2>3. QED
    BY <1>0, <2>1, <2>2 DEF RepairInv
<1>8. CASE ProviderFails \/ Repair \/ RepairFails
  BY <1>0, <1>8 DEF ProviderFails, Repair, RepairFails, Fallback, Respond
<1>9. CASE UNCHANGED vars
  BY <1>9 DEF vars, RepairInv
<1>10. QED
  BY <1>1, <1>2, <1>3, <1>4, <1>5, <1>6, <1>7, <1>8, <1>9 DEF Next

\* The positive response to a rejected answer, which must be a repair of its wording
\* or the deterministic answer.
Kept == \/ response'.answer.refs = draft.refs
        \/ response'.answer = DeterministicAnswer(request.question, Context)

LEMMA FallbackKeeps == ASSUME Fallback, response'.code = "OK" PROVE Kept
BY DEF Fallback, Respond, Response, Kept

LEMMA StepKeeps == RepairInv /\ Next /\ draft # NoAnswer /\ response'.code = "OK" => Kept
<1> SUFFICES ASSUME RepairInv, Next, draft # NoAnswer, response'.code = "OK" PROVE Kept
  OBVIOUS
<1>1. /\ request # Idle /\ request \in Requests /\ response.code # "OK"
      /\ request.kind = "narration" /\ request.form = "ask" /\ Len(parts) = Len(Queries)
  <2>1. /\ request # Idle /\ request \in Requests /\ response.code # "OK"
        /\ request.kind = "narration" /\ Len(parts) = Len(Queries)
    BY DEF RepairInv
  <2>2. "narration" \notin Kinds
    BY DEF Kinds
  <2>3. request.form = "ask"
    BY <2>1, <2>2, RequestsAssumption
  <2>4. QED
    BY <2>1, <2>3
<1>2. ~(Load \/ Query)
  BY <1>1 DEF Load, Query
<1>3. ~\E r \in Requests : Receive(r) \/ Refuse(r)
  BY <1>1 DEF Receive, Refuse
<1>4. ~(QueryFails \/ BusinessNotFound \/ ContextIsRefused)
  BY DEF QueryFails, BusinessNotFound, ContextIsRefused, Respond, Response
<1>5. ~(ServeList \/ ServeItem \/ AskItem)
  BY <1>1 DEF ServeList, ServeItem, AskItem, AskAbout, AnswerAbout
<1>6. ~(Narrate \/ ProviderFails)
  BY DEF Narrate, ProviderFails
<1>7. CASE Repair
  <2>1. \E answer : RepairsWording(answer, draft) /\ Respond("OK", answer)
    BY <1>7 DEF Repair
  <2>2. QED
    BY <2>1 DEF RepairsWording, Respond, Response, Kept
<1>8. CASE RepairFails
  BY <1>8, FallbackKeeps DEF RepairFails
<1>9. QED
  BY <1>2, <1>3, <1>4, <1>5, <1>6, <1>7, <1>8 DEF Next

\* A rejected answer is answered with a repair that cites the same evidence, or with
\* the deterministic answer, whatever the provider makes of the repair.
THEOREM RepairsKeepRefs == Spec => RepairsKeepEvidence
<1>1. Init => RepairInv
  BY DEF Init, RepairInv
<1>2. RepairInv /\ [Next]_vars =>
        [draft # NoAnswer /\ response'.code = "OK" =>
           \/ response'.answer.refs = draft.refs
           \/ response'.answer = DeterministicAnswer(request.question, Context)]_vars
  BY StepKeeps DEF Kept
<1>3. QED
  BY <1>1, <1>2, NextRepair, PTL DEF Spec, RepairsKeepEvidence

-----------------------------------------------------------------------------
(* Induction, with sets in place of predicates.                             *)

\* A set of naturals that is not empty has a least member.
LEMMA Least ==
  ASSUME NEW S \in SUBSET Nat, S # {}
  PROVE  Min(S) \in S /\ \A y \in S : Min(S) <= y
<1>1. PICK x \in S : \A y \in S : <<y, x>> \notin OpToRel(<, Nat)
  BY NatLessThanWellFounded, WFMin
<1>2. \A y \in S : ~(y < x)
  BY <1>1 DEF OpToRel
<1>3. x \in S /\ \A y \in S : x <= y
  BY <1>2
<1>4. QED
  BY <1>3 DEF Min

\* A set of naturals that holds 0 and the successor of its members holds them all.
LEMMA EveryNatural ==
  ASSUME NEW F \in SUBSET Nat, 0 \in F, \A n \in F : n + 1 \in F
  PROVE  F = Nat
<1> SUFFICES ASSUME Nat \ F # {} PROVE FALSE
  OBVIOUS
<1>1. PICK x \in Nat \ F : \A y \in Nat \ F : x <= y
  BY Least
<1>2. x - 1 \in Nat /\ x - 1 \notin Nat \ F
  BY <1>1
<1>3. QED
  BY <1>1, <1>2

\* A family of subsets of a finite set that holds the empty set and each member with
\* one more element holds the set.
LEMMA EveryFinite ==
  ASSUME NEW S, IsFiniteSet(S), NEW F \in SUBSET (SUBSET S), {} \in F,
         \A T \in F : \A x \in S \ T : T \cup {x} \in F
  PROVE  S \in F
<1> DEFINE G == {n \in Nat : \A T \in SUBSET S : Cardinality(T) = n => T \in F}
<1>0. \A T \in SUBSET S : IsFiniteSet(T) /\ Cardinality(T) \in Nat
  BY FS_Subset, FS_CardinalityType
<1>1. 0 \in G
  BY <1>0, FS_EmptySet
<1>2. ASSUME NEW n \in G PROVE n + 1 \in G
  <2>1. SUFFICES ASSUME NEW T \in SUBSET S, Cardinality(T) = n + 1 PROVE T \in F
    OBVIOUS
  <2>2. PICK x \in T : TRUE
    <3>1. n \in Nat /\ Cardinality(T) # 0
      BY <2>1
    <3>2. T # {}
      BY <3>1, FS_EmptySet
    <3>3. QED
      BY <3>2
  <2>3. T \ {x} \in SUBSET S /\ Cardinality(T \ {x}) = n
    <3>1. IsFiniteSet(T) /\ x \in T
      BY <1>0, <2>2
    <3>2. Cardinality(T \ {x}) = Cardinality(T) - 1
      BY <3>1, FS_RemoveElement
    <3>3. QED
      BY <2>1, <3>2
  <2>4. T \ {x} \in F
    BY <2>3
  <2>5. (T \ {x}) \cup {x} \in F
    BY <2>4
  <2>6. (T \ {x}) \cup {x} = T
    OBVIOUS
  <2>7. QED
    BY <2>5, <2>6
<1>3. G = Nat
  <2> HIDE DEF G
  <2>1. G \in SUBSET Nat
    BY DEF G
  <2>2. QED
    BY <1>1, <1>2, <2>1, EveryNatural
<1>4. Cardinality(S) \in G
  BY <1>0, <1>3
<1>5. QED
  BY <1>4

\* A finite set of naturals that is not empty has a greatest member.
LEMMA Greatest ==
  ASSUME NEW S \in SUBSET Nat, IsFiniteSet(S), S # {}
  PROVE  Max(S) \in S /\ \A y \in S : Max(S) >= y
<1> DEFINE F == {T \in SUBSET S : T = {} \/ \E x \in T : \A y \in T : x >= y}
<1>1. {} \in F
  OBVIOUS
<1>2. ASSUME NEW T \in F, NEW x \in S \ T PROVE T \cup {x} \in F
  <2>1. CASE T = {}
    BY <2>1
  <2>2. CASE T # {}
    <3>1. PICK m \in T : \A y \in T : m >= y
      BY <2>2
    <3>2. \A y \in T \cup {x} : (IF m >= x THEN m ELSE x) >= y
      BY <3>1
    <3>3. (IF m >= x THEN m ELSE x) \in T \cup {x}
      OBVIOUS
    <3>4. T \cup {x} \in SUBSET S
      OBVIOUS
    <3>5. QED
      BY <3>2, <3>3, <3>4
  <2>3. QED
    BY <2>1, <2>2
<1>3. S \in F
  <2> HIDE DEF F
  <2>1. F \in SUBSET (SUBSET S)
    BY DEF F
  <2>2. QED
    BY <1>1, <1>2, <2>1, EveryFinite
<1>4. \E x \in S : \A y \in S : x >= y
  BY <1>3
<1>5. QED
  BY <1>4 DEF Max

-----------------------------------------------------------------------------
(* Sums over the rows of a table.                                           *)

\* The value of a column that counts for its sum.
Counted(r, column) == IF r[column] = None THEN 0 ELSE r[column]

\* A total of counts is a count.
LEMMA TotalIsNat ==
  ASSUME NEW S, IsFiniteSet(S), NEW column, \A r \in S : Counted(r, column) \in Nat
  PROVE  Total(S, column) \in Nat
<1> DEFINE Step(g, s) == IF s = {} THEN 0
                         ELSE LET x == CHOOSE x \in s : TRUE
                              IN  Counted(x, column) + g[s \ {x}]
           Upto(n) == {s \in SUBSET S : Cardinality(s) <= n}
           F == {n \in Nat : \E g \in [Upto(n) -> Nat] : \A s \in Upto(n) : g[s] = Step(g, s)}
<1>0. \A s \in SUBSET S : IsFiniteSet(s) /\ Cardinality(s) \in Nat
  BY FS_Subset, FS_CardinalityType
<1>1. 0 \in F
  <2>1. Upto(0) \subseteq {{}}
    BY <1>0, FS_EmptySet
  <2>2. [s \in Upto(0) |-> 0] \in [Upto(0) -> Nat]
    OBVIOUS
  <2>3. \A s \in Upto(0) : [t \in Upto(0) |-> 0][s] = Step([t \in Upto(0) |-> 0], s)
    BY <2>1
  <2>4. QED
    BY <2>2, <2>3
<1>2. ASSUME NEW n \in F PROVE n + 1 \in F
  <2>1. PICK g \in [Upto(n) -> Nat] : \A s \in Upto(n) : g[s] = Step(g, s)
    OBVIOUS
  <2>2. ASSUME NEW s \in Upto(n + 1), s # {}
        PROVE  (CHOOSE x \in s : TRUE) \in s /\ s \ {CHOOSE x \in s : TRUE} \in Upto(n)
    <3>1. PICK x \in s : x = CHOOSE y \in s : TRUE
      BY <2>2
    <3>2. IsFiniteSet(s) /\ x \in s
      BY <1>0
    <3>3. Cardinality(s \ {x}) = Cardinality(s) - 1
      BY <3>2, FS_RemoveElement
    <3>4. QED
      BY <1>0, <3>1, <3>3
  <2> DEFINE h == [s \in Upto(n + 1) |-> Step(g, s)]
  <2>3. \A s \in Upto(n + 1) : h[s] \in Nat
    <3>1. ASSUME NEW s \in Upto(n + 1), s # {} PROVE h[s] \in Nat
      <4>1. PICK x \in s : x = (CHOOSE y \in s : TRUE) /\ s \ {x} \in Upto(n)
        BY <2>2, <3>1
      <4>2. Counted(x, column) \in Nat /\ g[s \ {x}] \in Nat
        BY <4>1
      <4>3. h[s] = Counted(x, column) + g[s \ {x}]
        BY <3>1, <4>1
      <4>4. QED
        BY <4>2, <4>3
    <3>2. QED
      BY <3>1
  <2>4. \A s \in Upto(n) : h[s] = g[s] /\ s \in Upto(n + 1)
    <3> HIDE DEF Step
    <3>1. n \in Nat
      BY <1>2
    <3>2. \A s \in Upto(n) : s \in Upto(n + 1)
      BY <1>0, <3>1
    <3>3. \A s \in Upto(n) : h[s] = Step(g, s)
      BY <3>2
    <3>4. QED
      BY <2>1, <3>2, <3>3
  <2>5. \A s \in Upto(n + 1) : h[s] = Step(h, s)
    <3>1. ASSUME NEW s \in Upto(n + 1), s # {} PROVE h[s] = Step(h, s)
      <4>1. PICK x \in s : x = (CHOOSE y \in s : TRUE) /\ s \ {x} \in Upto(n)
        BY <2>2, <3>1
      <4>2. h[s \ {x}] = g[s \ {x}]
        BY <2>4, <4>1
      <4>3. Step(h, s) = Counted(x, column) + h[s \ {x}]
        BY <3>1, <4>1
      <4>4. h[s] = Counted(x, column) + g[s \ {x}]
        BY <3>1, <4>1
      <4>5. QED
        BY <4>2, <4>3, <4>4
    <3>2. QED
      BY <3>1
  <2>6. h \in [Upto(n + 1) -> Nat]
    BY <2>3
  <2>7. n + 1 \in Nat
    OBVIOUS
  <2> HIDE DEF h
  <2>8. QED
    BY <2>5, <2>6, <2>7
<1>3. Cardinality(S) \in F
  <2> HIDE DEF F
  <2>1. F \in SUBSET Nat
    BY DEF F
  <2>2. F = Nat
    BY <1>1, <1>2, <2>1, EveryNatural
  <2>3. QED
    BY <1>0, <2>2
<1>4. Upto(Cardinality(S)) = SUBSET S
  BY <1>0, FS_Subset
<1>5. PICK g \in [SUBSET S -> Nat] : \A s \in SUBSET S : g[s] = Step(g, s)
  BY <1>3, <1>4
<1>6. g = [s \in SUBSET S |-> Step(g, s)]
  BY <1>5
<1>7. Total(S, column) = (CHOOSE i : i = [s \in SUBSET S |-> Step(i, s)])[S]
  BY DEF Total, MapThenSumSet, MapThenFoldSet, Counted
<1>8. PICK i : i = [s \in SUBSET S |-> Step(i, s)] /\ Total(S, column) = i[S]
  <2> HIDE DEF Step
  <2>1. \E i : i = [s \in SUBSET S |-> Step(i, s)]
    BY <1>6
  <2>2. QED
    BY <1>7, <2>1
<1> DEFINE E == {n \in Nat : \A s \in Upto(n) : i[s] \in Nat}
<1>9. 0 \in E
  <2>1. Upto(0) \subseteq {{}}
    BY <1>0, FS_EmptySet
  <2>2. i[{}] = Step(i, {})
    BY <1>8
  <2>3. i[{}] \in Nat
    BY <2>2
  <2>4. QED
    BY <2>1, <2>3
<1>10. ASSUME NEW n \in E PROVE n + 1 \in E
  <2>1. ASSUME NEW s \in Upto(n + 1) PROVE i[s] \in Nat
    <3>1. i[s] = Step(i, s)
      BY <1>8
    <3>2. CASE s # {}
      <4>1. PICK x \in s : x = CHOOSE y \in s : TRUE
        BY <3>2
      <4>2. IsFiniteSet(s) /\ x \in s
        BY <1>0
      <4>3. Cardinality(s \ {x}) = Cardinality(s) - 1
        BY <4>2, FS_RemoveElement
      <4>4. s \ {x} \in Upto(n)
        BY <1>0, <4>3
      <4>5. Counted(x, column) \in Nat /\ i[s \ {x}] \in Nat
        BY <4>4
      <4>6. QED
        BY <3>1, <3>2, <4>1, <4>5
    <3>3. QED
      BY <3>1, <3>2
  <2>2. QED
    BY <2>1
<1>11. Cardinality(S) \in E
  <2> HIDE DEF E
  <2>1. E \in SUBSET Nat
    BY DEF E
  <2>2. E = Nat
    BY <1>9, <1>10, <2>1, EveryNatural
  <2>3. QED
    BY <1>0, <2>2
<1>12. \A s \in SUBSET S : i[s] \in Nat
  BY <1>4, <1>11
<1>13. QED
  BY <1>8, <1>12

-----------------------------------------------------------------------------
(* Sorting by keys.                                                         *)

\* Keys of n places.
Key(n) == [1 .. n -> Int]

\* One key is before another when it is less at the first place where they differ.
LEMMA LexLessAt ==
  ASSUME NEW n \in Nat, NEW a \in Key(n), NEW b \in Key(n)
  PROVE  LexLess(a, b) <=>
           \E m \in 1 .. n : a[m] < b[m] /\ \A i \in 1 .. n : i < m => a[i] = b[i]
<1> DEFINE at == {i \in 1 .. n : a[i] # b[i]}
<1>1. DOMAIN a = 1 .. n /\ at \in SUBSET Nat
  BY DEF Key
<1>2. LexLess(a, b) <=> at # {} /\ a[Min(at)] < b[Min(at)]
  BY <1>1 DEF LexLess
<1>3. at # {} => Min(at) \in at /\ \A y \in at : Min(at) <= y
  BY <1>1, Least
<1>4. ASSUME at # {}, a[Min(at)] < b[Min(at)]
      PROVE  \E m \in 1 .. n : a[m] < b[m] /\ \A i \in 1 .. n : i < m => a[i] = b[i]
  <2>1. Min(at) \in 1 .. n /\ \A i \in 1 .. n : i < Min(at) => a[i] = b[i]
    BY <1>3, <1>4
  <2>2. QED
    BY <1>4, <2>1
<1>5. ASSUME NEW m \in 1 .. n, a[m] < b[m], \A i \in 1 .. n : i < m => a[i] = b[i]
      PROVE  at # {} /\ a[Min(at)] < b[Min(at)]
  <2>1. m \in at
    BY <1>5 DEF Key
  <2>2. Min(at) = m
    BY <1>3, <1>5, <2>1
  <2>3. QED
    BY <1>5, <2>1, <2>2
<1>6. QED
  BY <1>2, <1>4, <1>5

\* Keys of one length are totally ordered.
LEMMA LexLessOrders ==
  ASSUME NEW n \in Nat
  PROVE  /\ \A a \in Key(n) : ~LexLess(a, a)
         /\ \A a, b \in Key(n) : a # b => LexLess(a, b) \/ LexLess(b, a)
         /\ \A a, b, d \in Key(n) : LexLess(a, b) /\ LexLess(b, d) => LexLess(a, d)
<1>1. ASSUME NEW a \in Key(n) PROVE ~LexLess(a, a)
  BY LexLessAt DEF Key
<1>2. ASSUME NEW a \in Key(n), NEW b \in Key(n), a # b PROVE LexLess(a, b) \/ LexLess(b, a)
  <2> DEFINE at == {i \in 1 .. n : a[i] # b[i]}
  <2>1. at \in SUBSET Nat /\ at # {}
    BY <1>2 DEF Key
  <2>2. PICK m \in at : \A y \in at : m <= y
    BY <2>1, Least
  <2>3. \A i \in 1 .. n : i < m => a[i] = b[i]
    BY <2>2
  <2>4. m \in 1 .. n /\ (a[m] < b[m] \/ b[m] < a[m])
    BY DEF Key
  <2>5. QED
    BY <2>3, <2>4, LexLessAt
<1>3. ASSUME NEW a \in Key(n), NEW b \in Key(n), NEW d \in Key(n), LexLess(a, b), LexLess(b, d)
      PROVE  LexLess(a, d)
  <2>1. PICK l \in 1 .. n : a[l] < b[l] /\ \A i \in 1 .. n : i < l => a[i] = b[i]
    BY <1>3, LexLessAt
  <2>2. PICK m \in 1 .. n : b[m] < d[m] /\ \A i \in 1 .. n : i < m => b[i] = d[i]
    BY <1>3, LexLessAt
  <2>3. \A i \in 1 .. n : a[i] \in Int /\ b[i] \in Int /\ d[i] \in Int
    BY DEF Key
  <2>4. CASE l <= m
    <3>1. a[l] < d[l] /\ \A i \in 1 .. n : i < l => a[i] = d[i]
      BY <2>1, <2>2, <2>3, <2>4
    <3>2. QED
      BY <3>1, LexLessAt
  <2>5. CASE m < l
    <3>1. a[m] < d[m] /\ \A i \in 1 .. n : i < m => a[i] = d[i]
      BY <2>1, <2>2, <2>3, <2>5
    <3>2. QED
      BY <3>1, LexLessAt
  <2>6. QED
    BY <2>4, <2>5
<1>4. QED
  BY <1>1, <1>2, <1>3

\* What Ranked returns: each element once, in the order of the keys.
Sorted(r, S, key) ==
  /\ r \in [1 .. Cardinality(S) -> S]
  /\ \A x \in S : \E i \in 1 .. Cardinality(S) : r[i] = x
  /\ \A i, j \in 1 .. Cardinality(S) : r[i] = r[j] => i = j
  /\ \A i, j \in 1 .. Cardinality(S) : i < j => LexLess(key[r[i]], key[r[j]])

\* A finite set whose members have different keys is ranked: each member once, in the
\* order of the keys.
LEMMA RankedSorts ==
  ASSUME NEW S, IsFiniteSet(S), NEW n \in Nat, NEW key,
         \A x \in S : key[x] \in Key(n), \A x, y \in S : key[x] = key[y] => x = y
  PROVE  Sorted(Ranked(S, key), S, key)
<1> DEFINE N == Cardinality(S)
           Below(x) == {y \in S : LexLess(key[y], key[x])}
           place == [x \in S |-> 1 + Cardinality(Below(x))]
           r == [i \in 1 .. N |-> CHOOSE x \in S : place[x] = i]
<1>1. /\ \A x \in S : ~LexLess(key[x], key[x])
      /\ \A x, y \in S : x # y => LexLess(key[x], key[y]) \/ LexLess(key[y], key[x])
      /\ \A x, y, z \in S : LexLess(key[x], key[y]) /\ LexLess(key[y], key[z])
                              => LexLess(key[x], key[z])
  BY LexLessOrders
<1>2. \A x \in S : IsFiniteSet(Below(x)) /\ Cardinality(Below(x)) \in Nat
  BY FS_Subset, FS_CardinalityType
<1>3. N \in Nat
  BY FS_CardinalityType
<1>14. \A x \in S : place[x] = 1 + Cardinality(Below(x)) /\ place[x] \in Nat
  <2> HIDE DEF Below
  <2>1. QED
    BY <1>2
<1>4. ASSUME NEW x \in S, NEW y \in S, LexLess(key[x], key[y]) PROVE place[x] < place[y]
  <2>1. Below(x) \in SUBSET Below(y) /\ x \in Below(y) /\ x \notin Below(x)
    BY <1>1, <1>4
  <2>2. Cardinality(Below(x)) <= Cardinality(Below(y))
    BY <1>2, <2>1, FS_Subset
  <2>3. Cardinality(Below(x)) # Cardinality(Below(y))
    BY <1>2, <2>1, FS_Subset
  <2> HIDE DEF Below, place
  <2>4. QED
    BY <1>2, <1>14, <2>2, <2>3
<1>5. ASSUME NEW x \in S PROVE place[x] \in 1 .. N
  <2>1. Below(x) \in SUBSET S /\ x \notin Below(x)
    BY <1>1
  <2>2. Cardinality(Below(x)) <= N /\ Cardinality(Below(x)) # N
    BY <2>1, FS_Subset
  <2> HIDE DEF Below, place
  <2>3. QED
    BY <1>2, <1>3, <1>14, <2>2
<1>6. \A x, y \in S : place[x] = place[y] => x = y
  <2> HIDE DEF place
  <2>1. SUFFICES ASSUME NEW x \in S, NEW y \in S, place[x] = place[y], x # y PROVE FALSE
    OBVIOUS
  <2>2. LexLess(key[x], key[y]) \/ LexLess(key[y], key[x])
    BY <1>1, <2>1
  <2>3. place[x] < place[y] \/ place[y] < place[x]
    BY <1>4, <2>2
  <2>4. place[x] \in Nat /\ place[y] \in Nat
    BY <1>14
  <2>5. QED
    BY <2>1, <2>3, <2>4
<1>7. \A i \in 1 .. N : \E x \in S : place[x] = i
  <2>1. place \in [S -> 1 .. N] /\ IsInjective(place)
    <3>1. DOMAIN place = S /\ place = [x \in S |-> place[x]]
      OBVIOUS
    <3> HIDE DEF place
    <3>2. QED
      BY <1>5, <1>6, <3>1 DEF IsInjective
  <2>2. place \in Injection(S, 1 .. N)
    BY <2>1 DEF Injection
  <2>3. IsFiniteSet(1 .. N) /\ Cardinality(1 .. N) = N
    BY <1>3, FS_Interval
  <2>4. place \in Surjection(S, 1 .. N)
    <3> HIDE DEF place
    <3>1. QED
      BY <2>2, <2>3, FS_Injection
  <2>5. QED
    BY <2>4 DEF Surjection
<1>8. \A i \in 1 .. N : r[i] \in S /\ place[r[i]] = i
  <2> HIDE DEF place
  <2>1. QED
    BY <1>7
<1>9. \A x \in S : place[x] \in 1 .. N /\ r[place[x]] = x
  <2> HIDE DEF place, r
  <2>1. QED
    BY <1>5, <1>6, <1>8
<1>10. \A i, j \in 1 .. N : i < j => LexLess(key[r[i]], key[r[j]])
  <2>1. SUFFICES ASSUME NEW i \in 1 .. N, NEW j \in 1 .. N, i < j
                 PROVE  LexLess(key[r[i]], key[r[j]])
    OBVIOUS
  <2> HIDE DEF place, r
  <2>2. PICK x \in S : x = r[i] /\ place[x] = i
    BY <1>8
  <2>3. PICK y \in S : y = r[j] /\ place[y] = j
    BY <1>8
  <2>4. x # y /\ ~LexLess(key[y], key[x])
    BY <1>4, <2>1, <2>2, <2>3
  <2>5. QED
    BY <1>1, <2>2, <2>3, <2>4
<1>11. Ranked(S, key) = r
  BY DEF Ranked
<1>12. r \in [1 .. N -> S]
  <2> HIDE DEF place
  <2>1. QED
    BY <1>7
<1>13. QED
  <2> HIDE DEF place, r
  <2>2. \A i, j \in 1 .. N : r[i] = r[j] => i = j
    BY <1>8
  <2>3. QED
    BY <1>9, <1>10, <1>11, <1>12, <2>2 DEF Sorted

-----------------------------------------------------------------------------
(* Flattening.                                                              *)

\* F holds the elements of the first m sequences of s: each of its places is one
\* place of one of them.
FlatBy(F, s, m, row, col) ==
  /\ \A k \in 1 .. Len(F) : col[k] \in 1 .. Len(s[row[k]]) /\ F[k] = s[row[k]][col[k]]
  /\ \A i \in 1 .. m : \A j \in 1 .. Len(s[i]) : \E k \in 1 .. Len(F) : row[k] = i /\ col[k] = j
  /\ \A k, l \in 1 .. Len(F) : row[k] = row[l] /\ col[k] = col[l] => k = l

Flat(F, s, m) ==
  \E row \in [1 .. Len(F) -> 1 .. m], col \in [1 .. Len(F) -> Nat] : FlatBy(F, s, m, row, col)

\* The first sequence, and then one more at a time.
LEMMA FlatFirst ==
  ASSUME NEW T, NEW s \in Seq(Seq(T)), Len(s) # 0
  PROVE  s[1] \in Seq(T) /\ Flat(s[1], s, 1)
<1>1. s[1] \in Seq(T) /\ Len(s[1]) \in Nat
  OBVIOUS
<1> DEFINE row == [k \in 1 .. Len(s[1]) |-> 1]
           col == [k \in 1 .. Len(s[1]) |-> k]
<1>2. row \in [1 .. Len(s[1]) -> 1 .. 1] /\ col \in [1 .. Len(s[1]) -> Nat]
  BY <1>1
<1>3. \A k \in 1 .. Len(s[1]) : row[k] = 1 /\ col[k] = k
  OBVIOUS
<1>4. \A i \in 1 .. 1 : i = 1
  OBVIOUS
<1>5. QED
  <2> HIDE DEF row, col
  <2>1. FlatBy(s[1], s, 1, row, col)
    BY <1>1, <1>3, <1>4 DEF FlatBy
  <2>2. QED
    BY <1>1, <1>2, <2>1 DEF Flat

LEMMA FlatNext ==
  ASSUME NEW T, NEW s \in Seq(Seq(T)), NEW m \in Nat, m + 1 \in 1 .. Len(s),
         NEW F \in Seq(T), Flat(F, s, m)
  PROVE  F \o s[m + 1] \in Seq(T) /\ Flat(F \o s[m + 1], s, m + 1)
<1>1. s[m + 1] \in Seq(T) /\ Len(s[m + 1]) \in Nat /\ Len(F) \in Nat
  OBVIOUS
<1>2. PICK row \in [1 .. Len(F) -> 1 .. m], col \in [1 .. Len(F) -> Nat] :
        FlatBy(F, s, m, row, col)
  BY DEF Flat
<1> DEFINE t == s[m + 1]
           G == F \o t
           r == [k \in 1 .. Len(G) |-> IF k <= Len(F) THEN row[k] ELSE m + 1]
           c == [k \in 1 .. Len(G) |-> IF k <= Len(F) THEN col[k] ELSE k - Len(F)]
<1>3. /\ G \in Seq(T) /\ Len(G) = Len(F) + Len(t)
      /\ \A k \in 1 .. Len(F) : G[k] = F[k]
      /\ \A k \in 1 .. Len(t) : G[Len(F) + k] = t[k]
  BY <1>1
<1>4. \A k \in 1 .. Len(F) : k \in 1 .. Len(G) /\ r[k] = row[k] /\ c[k] = col[k]
  BY <1>1, <1>3
<1>5. \A k \in 1 .. Len(t) : /\ Len(F) + k \in 1 .. Len(G)
                             /\ r[Len(F) + k] = m + 1 /\ c[Len(F) + k] = k
  BY <1>1, <1>3
<1>6. \A k \in 1 .. Len(G) : k \in 1 .. Len(F) \/ \E j \in 1 .. Len(t) : k = Len(F) + j
  <2>1. \A k \in 1 .. Len(G) : k \in 1 .. Len(F) \/ (k - Len(F) \in 1 .. Len(t) /\ k = Len(F) + (k - Len(F)))
    BY <1>1, <1>3
  <2>2. QED
    BY <2>1
<1>7. \A k \in 1 .. Len(F) : row[k] \in 1 .. m /\ col[k] \in Nat
  OBVIOUS
<1>8. r \in [1 .. Len(G) -> 1 .. m + 1] /\ c \in [1 .. Len(G) -> Nat]
  <2>1. \A k \in 1 .. Len(G) : r[k] \in 1 .. m + 1 /\ c[k] \in Nat
    <3>1. \A k \in 1 .. Len(F) : r[k] \in 1 .. m + 1 /\ c[k] \in Nat
      BY <1>4, <1>7
    <3>2. \A j \in 1 .. Len(t) : r[Len(F) + j] \in 1 .. m + 1 /\ c[Len(F) + j] \in Nat
      BY <1>5
    <3> HIDE DEF r, c, G, t
    <3>3. QED
      BY <1>6, <3>1, <3>2
  <2>2. r = [k \in 1 .. Len(G) |-> r[k]] /\ c = [k \in 1 .. Len(G) |-> c[k]]
    BY Zenon
  <2> HIDE DEF r, c
  <2>3. QED
    BY <2>1, <2>2
<1> HIDE DEF r, c, G, t
<1>9. \A k \in 1 .. Len(G) : c[k] \in 1 .. Len(s[r[k]]) /\ G[k] = s[r[k]][c[k]]
  <2>1. \A k \in 1 .. Len(F) : c[k] \in 1 .. Len(s[r[k]]) /\ G[k] = s[r[k]][c[k]]
    BY <1>2, <1>3, <1>4 DEF FlatBy
  <2>2. \A j \in 1 .. Len(t) : /\ c[Len(F) + j] \in 1 .. Len(s[r[Len(F) + j]])
                               /\ G[Len(F) + j] = s[r[Len(F) + j]][c[Len(F) + j]]
    BY <1>3, <1>5 DEF t
  <2>3. QED
    BY <1>6, <2>1, <2>2
<1>10. \A i \in 1 .. m + 1 : \A j \in 1 .. Len(s[i]) : \E k \in 1 .. Len(G) : r[k] = i /\ c[k] = j
  <2>1. ASSUME NEW i \in 1 .. m, NEW j \in 1 .. Len(s[i])
        PROVE  \E k \in 1 .. Len(G) : r[k] = i /\ c[k] = j
    <3>1. PICK k \in 1 .. Len(F) : row[k] = i /\ col[k] = j
      BY <1>2 DEF FlatBy
    <3>2. k \in 1 .. Len(G) /\ r[k] = i /\ c[k] = j
      BY <1>4, <3>1
    <3>3. QED
      BY <3>2
  <2>2. ASSUME NEW j \in 1 .. Len(s[m + 1])
        PROVE  \E k \in 1 .. Len(G) : r[k] = m + 1 /\ c[k] = j
    BY <1>5 DEF t
  <2>3. \A i \in 1 .. m + 1 : i \in 1 .. m \/ i = m + 1
    OBVIOUS
  <2>4. QED
    BY <2>1, <2>2, <2>3
<1>11. \A k, l \in 1 .. Len(G) : r[k] = r[l] /\ c[k] = c[l] => k = l
  <2>1. SUFFICES ASSUME NEW k \in 1 .. Len(G), NEW l \in 1 .. Len(G), r[k] = r[l], c[k] = c[l]
                 PROVE  k = l
    OBVIOUS
  <2>2. \A j \in 1 .. Len(F) : r[j] # m + 1
    BY <1>4, <1>7
  <2>3. CASE r[k] = m + 1
    <3>1. PICK i \in 1 .. Len(t) : k = Len(F) + i
      BY <1>6, <2>2, <2>3
    <3>2. PICK j \in 1 .. Len(t) : l = Len(F) + j
      BY <1>6, <2>1, <2>2, <2>3
    <3>3. c[k] = i /\ c[l] = j
      BY <1>5, <3>1, <3>2
    <3>4. QED
      BY <2>1, <3>1, <3>2, <3>3
  <2>4. CASE r[k] # m + 1
    <3>1. k \in 1 .. Len(F) /\ l \in 1 .. Len(F)
      BY <1>5, <1>6, <2>1, <2>4
    <3>2. QED
      BY <1>2, <1>4, <2>1, <3>1 DEF FlatBy
  <2>5. QED
    BY <2>3, <2>4
<1>12. Flat(G, s, m + 1)
  <2>1. FlatBy(G, s, m + 1, r, c)
    BY <1>9, <1>10, <1>11 DEF FlatBy
  <2>2. QED
    BY <1>8, <2>1 DEF Flat
<1>13. QED
  BY <1>3, <1>12 DEF G, t

\* Flattening keeps every place of every sequence, in order.
LEMMA Flattened ==
  ASSUME NEW T, NEW s \in Seq(Seq(T))
  PROVE  FlattenSeq(s) \in Seq(T) /\ Flat(FlattenSeq(s), s, Len(s))
<1> DEFINE Step(g, i) == IF i = 1 THEN s[i] ELSE g[i - 1] \o s[i]
           E == {n \in Nat : \E g : g = [i \in 1 .. n |-> Step(g, i)]}
<1>1. CASE Len(s) = 0
  <2>1. FlattenSeq(s) = s /\ s = <<>>
    BY <1>1 DEF FlattenSeq
  <2>2. <<>> \in [1 .. Len(<<>>) -> 1 .. 0] /\ <<>> \in [1 .. Len(<<>>) -> Nat]
    OBVIOUS
  <2>3. FlatBy(<<>>, s, 0, <<>>, <<>>)
    BY DEF FlatBy
  <2>5. Flat(<<>>, s, 0)
    BY <2>2, <2>3 DEF Flat
  <2>4. QED
    BY <1>1, <2>1, <2>5
<1>2. CASE Len(s) # 0
  <2>1. 0 \in E
    <3>1. <<>> = [i \in 1 .. 0 |-> Step(<<>>, i)]
      OBVIOUS
    <3> HIDE DEF Step
    <3>2. QED
      BY <3>1
  <2>2. ASSUME NEW n \in E PROVE n + 1 \in E
    <3>1. PICK g : g = [i \in 1 .. n |-> Step(g, i)]
      OBVIOUS
    <3>2. n \in Nat
      BY <2>2
    <3> DEFINE h == [i \in 1 .. n + 1 |-> Step(g, i)]
    <3>3. \A i \in 1 .. n : i \in 1 .. n + 1 /\ h[i] = g[i]
      <4> HIDE DEF Step
      <4>1. \A i \in 1 .. n : g[i] = Step(g, i)
        BY <3>1
      <4>2. QED
        BY <3>2, <4>1
    <3>4. \A i \in 1 .. n + 1 : i = 1 \/ i - 1 \in 1 .. n
      BY <3>2
    <3>5. \A i \in 1 .. n + 1 : Step(g, i) = Step(h, i)
      <4> HIDE DEF h
      <4>1. QED
        BY <3>3, <3>4
    <3>6. h = [i \in 1 .. n + 1 |-> Step(h, i)]
      <4> HIDE DEF Step
      <4>1. QED
        BY <3>5
    <3>7. QED
      <4> HIDE DEF h, Step
      <4>1. QED
        BY <3>2, <3>6
  <2>3. Len(s) \in E
    <3> HIDE DEF E
    <3>1. E \in SUBSET Nat
      BY DEF E
    <3>2. E = Nat
      BY <2>1, <2>2, <3>1, EveryNatural
    <3>3. Len(s) \in Nat
      OBVIOUS
    <3>4. QED
      BY <3>2, <3>3
  <2>4. FlattenSeq(s) = (CHOOSE g : g = [i \in 1 .. Len(s) |-> Step(g, i)])[Len(s)]
    BY <1>2 DEF FlattenSeq
  <2>5. PICK g : g = [i \in 1 .. Len(s) |-> Step(g, i)] /\ FlattenSeq(s) = g[Len(s)]
    <3> HIDE DEF Step
    <3>1. QED
      BY <2>3, <2>4
  <2>6. \A i \in 1 .. Len(s) : g[i] = Step(g, i)
    <3> HIDE DEF Step
    <3>1. QED
      BY <2>5
  <2> DEFINE P == {n \in Nat : n \in 1 .. Len(s) => g[n] \in Seq(T) /\ Flat(g[n], s, n)}
  <2>7. 0 \in P
    OBVIOUS
  <2>8. ASSUME NEW n \in P PROVE n + 1 \in P
    <3>1. SUFFICES ASSUME n + 1 \in 1 .. Len(s)
                   PROVE  g[n + 1] \in Seq(T) /\ Flat(g[n + 1], s, n + 1)
      OBVIOUS
    <3>2. n \in Nat /\ (n = 0 \/ n \in 1 .. Len(s))
      BY <3>1
    <3>3. CASE n = 0
      <4>1. g[1] = s[1]
        BY <2>6, <3>1, <3>3
      <4>2. QED
        BY <1>2, <3>3, <4>1, FlatFirst
    <3>4. CASE n # 0
      <4>1. g[n + 1] = g[n] \o s[n + 1]
        <5>1. g[n + 1] = Step(g, n + 1)
          BY <2>6, <3>1
        <5>2. n + 1 # 1 /\ (n + 1) - 1 = n
          BY <3>2, <3>4
        <5>3. Step(g, n + 1) = g[(n + 1) - 1] \o s[n + 1]
          BY <5>2
        <5>4. QED
          BY <5>1, <5>2, <5>3
      <4>2. g[n] \in Seq(T) /\ Flat(g[n], s, n)
        BY <3>2, <3>4
      <4>3. QED
        BY <3>1, <3>2, <4>1, <4>2, FlatNext
    <3>5. QED
      BY <3>3, <3>4
  <2>9. Len(s) \in P
    <3> HIDE DEF P
    <3>1. P \in SUBSET Nat
      BY DEF P
    <3>2. P = Nat
      BY <2>7, <2>8, <3>1, EveryNatural
    <3>3. Len(s) \in Nat
      OBVIOUS
    <3>4. QED
      BY <3>2, <3>3
  <2>10. QED
    BY <1>2, <2>5, <2>9
<1>3. QED
  BY <1>1, <1>2

\* What a flattened sequence holds is what its sequences hold.
LEMMA FlatElements ==
  ASSUME NEW T, NEW s \in Seq(Seq(T))
  PROVE  /\ FlattenSeq(s) \in Seq(T)
         /\ \A x : x \in Range(FlattenSeq(s)) <=> \E i \in 1 .. Len(s) : x \in Range(s[i])
<1> DEFINE F == FlattenSeq(s)
<1>1. F \in Seq(T) /\ Flat(F, s, Len(s))
  BY Flattened
<1> HIDE DEF F
<1>2. PICK row \in [1 .. Len(F) -> 1 .. Len(s)], col \in [1 .. Len(F) -> Nat] :
        FlatBy(F, s, Len(s), row, col)
  BY <1>1 DEF Flat
<1>3. DOMAIN F = 1 .. Len(F) /\ \A i \in 1 .. Len(s) : DOMAIN s[i] = 1 .. Len(s[i])
  BY <1>1
<1>4. ASSUME NEW x \in Range(F) PROVE \E i \in 1 .. Len(s) : x \in Range(s[i])
  <2>1. PICK k \in 1 .. Len(F) : x = F[k]
    BY <1>3 DEF Range
  <2>2. row[k] \in 1 .. Len(s) /\ col[k] \in 1 .. Len(s[row[k]]) /\ x = s[row[k]][col[k]]
    BY <1>2, <2>1 DEF FlatBy
  <2>3. QED
    BY <1>3, <2>2 DEF Range
<1>5. ASSUME NEW i \in 1 .. Len(s), NEW x \in Range(s[i]) PROVE x \in Range(F)
  <2>1. PICK j \in 1 .. Len(s[i]) : x = s[i][j]
    BY <1>3 DEF Range
  <2>2. PICK k \in 1 .. Len(F) : row[k] = i /\ col[k] = j
    BY <1>2 DEF FlatBy
  <2>3. F[k] = s[row[k]][col[k]]
    BY <1>2 DEF FlatBy
  <2>4. QED
    BY <1>3, <2>1, <2>2, <2>3 DEF Range
<1>6. QED
  BY <1>1, <1>4, <1>5 DEF F

\* An interval counts its members.
LEMMA IntervalCount == \A n \in Nat : IsFiniteSet(1 .. n) /\ Cardinality(1 .. n) = n
<1>1. ASSUME NEW n \in Nat PROVE IsFiniteSet(1 .. n) /\ Cardinality(1 .. n) = n
  <2>1. 1 \in Int /\ n \in Int
    OBVIOUS
  <2>2. IsFiniteSet(1 .. n) /\ Cardinality(1 .. n) = IF 1 > n THEN 0 ELSE n - 1 + 1
    BY <2>1, FS_Interval
  <2>3. QED
    BY <2>2
<1>2. QED
  BY <1>1

\* A sequence without repetitions has as many elements as places.
LEMMA CountDistinct ==
  ASSUME NEW n \in Nat, NEW S, NEW g \in [1 .. n -> S],
         \A x \in S : \E i \in 1 .. n : g[i] = x,
         \A i, j \in 1 .. n : g[i] = g[j] => i = j
  PROVE  IsFiniteSet(S) /\ Cardinality(S) = n
<1>1. g \in Bijection(1 .. n, S)
  BY DEF Bijection, Injection, Surjection, IsInjective
<1>2. ExistsBijection(1 .. n, S)
  BY <1>1 DEF ExistsBijection
<1>3. IsFiniteSet(1 .. n)
  BY IntervalCount
<1>4. Cardinality(S) = n
  BY <1>2, FS_CountingElements
<1>5. IsFiniteSet(S)
  BY <1>2, <1>3, FS_Bijection
<1>6. QED
  BY <1>4, <1>5

\* Each element of a flattened sequence is distinct when the elements of the parts are.
LEMMA FlatDistinct ==
  ASSUME NEW T, NEW s \in Seq(Seq(T)),
         \A i, l \in 1 .. Len(s) : \A j \in 1 .. Len(s[i]) : \A m \in 1 .. Len(s[l]) :
           s[i][j].id = s[l][m].id => i = l /\ j = m
  PROVE  /\ \A k, l \in 1 .. Len(FlattenSeq(s)) :
              FlattenSeq(s)[k].id = FlattenSeq(s)[l].id => k = l
         /\ Cardinality({x.id : x \in Range(FlattenSeq(s))}) = Len(FlattenSeq(s))
<1> DEFINE F == FlattenSeq(s)
           g == [k \in 1 .. Len(F) |-> F[k].id]
<1>1. F \in Seq(T) /\ Flat(F, s, Len(s))
  BY Flattened
<1>2. PICK row \in [1 .. Len(F) -> 1 .. Len(s)], col \in [1 .. Len(F) -> Nat] :
        FlatBy(F, s, Len(s), row, col)
  BY <1>1 DEF Flat
<1> HIDE DEF F
<1>3. Len(F) \in Nat /\ DOMAIN F = 1 .. Len(F)
  BY <1>1
<1>4. ASSUME NEW k \in 1 .. Len(F), NEW l \in 1 .. Len(F), F[k].id = F[l].id PROVE k = l
  <2>1. /\ row[k] \in 1 .. Len(s) /\ col[k] \in 1 .. Len(s[row[k]]) /\ F[k] = s[row[k]][col[k]]
        /\ row[l] \in 1 .. Len(s) /\ col[l] \in 1 .. Len(s[row[l]]) /\ F[l] = s[row[l]][col[l]]
    BY <1>2 DEF FlatBy
  <2>2. PICK i, m, j, o : i = row[k] /\ m = row[l] /\ j = col[k] /\ o = col[l]
    OBVIOUS
  <2>3. /\ i \in 1 .. Len(s) /\ m \in 1 .. Len(s) /\ j \in 1 .. Len(s[i]) /\ o \in 1 .. Len(s[m])
        /\ s[i][j].id = s[m][o].id
    BY <1>4, <2>1, <2>2
  <2>4. i = m /\ j = o
    BY <2>3
  <2>5. row[k] = row[l] /\ col[k] = col[l]
    BY <2>2, <2>4
  <2>6. QED
    BY <1>2, <2>5 DEF FlatBy
<1> DEFINE I == {x.id : x \in Range(F)}
<1>5. g \in [1 .. Len(F) -> I] /\ \A x \in I : \E k \in 1 .. Len(F) : g[k] = x
  BY <1>3 DEF Range
<1>6. \A k, l \in 1 .. Len(F) : g[k] = g[l] => k = l
  BY <1>4
<1>7. Cardinality(I) = Len(F)
  <2> HIDE DEF g, I
  <2>1. QED
    BY <1>3, <1>5, <1>6, CountDistinct
<1>8. QED
  BY <1>4, <1>7 DEF F

\* Sequences of the same lengths flatten to sequences of the same length.
LEMMA FlatLength ==
  ASSUME NEW T, NEW s \in Seq(Seq(T)), NEW U, NEW t \in Seq(Seq(U)), Len(s) = Len(t),
         \A i \in 1 .. Len(s) : Len(s[i]) = Len(t[i])
  PROVE  Len(FlattenSeq(s)) <= Len(FlattenSeq(t))
<1> DEFINE F == FlattenSeq(s)
           G == FlattenSeq(t)
<1>1. F \in Seq(T) /\ Flat(F, s, Len(s)) /\ G \in Seq(U) /\ Flat(G, t, Len(t))
  BY Flattened
<1> HIDE DEF F, G
<1>2. PICK row \in [1 .. Len(F) -> 1 .. Len(s)], col \in [1 .. Len(F) -> Nat] :
        FlatBy(F, s, Len(s), row, col)
  BY <1>1 DEF Flat
<1>3. PICK r \in [1 .. Len(G) -> 1 .. Len(t)], c \in [1 .. Len(G) -> Nat] :
        FlatBy(G, t, Len(t), r, c)
  BY <1>1 DEF Flat
<1>4. Len(F) \in Nat /\ Len(G) \in Nat
  BY <1>1
<1>5. \A k \in 1 .. Len(F) : \E l \in 1 .. Len(G) : r[l] = row[k] /\ c[l] = col[k]
  <2>1. SUFFICES ASSUME NEW k \in 1 .. Len(F)
                 PROVE  \E l \in 1 .. Len(G) : r[l] = row[k] /\ c[l] = col[k]
    OBVIOUS
  <2>2. row[k] \in 1 .. Len(t) /\ col[k] \in 1 .. Len(t[row[k]])
    BY <1>2 DEF FlatBy
  <2>3. QED
    BY <1>3, <2>2 DEF FlatBy
<1> DEFINE f == [k \in 1 .. Len(F) |-> CHOOSE l \in 1 .. Len(G) : r[l] = row[k] /\ c[l] = col[k]]
<1>6. \A k \in 1 .. Len(F) : f[k] \in 1 .. Len(G) /\ r[f[k]] = row[k] /\ c[f[k]] = col[k]
  BY <1>5
<1>7. f \in [1 .. Len(F) -> 1 .. Len(G)]
  BY <1>5
<1> HIDE DEF f
<1>8. \A k, l \in 1 .. Len(F) : f[k] = f[l] => k = l
  <2>1. SUFFICES ASSUME NEW k \in 1 .. Len(F), NEW l \in 1 .. Len(F), f[k] = f[l] PROVE k = l
    OBVIOUS
  <2>2. row[k] = row[l] /\ col[k] = col[l]
    BY <1>6, <2>1
  <2>3. QED
    BY <1>2, <2>2 DEF FlatBy
<1>9. f \in Injection(1 .. Len(F), 1 .. Len(G))
  BY <1>7, <1>8 DEF Injection, IsInjective
<1>10. /\ IsFiniteSet(1 .. Len(G)) /\ Cardinality(1 .. Len(G)) = Len(G)
       /\ Cardinality(1 .. Len(F)) = Len(F)
  <2>1. \A n \in Nat : IsFiniteSet(1 .. n) /\ Cardinality(1 .. n) = n
    BY IntervalCount
  <2>2. QED
    BY <1>4, <2>1
<1>11. Cardinality(1 .. Len(F)) <= Cardinality(1 .. Len(G))
  BY <1>9, <1>10, FS_Injection
<1>12. QED
  BY <1>10, <1>11 DEF F, G

\* The elements of a sequence at some of its places.
LEMMA AtElements ==
  ASSUME NEW T, NEW s \in Seq(T), NEW places
  PROVE  /\ At(s, places) \in Seq(T)
         /\ Range(At(s, places)) = {s[i] : i \in 1 .. Len(s) \cap places}
<1> DEFINE p == [i \in DOMAIN s |-> IF i \in places THEN <<s[i]>> ELSE <<>>]
<1>1. p \in Seq(Seq(T)) /\ Len(p) = Len(s) /\ DOMAIN s = 1 .. Len(s)
  <2>1. DOMAIN s = 1 .. Len(s) /\ Len(s) \in Nat /\ \A i \in 1 .. Len(s) : s[i] \in T
    OBVIOUS
  <2>2. \A i \in 1 .. Len(s) : (IF i \in places THEN <<s[i]>> ELSE <<>>) \in Seq(T)
    BY <2>1
  <2>3. p \in [1 .. Len(s) -> Seq(T)]
    BY <2>1, <2>2
  <2> HIDE DEF p
  <2>4. QED
    BY <2>1, <2>3
<1>2. \A i \in 1 .. Len(s) : Range(p[i]) = IF i \in places THEN {s[i]} ELSE {}
  BY <1>1 DEF Range
<1>3. At(s, places) = FlattenSeq(p)
  BY DEF At
<1> HIDE DEF p
<1>4. /\ FlattenSeq(p) \in Seq(T)
      /\ \A x : x \in Range(FlattenSeq(p)) <=> \E i \in 1 .. Len(p) : x \in Range(p[i])
  BY <1>1, FlatElements
<1>5. ASSUME NEW x PROVE x \in Range(FlattenSeq(p)) <=> x \in {s[i] : i \in 1 .. Len(s) \cap places}
  <2>1. ASSUME NEW i \in 1 .. Len(s) PROVE x \in Range(p[i]) <=> i \in places /\ x = s[i]
    BY <1>2
  <2>2. (\E i \in 1 .. Len(p) : x \in Range(p[i])) <=> \E i \in 1 .. Len(s) : i \in places /\ x = s[i]
    BY <1>1, <2>1
  <2>3. QED
    BY <1>4, <2>2
<1>6. Range(FlattenSeq(p)) = {s[i] : i \in 1 .. Len(s) \cap places}
  BY <1>5
<1>7. QED
  BY <1>3, <1>4, <1>6

-----------------------------------------------------------------------------
(* The context.                                                             *)

\* What the layers need of a context, and every context the queries assemble has.
IsWorld(c) ==
  /\ IsFiniteSet(c.signals) /\ IsFiniteSet(c.campaigns)
  /\ \A s \in c.signals : s.impact \in Nat
  /\ \A l \in c.leakage : l.observed \in Nat /\ l.denominator \in Nat
  /\ \A d \in c.campaigns : d.name \in Range(CampaignNames)
  /\ \A d, e \in c.campaigns : d.name = e.name => d = e

Columns == {"spend", "conversions", "orders", "unresolved", "matched", "confirmed", "shipped",
            "delivered", "returned"}
\* The columns of the outcome rows, and rows of them.
AreRows(rows) == IsFiniteSet(rows) /\ \A r \in rows : IsOutcomeRow(r)

\* Every column of the outcome rows has a total.
LEMMA TotalOfRows ==
  ASSUME NEW rows, AreRows(rows), NEW S \in SUBSET rows, NEW column \in Columns
  PROVE  Total(S, column) \in Nat
<1>1. IsFiniteSet(S)
  BY FS_Subset DEF AreRows
<1>2. \A r \in S : Counted(r, column) \in Nat
  BY DEF AreRows, IsOutcomeRow, Counted, Columns, None
<1>3. QED
  BY <1>1, <1>2, TotalIsNat

\* A ratio is an integer even when there is none, and is negative only then or when what
\* is divided is.
LEMMA RatioIsInt ==
  ASSUME NEW n \in Int, NEW scale \in Nat, NEW d \in Int
  PROVE  /\ Ratio(n, scale, d) \in Int
         /\ n >= 0 /\ Ratio(n, scale, d) # None => Ratio(n, scale, d) >= 0
<1>1. n * scale \in Int /\ (n >= 0 => n * scale >= 0)
  OBVIOUS
<1>2. ASSUME NEW m \in Int, NEW k \in Int, k > 0 PROVE m \div k \in Int /\ (m >= 0 => m \div k >= 0)
  BY <1>2
<1>3. QED
  BY <1>1, <1>2 DEF Ratio, None

\* What the diagnosis of a campaign states.
LEMMA DiagnosticFacts ==
  ASSUME NEW rows, AreRows(rows), NEW r \in rows
  PROVE  LET d == Diagnostic(rows, r) IN
         /\ d.name \in Range(CampaignNames)
         /\ d.cost \in Int /\ d.peerCost \in Int /\ d.deliveryGap \in Int /\ d.excessReturns \in Int
         /\ d.peerCost # None => d.peerCost >= 0
<1> DEFINE P(column) == Total(rows \ {r}, column)
           d == Diagnostic(rows, r)
<1>1. \A column \in Columns : P(column) \in Nat
  BY TotalOfRows
<1>2. /\ r.name \in Range(CampaignNames) /\ r.spend \in Nat \cup {None}
      /\ r.orders \in Nat /\ r.shipped \in Nat /\ r.delivered \in Nat /\ r.returned \in Nat
  BY DEF AreRows, IsOutcomeRow
<1>3. /\ P("spend") \in Nat /\ P("orders") \in Nat /\ P("delivered") \in Nat
      /\ P("shipped") \in Nat /\ P("returned") \in Nat
  BY <1>1 DEF Columns
<1>4. /\ d.name = r.name /\ d.cost = Ratio(r.spend, 100, r.orders)
      /\ d.peerCost = IF r.spend = None THEN None ELSE Ratio(P("spend"), 100, P("orders"))
      /\ d.deliveryGap = Ratio(r.shipped, P("delivered"), P("shipped")) - r.delivered
      /\ d.excessReturns = r.returned - Ratio(r.shipped, P("returned"), P("shipped"))
  BY DEF Diagnostic
<1> HIDE DEF P, d
<1>5. /\ Ratio(r.spend, 100, r.orders) \in Int
      /\ Ratio(P("spend"), 100, P("orders")) \in Int
      /\ Ratio(P("spend"), 100, P("orders")) # None => Ratio(P("spend"), 100, P("orders")) >= 0
      /\ Ratio(r.shipped, P("delivered"), P("shipped")) \in Int
      /\ Ratio(r.shipped, P("returned"), P("shipped")) \in Int
  <2>1. r.spend \in Int /\ r.orders \in Int /\ r.shipped \in Int
    BY <1>2 DEF None
  <2>2. Ratio(r.spend, 100, r.orders) \in Int
    BY <2>1, RatioIsInt
  <2>3. \A n, k \in Nat : /\ Ratio(n, 100, k) \in Int
                         /\ Ratio(n, 100, k) # None => Ratio(n, 100, k) >= 0
    BY RatioIsInt
  <2>4. \A n, m, k \in Nat : Ratio(n, m, k) \in Int
    BY RatioIsInt
  <2>5. QED
    BY <1>2, <1>3, <2>2, <2>3, <2>4
<1>6. QED
  BY <1>2, <1>4, <1>5 DEF None, d

\* The image of a finite set is finite.
LEMMA ImageFinite ==
  ASSUME NEW S, IsFiniteSet(S), NEW T, NEW f \in [S -> T], \A y \in T : \E x \in S : f[x] = y
  PROVE  IsFiniteSet(T)
<1>1. f \in Surjection(S, T)
  BY DEF Surjection
<1>2. QED
  BY <1>1, FS_Surjection

\* Finitely many rows have finitely many diagnostics.
LEMMA DiagnosticsFinite ==
  ASSUME NEW rows, IsFiniteSet(rows) PROVE IsFiniteSet(Diagnostics(rows))
<1> DEFINE f == [r \in rows |-> Diagnostic(rows, r)]
<1>1. f \in [rows -> Diagnostics(rows)] /\ \A d \in Diagnostics(rows) : \E r \in rows : f[r] = d
  BY DEF Diagnostics
<1> HIDE DEF f
<1>2. QED
  BY <1>1, ImageFinite

\* The signals of the views: what each counts is positive, or the excess over a cost
\* that is exceeded.
LEMMA SignalFacts ==
  ASSUME NEW rows, AreRows(rows)
  PROVE  IsFiniteSet(Signals(rows)) /\ \A s \in Signals(rows) : s.impact \in Nat
<1> DEFINE D == Diagnostics(rows)
           A == {d \in D : /\ d.fulfillmentBand # LOW /\ d.deliveryGap > 0
                           /\ AtLeast(d.peerDelivery, d.delivery, 100)}
           B == {d \in D : /\ d.fulfillmentBand # LOW /\ d.excessReturns > 0
                           /\ AtLeast(d.return, d.peerReturn, 100)}
           E == {d \in D : /\ d.acquisitionBand # LOW
                           /\ d.cost # None /\ d.peerCost # None
                           /\ 100 * d.cost >= 125 * d.peerCost}
           o(column) == Total(rows, column)
           OfBusiness(type, gap, impact, sample) ==
            IF gap <= 0 THEN {} ELSE
            {[row |-> Business, type |-> type, scope |-> Business, impact |-> impact,
              relative |-> None, high |-> /\ type # "PLATFORM_OBSERVED_GAP"
                                          /\ SampleBand(sample) # LOW /\ impact >= 100]}
           OfCampaign(d, type, gap, relative) ==
            [row |-> d.row, type |-> type, scope |-> d.name, impact |-> gap, relative |-> relative,
             high |-> type # "CAMPAIGN_ACQUISITION_COST_GAP" /\ gap >= 100]
           Exceeding(type, a, b, sample) == OfBusiness(type, o(a) - o(b), o(a) - o(b), o(sample))
           V1 == OfBusiness("RETURN_PRESSURE", o("returned") - o("delivered"), o("returned"),
                            o("shipped"))
           V2 == Exceeding("CONFIRMATION_LEAKAGE", "matched", "confirmed", "matched")
           V3 == Exceeding("PLATFORM_OBSERVED_GAP", "conversions", "orders", "orders")
           V4 == OfBusiness("IDENTITY_RESOLUTION_GAP", o("unresolved"), o("unresolved"),
                            o("orders"))
           V == V1 \cup V2 \cup V3 \cup V4
           SA == {OfCampaign(d, "CAMPAIGN_DELIVERY_GAP", d.deliveryGap, None) : d \in A}
           SB == {OfCampaign(d, "CAMPAIGN_RETURN_PRESSURE", d.excessReturns, None) : d \in B}
           SE == {OfCampaign(d, "CAMPAIGN_ACQUISITION_COST_GAP", d.cost - d.peerCost,
                         Rate(d.cost - d.peerCost, d.peerCost)) : d \in E}
<1>1. Signals(rows) = V \cup SA \cup SB \cup SE
  BY DEF Signals
<1>2. IsFiniteSet(D)
  BY DiagnosticsFinite DEF AreRows
<1>3. \A d \in D : /\ d.cost \in Int /\ d.peerCost \in Int
                   /\ d.deliveryGap \in Int /\ d.excessReturns \in Int
                   /\ d.peerCost # None => d.peerCost >= 0
  BY DiagnosticFacts DEF Diagnostics
<1>4. \A column \in Columns : o(column) \in Nat
  BY TotalOfRows
<1>5. ASSUME NEW type, NEW gap \in Int, NEW impact \in Int, NEW sample, gap > 0 => impact \in Nat
      PROVE  /\ IsFiniteSet(OfBusiness(type, gap, impact, sample))
             /\ \A s \in OfBusiness(type, gap, impact, sample) : s.impact \in Nat
  <2>1. CASE gap <= 0
    BY <2>1, FS_EmptySet
  <2>2. CASE ~(gap <= 0)
    <3> DEFINE signal ==
            [row |-> Business, type |-> type, scope |-> Business, impact |-> impact,
              relative |-> None, high |-> /\ type # "PLATFORM_OBSERVED_GAP"
                                          /\ SampleBand(sample) # LOW /\ impact >= 100]
    <3>1. OfBusiness(type, gap, impact, sample) = {signal}
      BY <2>2
    <3>2. signal.impact = impact
      OBVIOUS
    <3> HIDE DEF OfBusiness, signal
    <3>3. IsFiniteSet({signal})
      BY FS_Singleton
    <3>4. impact \in Nat
      BY <1>5, <2>2
    <3>5. QED
      BY <3>1, <3>2, <3>3, <3>4
  <2>3. QED
    BY <2>1, <2>2
<1>6. /\ IsFiniteSet(V1) /\ IsFiniteSet(V2) /\ IsFiniteSet(V3) /\ IsFiniteSet(V4)
      /\ \A s \in V1 \cup V2 \cup V3 \cup V4 : s.impact \in Nat
  <2>1. /\ o("returned") \in Nat /\ o("delivered") \in Nat /\ o("matched") \in Nat
        /\ o("confirmed") \in Nat /\ o("conversions") \in Nat /\ o("orders") \in Nat
        /\ o("unresolved") \in Nat
    BY <1>4 DEF Columns
  <2> HIDE DEF o, OfBusiness
  <2>2. IsFiniteSet(V1) /\ \A s \in V1 : s.impact \in Nat
    BY <1>5, <2>1
  <2>3. IsFiniteSet(V2) /\ \A s \in V2 : s.impact \in Nat
    BY <1>5, <2>1
  <2>4. IsFiniteSet(V3) /\ \A s \in V3 : s.impact \in Nat
    BY <1>5, <2>1
  <2>5. IsFiniteSet(V4) /\ \A s \in V4 : s.impact \in Nat
    BY <1>5, <2>1
  <2>6. QED
    BY <2>2, <2>3, <2>4, <2>5
<1>7. \A s \in SA \cup SB : s.impact \in Nat
  <2> HIDE DEF D
  <2>1. QED
    BY <1>3
<1>8. \A s \in SE : s.impact \in Nat
  <2>1. ASSUME NEW d \in E PROVE d.cost - d.peerCost \in Nat
    <3>1. d.cost \in Int /\ d.peerCost \in Int /\ d.peerCost >= 0 /\ 100 * d.cost >= 125 * d.peerCost
      BY <1>3
    <3>2. QED
      BY <3>1
  <2> HIDE DEF E
  <2>2. QED
    BY <2>1
<1>9. IsFiniteSet(V)
  <2> HIDE DEF V1, V2, V3, V4
  <2>1. QED
    BY <1>6, FS_Union
<1>10. IsFiniteSet(A) /\ IsFiniteSet(B) /\ IsFiniteSet(E)
  <2> HIDE DEF D
  <2>1. QED
    BY <1>2, FS_Subset
<1>11. IsFiniteSet(SA) /\ IsFiniteSet(SB) /\ IsFiniteSet(SE)
  <2> DEFINE fa == [d \in A |-> OfCampaign(d, "CAMPAIGN_DELIVERY_GAP", d.deliveryGap, None)]
             fb == [d \in B |-> OfCampaign(d, "CAMPAIGN_RETURN_PRESSURE", d.excessReturns, None)]
             fe == [d \in E |-> OfCampaign(d, "CAMPAIGN_ACQUISITION_COST_GAP", d.cost - d.peerCost,
                                           Rate(d.cost - d.peerCost, d.peerCost))]
  <2> HIDE DEF A, B, E, OfCampaign
  <2>1. fa \in [A -> SA] /\ \A y \in SA : \E x \in A : fa[x] = y
    OBVIOUS
  <2>2. fb \in [B -> SB] /\ \A y \in SB : \E x \in B : fb[x] = y
    OBVIOUS
  <2>3. fe \in [E -> SE] /\ \A y \in SE : \E x \in E : fe[x] = y
    OBVIOUS
  <2> HIDE DEF fa, fb, fe, SA, SB, SE
  <2>4. QED
    BY <1>10, <2>1, <2>2, <2>3, ImageFinite
<1>12. \A s \in V : s.impact \in Nat
  <2> HIDE DEF V1, V2, V3, V4
  <2>1. QED
    BY <1>6
<1>13. QED
  <2> HIDE DEF V, SA, SB, SE
  <2>1. IsFiniteSet(V \cup SA \cup SB \cup SE)
    BY <1>9, <1>11, FS_Union
  <2>2. QED
    BY <1>1, <1>7, <1>8, <1>12, <2>1

\* The counts of a leakage stage are counts.
LEMMA LeakageFacts ==
  ASSUME NEW rows, AreRows(rows), NEW l \in Leakage(rows)
  PROVE  l.observed \in Nat /\ l.denominator \in Nat
<1> DEFINE o(column) == Total(rows, column)
<1>1. /\ o("returned") \in Nat /\ o("delivered") \in Nat /\ o("matched") \in Nat
      /\ o("confirmed") \in Nat /\ o("conversions") \in Nat /\ o("orders") \in Nat
      /\ o("unresolved") \in Nat /\ o("shipped") \in Nat
  BY TotalOfRows DEF Columns
<1>2. ASSUME NEW x \in Int PROVE Max({x, 0}) \in Nat
  <2>1. \E m \in {x, 0} : \A y \in {x, 0} : m >= y
    <3>1. CASE x >= 0
      BY <3>1
    <3>2. CASE ~(x >= 0)
      BY <3>2
    <3>3. QED
      BY <3>1, <3>2
  <2>2. Max({x, 0}) \in {x, 0} /\ \A y \in {x, 0} : Max({x, 0}) >= y
    BY <2>1 DEF Max
  <2>3. QED
    BY <2>2
<1> DEFINE Stage(name, observed, denominator) ==
            [stage |-> name, observed |-> Max({observed, 0}), denominator |-> denominator]
<1>3. ASSUME NEW name, NEW observed \in Int, NEW denominator \in Nat, l = Stage(name, observed, denominator)
      PROVE  l.observed \in Nat /\ l.denominator \in Nat
  BY <1>2, <1>3
<1>4. QED
  <2>1. l \in {Stage("PLATFORM_VS_OBSERVED", o("conversions") - o("orders"), o("conversions")),
         Stage("IDENTITY_UNRESOLVED", o("unresolved"), o("orders")),
         Stage("MATCHED_NOT_CONFIRMED", o("matched") - o("confirmed"), o("matched")),
         Stage("CONFIRMED_NOT_SHIPPED", o("confirmed") - o("shipped"), o("confirmed")),
         Stage("RETURNED_AFTER_SHIPMENT", o("returned"), o("shipped")),
         Stage("SHIPPED_TERMINAL_UNRESOLVED",
               o("shipped") - o("delivered") - o("returned"), o("shipped"))}
    BY DEF Leakage
  <2> HIDE DEF o, Stage
  <2>2. /\ o("conversions") - o("orders") \in Int /\ o("matched") - o("confirmed") \in Int
        /\ o("confirmed") - o("shipped") \in Int
        /\ o("shipped") - o("delivered") - o("returned") \in Int
        /\ o("unresolved") \in Int /\ o("returned") \in Int
    BY <1>1
  <2>3. QED
    BY <1>1, <1>3, <2>1, <2>2

\* Every context that is assembled from parts is such a world, whatever loads fell
\* between the queries.
LEMMA ContextIsWorld == PartsAreReads /\ HasContext => IsWorld(Context)
<1> SUFFICES ASSUME PartsAreReads, HasContext PROVE IsWorld(Context)
  OBVIOUS
<1>1. \A i \in 1 .. 6 : AreRows(parts[i].source.rows)
  <2>1. Len(parts) = 6
    BY DEF HasContext, Queries
  <2>2. \A i \in 1 .. Len(parts) : parts[i] \in Part
    BY DEF PartsAreReads
  <2>3. \A x \in Part : x.source \in Snapshots
    BY DEF Part
  <2>4. QED
    BY <2>1, <2>2, <2>3, SnapshotsAssumption DEF AreRows
<1> DEFINE c == Context
<1>2. /\ c.signals = Signals(parts[2].source.rows) /\ c.leakage = Leakage(parts[3].source.rows)
      /\ c.campaigns = Diagnostics(parts[4].source.rows)
  BY DEF Context, Assemble
<1>3. IsContext(c)
  BY DEF HasContext
<1> HIDE DEF c
<1>4. IsFiniteSet(c.signals) /\ \A s \in c.signals : s.impact \in Nat
  BY <1>1, <1>2, SignalFacts
<1>5. \A l \in c.leakage : l.observed \in Nat /\ l.denominator \in Nat
  BY <1>1, <1>2, LeakageFacts
<1>6. IsFiniteSet(c.campaigns)
  BY <1>1, <1>2, DiagnosticsFinite DEF AreRows
<1>7. \A d \in c.campaigns : d.name \in Range(CampaignNames)
  BY <1>1, <1>2, DiagnosticFacts DEF Diagnostics
<1>8. \A d, e \in c.campaigns : d.name = e.name => d = e
  <2> DEFINE I == {CampaignId(d) : d \in c.campaigns}
             f == [d \in c.campaigns |-> CampaignId(d)]
  <2>1. f \in Surjection(c.campaigns, I) /\ Cardinality(I) = Cardinality(c.campaigns)
    BY <1>3 DEF Surjection, IsContext
  <2>2. IsFiniteSet(I)
    <3> HIDE DEF f, I
    <3>1. QED
      BY <1>6, <2>1, FS_Surjection
  <2>3. f \in Injection(c.campaigns, I)
    <3> HIDE DEF f, I
    <3>1. QED
      BY <1>6, <2>1, <2>2, FS_SurjSameCardinalityImpliesInj
  <2>4. QED
    BY <2>3 DEF Injection, IsInjective, CampaignId
<1>9. QED
  BY <1>4, <1>5, <1>6, <1>7, <1>8 DEF c, IsWorld

-----------------------------------------------------------------------------
(* Opportunities.                                                           *)

\* What an outcome is made of: the offer when no check applies, otherwise the record of
\* a check that does.
IsOutcomeOf(o, type, scope, checks, offer) ==
  /\ o.type = type /\ o.scope = scope
  /\ \/ /\ \A i \in DOMAIN checks : ~checks[i].applies
        /\ o.offered = TRUE /\ o.priority = offer.priority /\ o.confidence = offer.confidence
        /\ o.support = offer.support /\ o.counter = offer.counter
        /\ o.blocking = offer.blocking /\ o.impact = offer.impact
     \/ /\ o.offered = FALSE
        /\ \E i \in DOMAIN checks : checks[i].applies /\ o.refs = checks[i].refs

\* Evaluating a rule yields its offer, or the first check that applies.
LEMMA OutcomeFields ==
  ASSUME NEW type, NEW scope, NEW checks, DOMAIN checks \in SUBSET Nat,
         NEW p, NEW cf, NEW s, NEW ct, NEW b, NEW m
  PROVE  LET offer == Offer(p, cf, s, ct, b, m) IN
         IsOutcomeOf(Outcome(type, scope, checks, offer), type, scope, checks, offer)
<1> DEFINE o == Outcome(type, scope, checks, Offer(p, cf, s, ct, b, m))
<1>1. CASE \E i \in DOMAIN checks : checks[i].applies
  <2> DEFINE A == {i \in DOMAIN checks : checks[i].applies}
  <2>1. Min(A) \in A
    BY <1>1, Least
  <2>2. o = [type |-> type, scope |-> scope, offered |-> FALSE,
             reason |-> checks[Min(A)].reason, refs |-> checks[Min(A)].refs]
    BY <1>1 DEF Outcome, FirstOf
  <2>3. PICK i \in DOMAIN checks : i = Min(A) /\ checks[i].applies
    BY <2>1
  <2>4. o.type = type /\ o.scope = scope /\ o.offered = FALSE /\ o.refs = checks[i].refs
    BY <2>2, <2>3
  <2> HIDE DEF A, o
  <2>5. QED
    BY <2>3, <2>4 DEF IsOutcomeOf, o
<1>2. CASE \A i \in DOMAIN checks : ~checks[i].applies
  BY <1>2 DEF Outcome, Offer, IsOutcomeOf
<1>3. QED
  BY <1>1, <1>2

\* What a rule may attach as a blocker is known evidence that is not in support.
LEMMA BlockersFacts ==
  ASSUME NEW c, NEW type, NEW support
  PROVE  /\ AssessBlockers(type, c, support).attached \subseteq Evidence(c)
         /\ AssessBlockers(type, c, support).attached \cap support = {}
         /\ type \notin {FULFILLMENT, CONFIRMATION} => AssessBlockers(type, c, support).attached = {}
<1>1. KnownBlockers(c) \subseteq Evidence(c)
  BY DEF KnownBlockers, Material, Evidence, LeakageItem, Ids, SignalItems
<1>2. type \notin {FULFILLMENT, CONFIRMATION} =>
        \A b : ClassifyBlockerRelevance(type, b) = "IRRELEVANT"
  BY DEF ClassifyBlockerRelevance
<1>3. AssessBlockers(type, c, support).attached
        = {b \in KnownBlockers(c) \ support : ClassifyBlockerRelevance(type, b) # "IRRELEVANT"}
  BY DEF AssessBlockers
<1>4. QED
  BY <1>1, <1>2, <1>3

\* The evidence each type of opportunity is never offered without.
Grounds(c, o) ==
  /\ o.type = FULFILLMENT =>
        /\ <<"CAMPAIGN_DIAGNOSTIC", "", o.scope>> \in Evidence(c)
        /\ \/ <<"SIGNAL", "CAMPAIGN_DELIVERY_GAP", o.scope>> \in Evidence(c)
           \/ <<"SIGNAL", "CAMPAIGN_RETURN_PRESSURE", o.scope>> \in Evidence(c)
  /\ o.type = CONFIRMATION =>
        /\ <<"LEAKAGE", "MATCHED_NOT_CONFIRMED", Business>> \in Evidence(c)
        /\ <<"SIGNAL", "CONFIRMATION_LEAKAGE", Business>> \in Evidence(c)
  /\ o.type = MEASUREMENT => <<"LEAKAGE", "PLATFORM_VS_OBSERVED", Business>> \in Evidence(c)
  /\ o.type = EFFICIENCY =>
        /\ <<"CAMPAIGN_DIAGNOSTIC", "", o.scope>> \in Evidence(c)
        /\ <<"SIGNAL", "CAMPAIGN_ACQUISITION_COST_GAP", o.scope>> \in Evidence(c)

\* The types and the scopes of opportunities.
Types == {FULFILLMENT, CONFIRMATION, MEASUREMENT, EFFICIENCY}
Scopes == {Business} \cup Range(CampaignNames)

\* What every rule makes sure of when it offers a candidate.
IsOffer(c, o) ==
  /\ o.type \in Types /\ o.scope \in Scopes
  /\ o.priority \in 0 .. 2 /\ o.impact \in Nat
  /\ IsOpportunityModel(o)
  /\ o.support \cup o.counter \cup o.blocking \subseteq Evidence(c)
  /\ ImpactIsTraceable(c, o) /\ Grounds(c, o)

\* An outcome is either: a candidate, or a rejection that cites evidence.
IsResult(c, o) == IF o.offered THEN IsOffer(c, o) ELSE o.refs \subseteq Evidence(c)

\* What the rules cite is evidence of the context they read.
LEMMA EvidenceHolds ==
  ASSUME NEW c
  PROVE  /\ \A d \in c.campaigns : CampaignId(d) \in Evidence(c)
         /\ \A type, scope : Ids(SignalItems(c, type, scope)) \subseteq Evidence(c)
         /\ \A stage : \A l \in LeakageItem(c, stage) : LeakageId(l) \in Evidence(c)
         /\ \A metrics \in SUBSET PilotAnomalyMetrics : NormalAnomalyRefs(c, metrics) \subseteq Evidence(c)
BY DEF Evidence, Ids, SignalItems, LeakageItem, NormalAnomalyRefs

\* A band stays a band when it is lowered, and is then no longer high.
LEMMA BandsAreBands ==
  /\ HIGH \in 0 .. 2 /\ MEDIUM \in 0 .. 2 /\ LOW \in 0 .. 2
  /\ \A band \in 0 .. 2 : Lower(band) \in 0 .. 2 /\ Lower(band) # HIGH
  /\ \A n : SampleBand(n) \in 0 .. 2
BY DEF HIGH, MEDIUM, LOW, Lower, SampleBand

\* The rule about a campaign that loses orders on the way to delivery.
LEMMA FulfillmentFacts ==
  ASSUME NEW c, IsWorld(c), NEW d \in c.campaigns
  PROVE  /\ Fulfillment(c, d).type = FULFILLMENT /\ Fulfillment(c, d).scope = d.name
         /\ Fulfillment(c, d).offered \in BOOLEAN /\ IsResult(c, Fulfillment(c, d))
<1> DEFINE spends == {x.spend : x \in c.campaigns}
           total == Total(c.campaigns, "spend")
           share == Rate(d.spend, total)
           all == {CampaignId(x) : x \in c.campaigns}
           delivery == SignalItems(c, "CAMPAIGN_DELIVERY_GAP", d.name)
           returns == SignalItems(c, "CAMPAIGN_RETURN_PRESSURE", d.name)
           weak == Ids(delivery \cup returns)
           base == {CampaignId(d)} \cup weak
           certain == d.fulfillmentBand = HIGH /\ delivery # {} /\ returns # {}
           support == all \cup weak \cup
               NormalAnomalyRefs(c, {"delivered_order_volume", "returned_order_volume"})
           blockers == AssessBlockers(FULFILLMENT, c, support)
           Scored(band) == IF blockers.scoring = {} THEN band ELSE Lower(band)
           p == Scored(IF share >= 350 /\ certain THEN HIGH ELSE MEDIUM)
           cf == Scored(IF certain THEN HIGH ELSE MEDIUM)
           impacts == {s.impact : s \in delivery \cup returns}
           checks == <<Check(None \in spends \/ total = 0, "MISSING_REQUIRED_DOMAIN", base),
            Check(weak = {} /\ None \in {d.delivery, d.peerDelivery, d.return, d.peerReturn},
                  "MISSING_REQUIRED_DOMAIN", {CampaignId(d)}),
            Check(weak = {} /\ BetterThanPeers(d) # {}, "CONTRADICTORY_EVIDENCE", {CampaignId(d)}),
            Check(weak = {}, "INSUFFICIENT_MATERIALITY", {CampaignId(d)}),
            Check(d.fulfillmentBand = LOW, "INSUFFICIENT_SAMPLE", base),
            Check(share < 200, "INSUFFICIENT_MATERIALITY", all \cup weak)>>
           o == Fulfillment(c, d)
<1> DEFINE offer == Offer(p, cf, support, {}, blockers.attached, Max(impacts))
<1>1. o = Outcome(FULFILLMENT, d.name, checks, offer)
  BY DEF Fulfillment
<1>2. /\ all \subseteq Evidence(c) /\ weak \subseteq Evidence(c) /\ base \subseteq Evidence(c)
      /\ support \subseteq Evidence(c) /\ CampaignId(d) \in support /\ weak \subseteq support
  <2>1. Ids(delivery) \subseteq Evidence(c) /\ Ids(returns) \subseteq Evidence(c)
    BY EvidenceHolds
  <2>2. weak = Ids(delivery) \cup Ids(returns)
    BY DEF Ids
  <2>3. all \subseteq Evidence(c) /\ CampaignId(d) \in all
    BY EvidenceHolds
  <2>4. NormalAnomalyRefs(c, {"delivered_order_volume", "returned_order_volume"}) \subseteq Evidence(c)
    BY EvidenceHolds DEF PilotAnomalyMetrics
  <2>5. QED
    BY <2>1, <2>2, <2>3, <2>4
<1>3. /\ blockers.attached \subseteq Evidence(c) /\ blockers.attached \cap support = {}
  BY BlockersFacts
<1>4. p \in 0 .. 2
  BY BandsAreBands
<1>5. ASSUME weak # {}
      PROVE  \E s \in delivery \cup returns : Max(impacts) = s.impact /\ s.impact \in Nat
  <2>1. IsFiniteSet(delivery \cup returns) /\ delivery \cup returns # {}
    BY <1>5, FS_Subset DEF IsWorld, SignalItems, Ids
  <2>2. impacts \in SUBSET Nat /\ impacts # {}
    BY <2>1 DEF IsWorld, SignalItems
  <2>3. IsFiniteSet(impacts)
    <3> DEFINE f == [s \in delivery \cup returns |-> s.impact]
    <3>1. f \in [delivery \cup returns -> impacts]
          /\ \A y \in impacts : \E s \in delivery \cup returns : f[s] = y
      OBVIOUS
    <3> HIDE DEF f, impacts, delivery, returns
    <3>2. QED
      BY <2>1, <3>1, ImageFinite
  <2>4. Max(impacts) \in impacts
    <3> HIDE DEF impacts
    <3>1. QED
      BY <2>2, <2>3, Greatest
  <2>5. QED
    BY <2>2, <2>4
<1>6. DOMAIN checks = 1 .. 6 /\ (weak = {} => checks[4].applies)
      /\ \A i \in 1 .. 6 : checks[i].refs \subseteq Evidence(c)
  <2> HIDE DEF spends, total, share, all, delivery, returns, weak, base
  <2>1. CampaignId(d) \in Evidence(c)
    BY EvidenceHolds
  <2>2. \A i \in 1 .. 6 : checks[i].refs \subseteq Evidence(c)
    BY <1>2, <2>1 DEF Check
  <2>3. checks[4] = Check(weak = {}, "INSUFFICIENT_MATERIALITY", {CampaignId(d)})
    OBVIOUS
  <2>4. ASSUME weak = {} PROVE checks[4].applies
    <3> HIDE DEF checks
    <3>1. checks[4] = Check(TRUE, "INSUFFICIENT_MATERIALITY", {CampaignId(d)})
      BY <2>3, <2>4
    <3>2. QED
      BY <3>1 DEF Check
  <2>5. DOMAIN checks = 1 .. 6
    OBVIOUS
  <2> HIDE DEF checks
  <2>6. QED
    BY <2>2, <2>4, <2>5
<1>0. IsOutcomeOf(o, FULFILLMENT, d.name, checks, offer)
  <2> HIDE DEF checks, p, cf, support, blockers, impacts, o
  <2>1. DOMAIN checks \in SUBSET Nat
    BY <1>6
  <2>2. QED
    BY <1>1, <2>1, OutcomeFields
<1>7. \/ /\ o.offered = TRUE /\ weak # {} /\ o.priority = p /\ o.support = support
         /\ o.counter = {} /\ o.blocking = blockers.attached /\ o.impact = Max(impacts)
      \/ /\ o.offered = FALSE /\ o.refs \subseteq Evidence(c)
  <2> HIDE DEF checks, o, p, cf, support, blockers, impacts, weak
  <2>1. /\ offer.priority = p /\ offer.support = support /\ offer.counter = {}
        /\ offer.blocking = blockers.attached /\ offer.impact = Max(impacts)
    BY DEF Offer
  <2> HIDE DEF offer
  <2>2. ASSUME \A i \in DOMAIN checks : ~checks[i].applies PROVE weak # {}
    BY <1>6, <2>2
  <2>3. \A i \in DOMAIN checks : checks[i].refs \subseteq Evidence(c)
    BY <1>6
  <2>4. QED
    BY <1>0, <2>1, <2>2, <2>3 DEF IsOutcomeOf
<1>8. o.type = FULFILLMENT /\ o.scope = d.name
  BY <1>0 DEF IsOutcomeOf
<1>9. ASSUME o.offered = TRUE, weak # {}, o.priority = p, o.support = support,
             o.counter = {}, o.blocking = blockers.attached, o.impact = Max(impacts)
      PROVE  IsOffer(c, o)
  <2>1. PICK s \in delivery \cup returns : o.impact = s.impact /\ s.impact \in Nat
    BY <1>5, <1>9
  <2>2. s \in c.signals /\ SignalId(s) \in weak
    BY <2>1 DEF SignalItems, Ids
  <2>3. ImpactIsTraceable(c, o)
    <3>1. SignalId(s) \in o.support
      BY <1>2, <1>9, <2>2
    <3>2. o.impact \in Figures(c, SignalId(s))
      BY <2>1, <2>2 DEF Figures
    <3>3. QED
      BY <3>1, <3>2 DEF ImpactIsTraceable
  <2>4. Grounds(c, o)
    <3>1. CampaignId(d) = <<"CAMPAIGN_DIAGNOSTIC", "", o.scope>>
      BY <1>8 DEF CampaignId
    <3>2. \/ SignalId(s) = <<"SIGNAL", "CAMPAIGN_DELIVERY_GAP", o.scope>>
          \/ SignalId(s) = <<"SIGNAL", "CAMPAIGN_RETURN_PRESSURE", o.scope>>
      BY <1>8, <2>1 DEF SignalId, SignalItems
    <3>3. CampaignId(d) \in Evidence(c) /\ SignalId(s) \in Evidence(c)
      BY <1>2, <2>2
    <3>4. o.type \notin {CONFIRMATION, MEASUREMENT, EFFICIENCY}
      BY <1>8 DEF FULFILLMENT, CONFIRMATION, MEASUREMENT, EFFICIENCY
    <3>5. QED
      BY <3>1, <3>2, <3>3, <3>4 DEF Grounds
  <2>5. IsOpportunityModel(o)
    <3> HIDE DEF support, blockers, o
    <3>1. QED
      BY <1>2, <1>3, <1>9, <2>1 DEF IsOpportunityModel
  <2>6. o.type \in Types /\ o.scope \in Scopes
    BY <1>8 DEF IsWorld, Types, Scopes
  <2> HIDE DEF support, blockers, o, p
  <2>7. QED
    BY <1>2, <1>3, <1>4, <1>9, <2>1, <2>3, <2>4, <2>5, <2>6 DEF IsOffer
<1>10. o.offered \in BOOLEAN /\ IsResult(c, o)
  <2> HIDE DEF support, blockers, o, p, weak, impacts
  <2>1. QED
    BY <1>7, <1>9 DEF IsResult
<1>11. QED
  BY <1>8, <1>10

\* The two rules about a leakage stage: an offer has the stage's row.
LEMMA StageFacts ==
  ASSUME NEW c, IsWorld(c), NEW stage
  PROVE  LET item == LeakageItem(c, stage)
             l == CHOOSE l \in item : TRUE
             refs == {LeakageId(x) : x \in item}
             checks == StageChecks(item, refs)
         IN  /\ refs \subseteq Evidence(c) /\ \A id \in refs : id = <<"LEAKAGE", stage, Business>>
             /\ DOMAIN checks = 1 .. 3 /\ checks \in Seq({checks[i] : i \in 1 .. 3})
             /\ \A i \in 1 .. 3 : checks[i].refs \subseteq Evidence(c)
             /\ item = {} => checks[1].applies
             /\ item # {} => /\ l \in c.leakage /\ l.observed \in Nat
                             /\ LeakageId(l) \in refs /\ l.observed \in Figures(c, LeakageId(l))
<1> DEFINE item == LeakageItem(c, stage)
           l == CHOOSE l \in item : TRUE
           refs == {LeakageId(x) : x \in item}
           checks == StageChecks(item, refs)
<1>1. refs \subseteq Evidence(c) /\ \A id \in refs : id = <<"LEAKAGE", stage, Business>>
  BY EvidenceHolds DEF LeakageItem, LeakageId
<1>2. /\ DOMAIN checks = 1 .. 3 /\ Len(checks) = 3
      /\ checks[1] = Check(item = {}, "MISSING_REQUIRED_DOMAIN", {})
      /\ checks[2].refs = refs /\ checks[3].refs = refs
  BY DEF StageChecks, Check
<1>3. \A i \in 1 .. 3 : checks[i].refs \subseteq Evidence(c)
  <2>1. checks[1].refs = {}
    <3> HIDE DEF checks
    <3>1. QED
      BY <1>2 DEF Check
  <2>2. \A i \in 1 .. 3 : i = 1 \/ i = 2 \/ i = 3
    OBVIOUS
  <2> HIDE DEF checks, refs
  <2>3. QED
    BY <1>1, <1>2, <2>1, <2>2
<1>4. ASSUME item = {} PROVE checks[1].applies
  <2> HIDE DEF checks
  <2>1. checks[1] = Check(TRUE, "MISSING_REQUIRED_DOMAIN", {})
    BY <1>2, <1>4
  <2>2. QED
    BY <2>1 DEF Check
<1>5. ASSUME item # {}
      PROVE  /\ l \in c.leakage /\ l.observed \in Nat
             /\ LeakageId(l) \in refs /\ l.observed \in Figures(c, LeakageId(l))
  <2>1. l \in item
    BY <1>5
  <2> HIDE DEF l
  <2>2. QED
    BY <2>1 DEF IsWorld, LeakageItem, Figures
<1>6. checks \in Seq({checks[i] : i \in 1 .. 3})
  BY DEF StageChecks
<1>7. QED
  BY <1>1, <1>2, <1>3, <1>4, <1>5, <1>6

\* The rule about orders that are matched and never confirmed.
LEMMA ConfirmationFacts ==
  ASSUME NEW c, IsWorld(c)
  PROVE  /\ Confirmation(c).type = CONFIRMATION /\ Confirmation(c).scope = Business
         /\ Confirmation(c).offered \in BOOLEAN /\ IsResult(c, Confirmation(c))
<1> DEFINE item == LeakageItem(c, "MATCHED_NOT_CONFIRMED")
           l == CHOOSE l \in item : TRUE
           refs == {LeakageId(x) : x \in item}
           signal == SignalItems(c, "CONFIRMATION_LEAKAGE", Business)
           support == refs \cup Ids(signal) \cup NormalAnomalyRefs(c, {"confirmed_order_volume"})
           blockers == AssessBlockers(CONFIRMATION, c, support)
           Scored(band) == IF blockers.scoring = {} THEN band ELSE Lower(band)
           p == Scored(IF l.observed >= 100 THEN HIGH
                       ELSE IF l.observed >= 25 \/ Rate(l.observed, l.denominator) >= 200
                            THEN MEDIUM ELSE LOW)
           cf == Scored(SampleBand(l.denominator))
           stages == StageChecks(item, refs)
           last == Check(signal = {}, "MISSING_REQUIRED_DOMAIN", refs)
           checks == stages \o <<last>>
           offer == Offer(p, cf, support, {}, blockers.attached, l.observed)
           o == Confirmation(c)
<1>1. o = Outcome(CONFIRMATION, Business, checks, offer)
  BY DEF Confirmation
<1>2. /\ refs \subseteq Evidence(c) /\ support \subseteq Evidence(c)
      /\ refs \subseteq support /\ Ids(signal) \subseteq support
      /\ \A id \in refs : id = <<"LEAKAGE", "MATCHED_NOT_CONFIRMED", Business>>
      /\ \A id \in Ids(signal) : id = <<"SIGNAL", "CONFIRMATION_LEAKAGE", Business>>
  <2>1. refs \subseteq Evidence(c) /\ \A id \in refs : id = <<"LEAKAGE", "MATCHED_NOT_CONFIRMED", Business>>
    BY StageFacts
  <2>2. Ids(signal) \subseteq Evidence(c)
    BY EvidenceHolds
  <2>3. NormalAnomalyRefs(c, {"confirmed_order_volume"}) \subseteq Evidence(c)
    BY EvidenceHolds DEF PilotAnomalyMetrics
  <2>4. \A id \in Ids(signal) : id = <<"SIGNAL", "CONFIRMATION_LEAKAGE", Business>>
    BY DEF Ids, SignalItems, SignalId
  <2> HIDE DEF refs, signal
  <2>5. QED
    BY <2>1, <2>2, <2>3, <2>4
<1>3. /\ blockers.attached \subseteq Evidence(c) /\ blockers.attached \cap support = {}
  BY BlockersFacts
<1>4. p \in 0 .. 2
  BY BandsAreBands
<1>5. /\ DOMAIN checks = 1 .. 4
      /\ \A i \in 1 .. 4 : checks[i].refs \subseteq Evidence(c)
      /\ item = {} => checks[1].applies
      /\ signal = {} => checks[4].applies
  <2>1. /\ DOMAIN stages = 1 .. 3 /\ stages \in Seq({stages[i] : i \in 1 .. 3})
        /\ \A i \in 1 .. 3 : stages[i].refs \subseteq Evidence(c)
        /\ item = {} => stages[1].applies
    BY StageFacts
  <2>2. last.refs = refs /\ (signal = {} => last.applies)
    <3>1. last.refs = refs
      BY DEF Check
    <3>2. ASSUME signal = {} PROVE last.applies
      <4>1. last = Check(TRUE, "MISSING_REQUIRED_DOMAIN", refs)
        BY <3>2
      <4> HIDE DEF last
      <4>2. QED
        BY <4>1 DEF Check
    <3>3. QED
      BY <3>1, <3>2
  <2> HIDE DEF stages, last, refs
  <2>3. Len(stages) = 3
    BY <2>1
  <2>4. /\ Len(checks) = 4 /\ DOMAIN checks = 1 .. 4 /\ checks[4] = last
        /\ \A i \in 1 .. 3 : checks[i] = stages[i]
    <3>1. PICK X : stages \in Seq(X)
      BY <2>1
    <3>2. stages \in Seq(X \cup {last}) /\ <<last>> \in Seq(X \cup {last}) /\ Len(<<last>>) = 1
      BY <3>1
    <3>3. /\ Len(checks) = Len(stages) + 1 /\ DOMAIN checks = 1 .. Len(stages) + 1
          /\ \A i \in 1 .. Len(stages) + 1 :
                checks[i] = IF i <= Len(stages) THEN stages[i] ELSE <<last>>[i - Len(stages)]
      BY <3>2
    <3>4. QED
      BY <2>3, <3>3
  <2>5. \A i \in 1 .. 4 : i \in 1 .. 3 \/ i = 4
    OBVIOUS
  <2> HIDE DEF checks
  <2>6. QED
    BY <1>2, <2>1, <2>2, <2>4, <2>5
<1>6. IsOutcomeOf(o, CONFIRMATION, Business, checks, offer)
  <2> HIDE DEF checks, p, cf, support, blockers, o, l
  <2>1. DOMAIN checks \in SUBSET Nat
    BY <1>5
  <2>2. QED
    BY <1>1, <2>1, OutcomeFields
<1>7. \/ /\ o.offered = TRUE /\ item # {} /\ signal # {} /\ o.priority = p /\ o.support = support
         /\ o.counter = {} /\ o.blocking = blockers.attached /\ o.impact = l.observed
      \/ /\ o.offered = FALSE /\ o.refs \subseteq Evidence(c)
  <2> HIDE DEF checks, o, p, cf, support, blockers, item, signal, l
  <2>1. /\ offer.priority = p /\ offer.support = support /\ offer.counter = {}
        /\ offer.blocking = blockers.attached /\ offer.impact = l.observed
    BY DEF Offer
  <2> HIDE DEF offer
  <2>2. ASSUME \A i \in DOMAIN checks : ~checks[i].applies PROVE item # {} /\ signal # {}
    BY <1>5, <2>2
  <2>3. \A i \in DOMAIN checks : checks[i].refs \subseteq Evidence(c)
    BY <1>5
  <2>4. QED
    BY <1>6, <2>1, <2>2, <2>3 DEF IsOutcomeOf
<1>8. o.type = CONFIRMATION /\ o.scope = Business
  BY <1>6 DEF IsOutcomeOf
<1>9. ASSUME o.offered = TRUE, item # {}, signal # {}, o.priority = p, o.support = support,
             o.counter = {}, o.blocking = blockers.attached, o.impact = l.observed
      PROVE  IsOffer(c, o)
  <2>1. /\ l.observed \in Nat /\ LeakageId(l) \in refs /\ l.observed \in Figures(c, LeakageId(l))
    BY <1>9, StageFacts
  <2>2. ImpactIsTraceable(c, o)
    <3> HIDE DEF support, o, l, refs
    <3>1. QED
      BY <1>2, <1>9, <2>1 DEF ImpactIsTraceable
  <2>3. Grounds(c, o)
    <3>1. PICK s \in signal : TRUE
      BY <1>9
    <3>2. SignalId(s) \in Ids(signal)
      BY DEF Ids
    <3>3. o.type \notin {FULFILLMENT, MEASUREMENT, EFFICIENCY}
      BY <1>8 DEF FULFILLMENT, CONFIRMATION, MEASUREMENT, EFFICIENCY
    <3> HIDE DEF support, o, l, refs, signal
    <3>4. QED
      BY <1>2, <2>1, <3>2, <3>3 DEF Grounds
  <2>4. IsOpportunityModel(o)
    <3> HIDE DEF support, blockers, o, l, refs
    <3>1. QED
      BY <1>2, <1>3, <1>9, <2>1 DEF IsOpportunityModel
  <2>5. o.type \in Types /\ o.scope \in Scopes
    BY <1>8 DEF Types, Scopes
  <2> HIDE DEF support, blockers, o, p, l, refs, signal
  <2>6. QED
    BY <1>2, <1>3, <1>4, <1>9, <2>1, <2>2, <2>3, <2>4, <2>5 DEF IsOffer
<1>10. o.offered \in BOOLEAN /\ IsResult(c, o)
  <2> HIDE DEF support, blockers, o, p, item, l, refs, signal
  <2>1. QED
    BY <1>7, <1>9 DEF IsResult
<1>11. QED
  BY <1>8, <1>10

\* The rule about the gap between what the platform and the business count.
LEMMA MeasurementFacts ==
  ASSUME NEW c, IsWorld(c)
  PROVE  /\ Measurement(c).type = MEASUREMENT /\ Measurement(c).scope = Business
         /\ Measurement(c).offered \in BOOLEAN /\ IsResult(c, Measurement(c))
<1> DEFINE item == LeakageItem(c, "PLATFORM_VS_OBSERVED")
           l == CHOOSE l \in item : TRUE
           refs == {LeakageId(x) : x \in item}
           support == refs \cup Ids(SignalItems(c, "PLATFORM_OBSERVED_GAP", Business))
           cf == SampleBand(l.denominator)
           checks == StageChecks(item, refs)
           offer == Offer(LOW, cf, support, {}, {}, l.observed)
           o == Measurement(c)
<1>1. o = Outcome(MEASUREMENT, Business, checks, offer)
  BY DEF Measurement
<1>2. /\ refs \subseteq Evidence(c) /\ support \subseteq Evidence(c) /\ refs \subseteq support
      /\ \A id \in refs : id = <<"LEAKAGE", "PLATFORM_VS_OBSERVED", Business>>
  <2>1. refs \subseteq Evidence(c) /\ \A id \in refs : id = <<"LEAKAGE", "PLATFORM_VS_OBSERVED", Business>>
    BY StageFacts
  <2>2. Ids(SignalItems(c, "PLATFORM_OBSERVED_GAP", Business)) \subseteq Evidence(c)
    BY EvidenceHolds
  <2> HIDE DEF refs
  <2>3. QED
    BY <2>1, <2>2
<1>5. /\ DOMAIN checks = 1 .. 3
      /\ \A i \in 1 .. 3 : checks[i].refs \subseteq Evidence(c)
      /\ item = {} => checks[1].applies
  BY StageFacts
<1>6. IsOutcomeOf(o, MEASUREMENT, Business, checks, offer)
  <2> HIDE DEF checks, cf, support, o, l
  <2>1. DOMAIN checks \in SUBSET Nat
    BY <1>5
  <2>2. QED
    BY <1>1, <2>1, OutcomeFields
<1>7. \/ /\ o.offered = TRUE /\ item # {} /\ o.priority = LOW /\ o.support = support
         /\ o.counter = {} /\ o.blocking = {} /\ o.impact = l.observed
      \/ /\ o.offered = FALSE /\ o.refs \subseteq Evidence(c)
  <2> HIDE DEF checks, o, cf, support, item, l
  <2>1. /\ offer.priority = LOW /\ offer.support = support /\ offer.counter = {}
        /\ offer.blocking = {} /\ offer.impact = l.observed
    BY DEF Offer
  <2> HIDE DEF offer
  <2>2. ASSUME \A i \in DOMAIN checks : ~checks[i].applies PROVE item # {}
    BY <1>5, <2>2
  <2>3. \A i \in DOMAIN checks : checks[i].refs \subseteq Evidence(c)
    BY <1>5
  <2>4. QED
    BY <1>6, <2>1, <2>2, <2>3 DEF IsOutcomeOf
<1>8. o.type = MEASUREMENT /\ o.scope = Business
  BY <1>6 DEF IsOutcomeOf
<1>9. ASSUME o.offered = TRUE, item # {}, o.priority = LOW, o.support = support,
             o.counter = {}, o.blocking = {}, o.impact = l.observed
      PROVE  IsOffer(c, o)
  <2>1. /\ l.observed \in Nat /\ LeakageId(l) \in refs /\ l.observed \in Figures(c, LeakageId(l))
    BY <1>9, StageFacts
  <2>2. ImpactIsTraceable(c, o)
    <3> HIDE DEF support, o, l, refs
    <3>1. QED
      BY <1>2, <1>9, <2>1 DEF ImpactIsTraceable
  <2>3. Grounds(c, o)
    <3>1. o.type \notin {FULFILLMENT, CONFIRMATION, EFFICIENCY}
      BY <1>8 DEF FULFILLMENT, CONFIRMATION, MEASUREMENT, EFFICIENCY
    <3> HIDE DEF support, o, l, refs
    <3>2. QED
      BY <1>2, <2>1, <3>1 DEF Grounds
  <2>4. IsOpportunityModel(o)
    <3> HIDE DEF support, o, l, refs
    <3>1. QED
      BY <1>2, <1>9, <2>1 DEF IsOpportunityModel
  <2>5. o.type \in Types /\ o.scope \in Scopes
    BY <1>8 DEF Types, Scopes
  <2> HIDE DEF support, o, l, refs
  <2>6. QED
    BY <1>2, <1>9, <2>1, <2>2, <2>3, <2>4, <2>5, BandsAreBands DEF IsOffer
<1>10. o.offered \in BOOLEAN /\ IsResult(c, o)
  <2> HIDE DEF support, o, item, l, refs
  <2>1. QED
    BY <1>7, <1>9 DEF IsResult
<1>11. QED
  BY <1>8, <1>10

\* The rule about a campaign that pays more for an order than its peers.
LEMMA EfficiencyFacts ==
  ASSUME NEW c, IsWorld(c), NEW d \in c.campaigns
  PROVE  /\ Efficiency(c, d).type = EFFICIENCY /\ Efficiency(c, d).scope = d.name
         /\ Efficiency(c, d).offered \in BOOLEAN /\ IsResult(c, Efficiency(c, d))
<1> DEFINE signal == SignalItems(c, "CAMPAIGN_ACQUISITION_COST_GAP", d.name)
           gap == CHOOSE s \in signal : TRUE
           own == {CampaignId(d)}
           better == BetterThanPeers(d)
           certain == IF d.acquisitionBand = HIGH THEN HIGH ELSE MEDIUM
           blockers == AssessBlockers(EFFICIENCY, c, Ids(signal))
           p == IF better = {} /\ certain = HIGH /\ gap.relative >= 500 THEN MEDIUM ELSE LOW
           cf == IF better = {} THEN certain ELSE Lower(certain)
           counter == IF better = {} THEN {} ELSE own
           checks == <<Check(d.cost = None \/ d.peerCost = None \/ d.peerCost <= 0,
                  "MISSING_REQUIRED_DOMAIN", own \cup Ids(signal)),
            Check(100 * d.cost < 125 * d.peerCost, "INSUFFICIENT_MATERIALITY", own),
            Check(d.acquisitionBand = LOW, "INSUFFICIENT_SAMPLE", own),
            Check(signal = {}, "MISSING_REQUIRED_DOMAIN", own),
            Check(Cardinality(better) = 2, "CONTRADICTORY_EVIDENCE", own \cup Ids(signal))>>
           offer == Offer(p, cf, Ids(signal), counter, blockers.attached, gap.impact)
           o == Efficiency(c, d)
<1>1. o = Outcome(EFFICIENCY, d.name, checks, offer)
  BY DEF Efficiency
<1>2. /\ own \subseteq Evidence(c) /\ Ids(signal) \subseteq Evidence(c) /\ counter \subseteq own
      /\ own = {<<"CAMPAIGN_DIAGNOSTIC", "", d.name>>}
      /\ \A id \in Ids(signal) : id = <<"SIGNAL", "CAMPAIGN_ACQUISITION_COST_GAP", d.name>>
  <2>1. own \subseteq Evidence(c) /\ Ids(signal) \subseteq Evidence(c)
    BY EvidenceHolds
  <2>2. own = {<<"CAMPAIGN_DIAGNOSTIC", "", d.name>>}
    BY DEF CampaignId
  <2>3. \A id \in Ids(signal) : id = <<"SIGNAL", "CAMPAIGN_ACQUISITION_COST_GAP", d.name>>
    BY DEF Ids, SignalItems, SignalId
  <2> HIDE DEF signal
  <2>4. QED
    BY <2>1, <2>2, <2>3
<1>3. blockers.attached = {}
  BY BlockersFacts DEF FULFILLMENT, CONFIRMATION, EFFICIENCY
<1>4. p \in 0 .. 2
  BY BandsAreBands
<1>5. /\ DOMAIN checks = 1 .. 5 /\ \A i \in 1 .. 5 : checks[i].refs \subseteq Evidence(c)
      /\ signal = {} => checks[4].applies
  <2> HIDE DEF own, signal, better
  <2>1. \A i \in 1 .. 5 : checks[i].refs \subseteq Evidence(c)
    <3>1. \A i \in 1 .. 5 : checks[i].refs = own \/ checks[i].refs = own \cup Ids(signal)
      BY DEF Check
    <3> HIDE DEF checks
    <3>2. QED
      BY <1>2, <3>1
  <2>2. checks[4] = Check(signal = {}, "MISSING_REQUIRED_DOMAIN", own) /\ DOMAIN checks = 1 .. 5
    OBVIOUS
  <2>3. ASSUME signal = {} PROVE checks[4].applies
    <3> HIDE DEF checks
    <3>1. checks[4] = Check(TRUE, "MISSING_REQUIRED_DOMAIN", own)
      BY <2>2, <2>3
    <3>2. QED
      BY <3>1 DEF Check
  <2> HIDE DEF checks
  <2>4. QED
    BY <2>1, <2>2, <2>3
<1>6. IsOutcomeOf(o, EFFICIENCY, d.name, checks, offer)
  <2> HIDE DEF checks, p, cf, counter, blockers, o, gap, signal
  <2>1. DOMAIN checks \in SUBSET Nat
    BY <1>5
  <2>2. QED
    BY <1>1, <2>1, OutcomeFields
<1>7. \/ /\ o.offered = TRUE /\ signal # {} /\ o.priority = p /\ o.support = Ids(signal)
         /\ o.counter = counter /\ o.blocking = {} /\ o.impact = gap.impact
      \/ /\ o.offered = FALSE /\ o.refs \subseteq Evidence(c)
  <2> HIDE DEF checks, o, p, cf, counter, blockers, gap, signal
  <2>1. /\ offer.priority = p /\ offer.support = Ids(signal) /\ offer.counter = counter
        /\ offer.blocking = {} /\ offer.impact = gap.impact
    BY <1>3 DEF Offer
  <2> HIDE DEF offer
  <2>2. ASSUME \A i \in DOMAIN checks : ~checks[i].applies PROVE signal # {}
    BY <1>5, <2>2
  <2>3. \A i \in DOMAIN checks : checks[i].refs \subseteq Evidence(c)
    BY <1>5
  <2>4. QED
    BY <1>6, <2>1, <2>2, <2>3 DEF IsOutcomeOf
<1>8. o.type = EFFICIENCY /\ o.scope = d.name
  BY <1>6 DEF IsOutcomeOf
<1>9. ASSUME o.offered = TRUE, signal # {}, o.priority = p, o.support = Ids(signal),
             o.counter = counter, o.blocking = {}, o.impact = gap.impact
      PROVE  IsOffer(c, o)
  <2>1. gap \in signal
    BY <1>9
  <2>2. gap \in c.signals /\ gap.impact \in Nat /\ SignalId(gap) \in Ids(signal)
    <3> HIDE DEF gap
    <3>1. QED
      BY <2>1 DEF SignalItems, IsWorld, Ids
  <2> HIDE DEF gap
  <2>3. ImpactIsTraceable(c, o)
    <3>1. o.impact \in Figures(c, SignalId(gap))
      BY <1>9, <2>2 DEF Figures
    <3> HIDE DEF o, signal
    <3>2. QED
      BY <1>9, <2>2, <3>1 DEF ImpactIsTraceable
  <2>4. Grounds(c, o)
    <3>1. o.type \notin {FULFILLMENT, CONFIRMATION, MEASUREMENT}
      BY <1>8 DEF FULFILLMENT, CONFIRMATION, MEASUREMENT, EFFICIENCY
    <3> HIDE DEF o, signal, own
    <3>2. QED
      BY <1>2, <1>8, <2>2, <3>1 DEF Grounds
  <2>5. IsOpportunityModel(o)
    <3> HIDE DEF o, signal, counter, own
    <3>1. o.support \cap o.counter = {}
      BY <1>2, <1>9
    <3>2. QED
      BY <1>9, <2>2, <3>1 DEF IsOpportunityModel
  <2>6. o.type \in Types /\ o.scope \in Scopes
    BY <1>8 DEF IsWorld, Types, Scopes
  <2> HIDE DEF o, p, signal, counter, own
  <2>7. QED
    BY <1>2, <1>4, <1>9, <2>2, <2>3, <2>4, <2>5, <2>6 DEF IsOffer
<1>10. o.offered \in BOOLEAN /\ IsResult(c, o)
  <2> HIDE DEF o, p, gap, signal, counter
  <2>1. QED
    BY <1>7, <1>9 DEF IsResult
<1>11. QED
  BY <1>8, <1>10

\* What any rule concludes, offered or rejected.
LEMMA OutcomeFacts ==
  ASSUME NEW c, IsWorld(c), NEW o \in Outcomes(c)
  PROVE  /\ o.type \in Types /\ o.scope \in Scopes /\ o.offered \in BOOLEAN /\ IsResult(c, o)
         /\ o.scope = Business \/ \E d \in c.campaigns : o.scope = d.name
         /\ \/ o.type = FULFILLMENT /\ \E d \in c.campaigns : o = Fulfillment(c, d)
            \/ o.type = CONFIRMATION /\ o = Confirmation(c)
            \/ o.type = MEASUREMENT /\ o = Measurement(c)
            \/ o.type = EFFICIENCY /\ \E d \in c.campaigns : o = Efficiency(c, d)
<1>0. \A d \in c.campaigns : d.name \in Scopes
  BY DEF IsWorld, Scopes
<1>1. ASSUME NEW d \in c.campaigns, o = Fulfillment(c, d) PROVE
         /\ o.type = FULFILLMENT /\ o.scope = d.name /\ o.offered \in BOOLEAN /\ IsResult(c, o)
  BY <1>1, FulfillmentFacts
<1>2. ASSUME NEW d \in c.campaigns, o = Efficiency(c, d) PROVE
         /\ o.type = EFFICIENCY /\ o.scope = d.name /\ o.offered \in BOOLEAN /\ IsResult(c, o)
  BY <1>2, EfficiencyFacts
<1>3. CASE o = Confirmation(c)
  BY <1>3, ConfirmationFacts DEF Types, Scopes
<1>4. CASE o = Measurement(c)
  BY <1>4, MeasurementFacts DEF Types, Scopes
<1>5. CASE \E d \in c.campaigns : o = Fulfillment(c, d)
  BY <1>0, <1>1, <1>5 DEF Types
<1>6. CASE \E d \in c.campaigns : o = Efficiency(c, d)
  BY <1>0, <1>2, <1>6 DEF Types
<1>7. QED
  BY <1>3, <1>4, <1>5, <1>6 DEF Outcomes

\* No two types of opportunities are the same.
LEMMA TypesDiffer ==
  FULFILLMENT # CONFIRMATION /\ FULFILLMENT # MEASUREMENT
  /\ FULFILLMENT # EFFICIENCY /\ CONFIRMATION # MEASUREMENT /\ CONFIRMATION # EFFICIENCY
  /\ MEASUREMENT # EFFICIENCY
BY DEF FULFILLMENT, CONFIRMATION, MEASUREMENT, EFFICIENCY

\* A rule answers once for a scope.
LEMMA OutcomesDiffer ==
  ASSUME NEW c, IsWorld(c), NEW o \in Outcomes(c), NEW q \in Outcomes(c),
         o.type = q.type, o.scope = q.scope
  PROVE  o = q
<1>1. ASSUME NEW d \in c.campaigns, NEW e \in c.campaigns, o = Fulfillment(c, d), q = Fulfillment(c, e)
      PROVE  o = q
  <2>1. d.name = e.name
    BY <1>1, FulfillmentFacts
  <2>2. QED
    BY <1>1, <2>1 DEF IsWorld
<1>2. ASSUME NEW d \in c.campaigns, NEW e \in c.campaigns, o = Efficiency(c, d), q = Efficiency(c, e)
      PROVE  o = q
  <2>1. d.name = e.name
    BY <1>2, EfficiencyFacts
  <2>2. QED
    BY <1>2, <2>1 DEF IsWorld
<1>3. \/ o.type = FULFILLMENT /\ \E d \in c.campaigns : o = Fulfillment(c, d)
      \/ o.type = CONFIRMATION /\ o = Confirmation(c)
      \/ o.type = MEASUREMENT /\ o = Measurement(c)
      \/ o.type = EFFICIENCY /\ \E d \in c.campaigns : o = Efficiency(c, d)
  BY OutcomeFacts
<1>4. \/ q.type = FULFILLMENT /\ \E d \in c.campaigns : q = Fulfillment(c, d)
      \/ q.type = CONFIRMATION /\ q = Confirmation(c)
      \/ q.type = MEASUREMENT /\ q = Measurement(c)
      \/ q.type = EFFICIENCY /\ \E d \in c.campaigns : q = Efficiency(c, d)
  BY OutcomeFacts
<1>5. QED
  BY <1>1, <1>2, <1>3, <1>4, TypesDiffer

\* A context has finitely many outcomes.
LEMMA OutcomesFinite ==
  ASSUME NEW c, IsWorld(c) PROVE IsFiniteSet(Outcomes(c))
<1> DEFINE A == {Fulfillment(c, d) : d \in c.campaigns}
           B == {Efficiency(c, d) : d \in c.campaigns}
           f == [d \in c.campaigns |-> Fulfillment(c, d)]
           g == [d \in c.campaigns |-> Efficiency(c, d)]
<1>1. f \in [c.campaigns -> A] /\ \A y \in A : \E d \in c.campaigns : f[d] = y
  OBVIOUS
<1>2. g \in [c.campaigns -> B] /\ \A y \in B : \E d \in c.campaigns : g[d] = y
  OBVIOUS
<1>3. Outcomes(c) = A \cup {Confirmation(c)} \cup {Measurement(c)} \cup B
  BY DEF Outcomes
<1> HIDE DEF f, g, A, B
<1>4. IsFiniteSet(A) /\ IsFiniteSet(B)
  BY <1>1, <1>2, ImageFinite DEF IsWorld
<1>5. IsFiniteSet({Confirmation(c)}) /\ IsFiniteSet({Measurement(c)})
  BY FS_Singleton
<1>6. \A S, T : IsFiniteSet(S) /\ IsFiniteSet(T) => IsFiniteSet(S \cup T)
  BY FS_Union
<1>7. IsFiniteSet(A \cup {Confirmation(c)})
  BY <1>4, <1>5, <1>6
<1>8. IsFiniteSet(A \cup {Confirmation(c)} \cup {Measurement(c)})
  BY <1>5, <1>6, <1>7
<1>9. QED
  BY <1>3, <1>4, <1>6, <1>8

\* The evaluation fails closed on a name that is taken for a phone number, and on
\* nothing else.
LEMMA OnlyNamesAreRefused ==
  ASSUME NEW c, IsWorld(c)
  PROVE  ValidOpportunities(Outcomes(c), c) <=> ~NamedLikePhone(c)
<1>1. ASSUME ~NamedLikePhone(c) PROVE ValidOpportunities(Outcomes(c), c)
  <2>1. SUFFICES ASSUME NEW o \in Outcomes(c)
                 PROVE  IF o.offered THEN IsOpportunity(c, o) ELSE IsSuppressed(c, o)
    BY DEF ValidOpportunities
  <2>2. IsResult(c, o) /\ (o.scope = Business \/ \E d \in c.campaigns : o.scope = d.name)
    BY OutcomeFacts
  <2>3. o.scope \notin PhoneShaped
    BY <1>1, <2>2, NamesAssumption DEF NamedLikePhone
  <2>4. QED
    BY <2>2, <2>3 DEF IsResult, IsOffer, IsOpportunity, IsSuppressed
<1>2. ASSUME NamedLikePhone(c), ValidOpportunities(Outcomes(c), c) PROVE FALSE
  <2>1. PICK d \in c.campaigns : d.name \in PhoneShaped
    BY <1>2 DEF NamedLikePhone
  <2>2. Fulfillment(c, d) \in Outcomes(c) /\ Fulfillment(c, d).scope = d.name
    BY FulfillmentFacts DEF Outcomes
  <2>3. IsOpportunity(c, Fulfillment(c, d)) \/ IsSuppressed(c, Fulfillment(c, d))
    BY <1>2, <2>2 DEF ValidOpportunities
  <2>4. QED
    BY <2>1, <2>2, <2>3 DEF IsOpportunity, IsSuppressed
<1>3. QED
  BY <1>1, <1>2

\* A type has one place in the registry of rules, and a scope one in the order of names.
LEMMA RuleOrders ==
  /\ \A type \in Types : RuleOrder(type) \in Int /\ RULE_REGISTRY[RuleOrder(type)] = type
  /\ Range(RULE_REGISTRY) = Types
<1>1. DOMAIN RULE_REGISTRY = 1 .. 4 /\ RULE_REGISTRY[1] = FULFILLMENT /\ RULE_REGISTRY[2] = CONFIRMATION
      /\ RULE_REGISTRY[3] = MEASUREMENT /\ RULE_REGISTRY[4] = EFFICIENCY
  BY DEF RULE_REGISTRY
<1>2. Range(RULE_REGISTRY) = Types
  <2>1. \A i \in 1 .. 4 : i = 1 \/ i = 2 \/ i = 3 \/ i = 4
    OBVIOUS
  <2>2. QED
    BY <1>1, <2>1 DEF Range, Types
<1>3. ASSUME NEW type \in Types PROVE RuleOrder(type) \in Int /\ RULE_REGISTRY[RuleOrder(type)] = type
  <2>1. \E i \in DOMAIN RULE_REGISTRY : RULE_REGISTRY[i] = type
    BY <1>1 DEF Types
  <2>2. RuleOrder(type) \in DOMAIN RULE_REGISTRY /\ RULE_REGISTRY[RuleOrder(type)] = type
    BY <2>1 DEF RuleOrder
  <2>3. QED
    BY <1>1, <2>2
<1>4. QED
  BY <1>2, <1>3

LEMMA NameOrders ==
  /\ \A scope \in Scopes : NameOrder(scope) \in Int
  /\ \A a, b \in Scopes : NameOrder(a) = NameOrder(b) => a = b
<1>1. ASSUME NEW a \in Scopes, a # Business
      PROVE  NameOrder(a) \in 1 .. Len(CampaignNames) /\ CampaignNames[NameOrder(a)] = a
  <2>1. DOMAIN CampaignNames = 1 .. Len(CampaignNames)
    BY NamesAssumption
  <2>2. \E i \in DOMAIN CampaignNames : CampaignNames[i] = a
    BY <1>1 DEF Scopes, Range
  <2>3. NameOrder(a) \in DOMAIN CampaignNames /\ CampaignNames[NameOrder(a)] = a
    BY <1>1, <2>2 DEF NameOrder
  <2>4. QED
    BY <2>1, <2>3
<1>2. NameOrder(Business) = 0
  BY DEF NameOrder
<1>3. QED
  BY <1>1, <1>2

\* What the layers after the evaluation may rely on.
IsRanking(c, s) ==
  /\ Len(s) \in Nat /\ s \in [1 .. Len(s) -> {o \in Outcomes(c) : o.offered}]
  /\ \A i \in 1 .. Len(s) : IsOffer(c, s[i]) /\ s[i].scope \notin PhoneShaped
  /\ \A i, j \in 1 .. Len(s) : s[i].type = s[j].type /\ s[i].scope = s[j].scope => i = j
  /\ \A i, j \in 1 .. Len(s) : i < j => s[i].priority <= s[j].priority

\* Unless a name looks like a phone, the opportunities are a ranking of the candidates.
LEMMA OpportunitiesAreRanked ==
  ASSUME NEW c, IsWorld(c), ~NamedLikePhone(c)
  PROVE  IsRanking(c, Opportunities(Outcomes(c)))
<1> DEFINE S == {o \in Outcomes(c) : o.offered}
           key == [o \in S |-> SortKey(o)]
           N == Cardinality(S)
<1>1. IsFiniteSet(S) /\ N \in Nat
  BY OutcomesFinite, FS_Subset, FS_CardinalityType
<1>2. \A o \in S : IsOffer(c, o) /\ o.scope \notin PhoneShaped
  BY OnlyNamesAreRefused, OutcomeFacts DEF ValidOpportunities, IsOpportunity, IsResult
<1>3. \A o \in S : /\ key[o] \in Key(4) /\ key[o][1] = o.priority /\ o.priority \in Int
                   /\ key[o][2] = RuleOrder(o.type) /\ key[o][4] = NameOrder(o.scope)
  <2>1. SUFFICES ASSUME NEW o \in S
                 PROVE /\ SortKey(o) \in Key(4) /\ SortKey(o)[1] = o.priority /\ o.priority \in Int
                       /\ SortKey(o)[2] = RuleOrder(o.type) /\ SortKey(o)[4] = NameOrder(o.scope)
    OBVIOUS
  <2>2. /\ o.priority \in Int /\ RuleOrder(o.type) \in Int /\ -o.impact \in Int
        /\ NameOrder(o.scope) \in Int
    BY <1>2, RuleOrders, NameOrders DEF IsOffer
  <2>3. QED
    BY <2>2 DEF SortKey, Key
<1>4. \A o, q \in S : key[o] = key[q] => o = q
  <2>1. SUFFICES ASSUME NEW o \in S, NEW q \in S, key[o] = key[q] PROVE o = q
    OBVIOUS
  <2>2. RuleOrder(o.type) = RuleOrder(q.type) /\ NameOrder(o.scope) = NameOrder(q.scope)
    BY <1>3, <2>1
  <2>3. o.type = q.type /\ o.scope = q.scope
    BY <1>2, <2>2, RuleOrders, NameOrders DEF IsOffer
  <2>4. QED
    BY <2>3, OutcomesDiffer
<1> DEFINE s == Ranked(S, key)
<1>5. Sorted(s, S, key)
  <2> HIDE DEF S, key
  <2>1. QED
    BY <1>1, <1>3, <1>4, RankedSorts
<1>6. s = Opportunities(Outcomes(c))
  BY DEF Opportunities
<1> HIDE DEF S, key, s, N
<1>7. /\ s \in [1 .. N -> S] /\ \A i, j \in 1 .. N : s[i] = s[j] => i = j
      /\ \A i, j \in 1 .. N : i < j => LexLess(key[s[i]], key[s[j]])
  BY <1>5 DEF Sorted, N
<1>8. Len(s) = N
  BY <1>1, <1>7
<1>9. \A i, j \in 1 .. N : s[i].type = s[j].type /\ s[i].scope = s[j].scope => i = j
  <2>1. \A i \in 1 .. N : s[i] \in S
    BY <1>7
  <2>2. \A o \in S : o \in Outcomes(c)
    BY DEF S
  <2>3. \A i, j \in 1 .. N : s[i].type = s[j].type /\ s[i].scope = s[j].scope => s[i] = s[j]
    BY <2>1, <2>2, OutcomesDiffer
  <2>4. QED
    BY <1>7, <2>3
<1>10. \A i, j \in 1 .. N : i < j => s[i].priority <= s[j].priority
  <2>1. SUFFICES ASSUME NEW i \in 1 .. N, NEW j \in 1 .. N, i < j
                 PROVE  s[i].priority <= s[j].priority
    OBVIOUS
  <2>2. s[i] \in S /\ s[j] \in S /\ LexLess(key[s[i]], key[s[j]])
    BY <1>7, <2>1
  <2>3. PICK a \in Key(4), b \in Key(4) : /\ a = key[s[i]] /\ b = key[s[j]]
                                         /\ a[1] = s[i].priority /\ b[1] = s[j].priority
    BY <1>3, <2>2
  <2>4. PICK m \in 1 .. 4 : a[m] < b[m] /\ \A k \in 1 .. 4 : k < m => a[k] = b[k]
    BY <2>2, <2>3, LexLessAt
  <2>5. a[1] \in Int /\ b[1] \in Int
    BY DEF Key
  <2>6. a[1] <= b[1]
    <3>1. CASE m = 1
      BY <2>4, <2>5, <3>1
    <3>2. CASE m # 1
      BY <2>4, <2>5, <3>2
    <3>3. QED
      BY <3>1, <3>2
  <2>7. QED
    BY <2>3, <2>6
<1>11. IsRanking(c, s)
  BY <1>1, <1>2, <1>7, <1>8, <1>9, <1>10 DEF IsRanking, S
<1>12. QED
  BY <1>6, <1>11

-----------------------------------------------------------------------------
(* Requirements.                                                            *)

\* The statuses of a requirement.
Statuses == {"AVAILABLE", "PARTIAL", "MISSING_FROM_CONTEXT"}

\* Every group of the requirement is met by evidence of the context.
Met(n, o, c) ==
  \A i \in DOMAIN REQUIREMENT_REGISTRY[n] : \E id \in Evidence(c) : Matches(id, REQUIREMENT_REGISTRY[n][i], o)
\* Some group is.
MetInPart(n, o, c) ==
  \E i \in DOMAIN REQUIREMENT_REGISTRY[n] : \E id \in Evidence(c) : Matches(id, REQUIREMENT_REGISTRY[n][i], o)

\* What resolving a requirement returns, group by group.
LEMMA Resolved ==
  ASSUME NEW c, NEW o, NEW n, DOMAIN REQUIREMENT_REGISTRY[n] # {}
  PROVE  LET r == ResolveRequirement(n, o, c) IN
         /\ r.name = n /\ r.refs \subseteq Evidence(c) /\ r.status \in Statuses
         /\ r.status = "AVAILABLE" <=> Met(n, o, c)
         /\ r.status = "MISSING_FROM_CONTEXT" <=> ~MetInPart(n, o, c)
         /\ \A i \in DOMAIN REQUIREMENT_REGISTRY[n] : \A id \in Evidence(c) :
               Matches(id, REQUIREMENT_REGISTRY[n][i], o) => id \in r.refs
         /\ r.refs # {} <=> MetInPart(n, o, c)
<1> DEFINE G == REQUIREMENT_REGISTRY[n]
           found == [i \in DOMAIN G |-> {id \in Evidence(c) : Matches(id, G[i], o)}]
           met == {i \in DOMAIN found : found[i] # {}}
           r == ResolveRequirement(n, o, c)
<1>1. r = [name |-> n, refs |-> UNION {found[i] : i \in DOMAIN found},
           status |-> IF met = DOMAIN found THEN "AVAILABLE"
                      ELSE IF met # {} THEN "PARTIAL" ELSE "MISSING_FROM_CONTEXT"]
  BY DEF ResolveRequirement
<1>2. DOMAIN found = DOMAIN G /\ \A i \in DOMAIN G : found[i] = {id \in Evidence(c) : Matches(id, G[i], o)}
  OBVIOUS
<1>3. met = DOMAIN found <=> Met(n, o, c)
  BY DEF Met
<1>4. met # {} <=> MetInPart(n, o, c)
  BY DEF MetInPart
<1>5. DOMAIN found # {}
  OBVIOUS
<1> HIDE DEF found, met, r, G
<1>6. /\ r.name = n /\ r.refs = UNION {found[i] : i \in DOMAIN found}
      /\ r.status = IF met = DOMAIN found THEN "AVAILABLE"
                    ELSE IF met # {} THEN "PARTIAL" ELSE "MISSING_FROM_CONTEXT"
  BY <1>1
<1>7. \A i \in DOMAIN G : \A id \in Evidence(c) : Matches(id, G[i], o) => id \in r.refs
  BY <1>2, <1>6
<1>8. r.refs \subseteq Evidence(c)
  BY <1>2, <1>6
<1>9. r.refs # {} <=> MetInPart(n, o, c)
  BY <1>2, <1>6 DEF MetInPart, G
<1>10. Met(n, o, c) => MetInPart(n, o, c)
  BY <1>2, <1>5 DEF Met, MetInPart, G
<1>11. r.status \in Statuses /\ (r.status = "AVAILABLE" <=> Met(n, o, c))
       /\ (r.status = "MISSING_FROM_CONTEXT" <=> ~MetInPart(n, o, c))
  BY <1>3, <1>4, <1>6, <1>10 DEF Statuses
<1>12. QED
  BY <1>6, <1>7, <1>8, <1>9, <1>11 DEF r, G

\* The kinds of requirements: what no opportunity changes, what the context never has,
\* and what an opportunity brings with it.
Common == {"confirmation_gap_baseline", "confirmation_dispositions", "upstream_order_cohorts",
           "platform_observed_gap", "platform_event_definition", "lightfunnels_inclusion_rules"}
Lacking == {"campaign_offer_mix", "adgroup_downstream_cohorts", "below_campaign_acquisition_cohorts"}
Own == {"identity_coverage", "campaign_downstream_peer_evidence", "acquisition_cost_peer_evidence",
        "campaign_downstream_outcomes"}
Names == Common \cup Lacking \cup Own

\* What the requirements of each kind ask for.
LEMMA RequirementGroups ==
  /\ \A n \in Names : \E m \in {1, 2} : DOMAIN REQUIREMENT_REGISTRY[n] = 1 .. m
  /\ \A n \in Common : \A i \in DOMAIN REQUIREMENT_REGISTRY[n] :
        ~REQUIREMENT_REGISTRY[n][i].scoped /\ ~REQUIREMENT_REGISTRY[n][i].cited
  /\ \A n \in Lacking : \A i \in DOMAIN REQUIREMENT_REGISTRY[n] :
        REQUIREMENT_REGISTRY[n][i].types = {"DIMENSION"}
  /\ DOMAIN REQUIREMENT_REGISTRY["identity_coverage"] = 1 .. 1
<1>1. /\ REQUIREMENT_REGISTRY["confirmation_gap_baseline"] =
           <<Group({"LEAKAGE"}, {"MATCHED_NOT_CONFIRMED"}), Group({"SIGNAL"}, {"CONFIRMATION_LEAKAGE"})>>
      /\ REQUIREMENT_REGISTRY["confirmation_dispositions"] = <<Dimension>>
      /\ REQUIREMENT_REGISTRY["upstream_order_cohorts"] = <<Dimension>>
      /\ REQUIREMENT_REGISTRY["platform_observed_gap"] = <<Group({"LEAKAGE"}, {"PLATFORM_VS_OBSERVED"})>>
      /\ REQUIREMENT_REGISTRY["platform_event_definition"] = <<Dimension>>
      /\ REQUIREMENT_REGISTRY["lightfunnels_inclusion_rules"] = <<Dimension>>
  BY DEF REQUIREMENT_REGISTRY
<1>2. /\ REQUIREMENT_REGISTRY["campaign_offer_mix"] = <<Scoped(Dimension)>>
      /\ REQUIREMENT_REGISTRY["adgroup_downstream_cohorts"] = <<Scoped(Dimension)>>
      /\ REQUIREMENT_REGISTRY["below_campaign_acquisition_cohorts"] = <<Scoped(Dimension)>>
  BY DEF REQUIREMENT_REGISTRY
<1>3. \A types, keys : /\ ~Group(types, keys).scoped /\ ~Group(types, keys).cited
                       /\ Scoped(Group(types, keys)).types = types
  BY DEF Group, Scoped
<1>4. \A n \in Common : \A i \in DOMAIN REQUIREMENT_REGISTRY[n] :
        ~REQUIREMENT_REGISTRY[n][i].scoped /\ ~REQUIREMENT_REGISTRY[n][i].cited
  BY <1>1, <1>3 DEF Common, Dimension
<1>5. \A n \in Lacking : \A i \in DOMAIN REQUIREMENT_REGISTRY[n] :
        REQUIREMENT_REGISTRY[n][i].types = {"DIMENSION"}
  BY <1>2, <1>3 DEF Lacking, Dimension
<1>6. /\ DOMAIN REQUIREMENT_REGISTRY["identity_coverage"] = 1 .. 1
      /\ DOMAIN REQUIREMENT_REGISTRY["campaign_downstream_peer_evidence"] = 1 .. 2
      /\ DOMAIN REQUIREMENT_REGISTRY["acquisition_cost_peer_evidence"] = 1 .. 2
      /\ DOMAIN REQUIREMENT_REGISTRY["campaign_downstream_outcomes"] = 1 .. 1
  BY DEF REQUIREMENT_REGISTRY
<1>7. \A n \in Names : \E m \in {1, 2} : DOMAIN REQUIREMENT_REGISTRY[n] = 1 .. m
  BY <1>1, <1>2, <1>6 DEF Names, Common, Lacking, Own
<1>8. QED
  BY <1>4, <1>5, <1>6, <1>7

\* The same for every requirement a plan may name: each has a group to meet.
LEMMA ResolvedName ==
  ASSUME NEW c, NEW o, NEW n \in Names
  PROVE  LET r == ResolveRequirement(n, o, c) IN
         /\ r.name = n /\ r.refs \subseteq Evidence(c) /\ r.status \in Statuses
         /\ r.status = "AVAILABLE" <=> Met(n, o, c)
         /\ r.status = "MISSING_FROM_CONTEXT" <=> ~MetInPart(n, o, c)
         /\ \A i \in DOMAIN REQUIREMENT_REGISTRY[n] : \A id \in Evidence(c) :
               Matches(id, REQUIREMENT_REGISTRY[n][i], o) => id \in r.refs
         /\ r.refs # {} <=> MetInPart(n, o, c)
<1>1. DOMAIN REQUIREMENT_REGISTRY[n] # {}
  BY RequirementGroups
<1>2. QED
  BY <1>1, Resolved

\* The status of a common requirement is one for all opportunities.
LEMMA CommonStatus ==
  ASSUME NEW c, NEW o, NEW q, NEW n \in Common
  PROVE  ResolveRequirement(n, o, c).status = ResolveRequirement(n, q, c).status
<1>1. \A i \in DOMAIN REQUIREMENT_REGISTRY[n] : \A id :
        Matches(id, REQUIREMENT_REGISTRY[n][i], o) <=> Matches(id, REQUIREMENT_REGISTRY[n][i], q)
  BY RequirementGroups DEF Matches
<1>2. (Met(n, o, c) <=> Met(n, q, c)) /\ (MetInPart(n, o, c) <=> MetInPart(n, q, c))
  BY <1>1 DEF Met, MetInPart
<1>3. n \in Names
  BY DEF Names
<1>4. /\ ResolveRequirement(n, o, c).status \in Statuses /\ ResolveRequirement(n, q, c).status \in Statuses
      /\ ResolveRequirement(n, o, c).status = "AVAILABLE" <=> Met(n, o, c)
      /\ ResolveRequirement(n, q, c).status = "AVAILABLE" <=> Met(n, q, c)
      /\ ResolveRequirement(n, o, c).status = "MISSING_FROM_CONTEXT" <=> ~MetInPart(n, o, c)
      /\ ResolveRequirement(n, q, c).status = "MISSING_FROM_CONTEXT" <=> ~MetInPart(n, q, c)
  BY <1>3, ResolvedName
<1>5. QED
  BY <1>2, <1>4 DEF Statuses

\* What no context holds is missing from every one.
LEMMA LackingStatus ==
  ASSUME NEW c, NEW o, NEW n \in Lacking
  PROVE  ResolveRequirement(n, o, c).status = "MISSING_FROM_CONTEXT"
<1>1. \A id \in Evidence(c) : id[1] # "DIMENSION"
  <2>1. /\ \A x : SignalId(x)[1] = "SIGNAL" /\ LeakageId(x)[1] = "LEAKAGE"
              /\ CampaignId(x)[1] = "CAMPAIGN_DIAGNOSTIC" /\ AnomalyId(x)[1] = "TIME_ANOMALY"
        /\ EconomicsId(c)[1] = "ECONOMIC_STATUS"
    BY DEF SignalId, LeakageId, CampaignId, AnomalyId, EconomicsId
  <2>2. QED
    BY <2>1 DEF Evidence
<1>2. ~MetInPart(n, o, c)
  BY <1>1, RequirementGroups DEF MetInPart, Matches
<1>3. n \in Names
  BY DEF Names
<1>4. QED
  BY <1>2, <1>3, ResolvedName

\* What an offered opportunity rests on is there for the tasks that ask for it.
LEMMA OwnStatus ==
  ASSUME NEW c, NEW o, IsOffer(c, o)
  PROVE  /\ o.type = FULFILLMENT =>
               ResolveRequirement("campaign_downstream_peer_evidence", o, c).status = "AVAILABLE"
         /\ o.type = CONFIRMATION =>
               ResolveRequirement("confirmation_gap_baseline", o, c).status = "AVAILABLE"
         /\ o.type = MEASUREMENT =>
               ResolveRequirement("platform_observed_gap", o, c).status = "AVAILABLE"
         /\ o.type = EFFICIENCY =>
               /\ ResolveRequirement("acquisition_cost_peer_evidence", o, c).status = "AVAILABLE"
               /\ ResolveRequirement("campaign_downstream_outcomes", o, c).status = "AVAILABLE"
<1> DEFINE diagnostic == <<"CAMPAIGN_DIAGNOSTIC", "", o.scope>>
<1>0. Grounds(c, o)
  BY DEF IsOffer
<1>1. Matches(diagnostic, OwnDiagnostics, o)
  BY DEF Matches, OwnDiagnostics, Scoped, Group
<1>2. ASSUME NEW key, NEW keys, key \in keys PROVE Matches(<<"SIGNAL", key, o.scope>>, Scoped(Group({"SIGNAL"}, keys)), o)
  BY <1>2 DEF Matches, Scoped, Group
<1>3. ASSUME NEW type, NEW key, NEW keys, key \in keys PROVE Matches(<<type, key, Business>>, Group({type}, keys), o)
  BY <1>3 DEF Matches, Group
<1>4. CASE o.type = FULFILLMENT
  <2> DEFINE n == "campaign_downstream_peer_evidence"
             second == Scoped(Group({"SIGNAL"}, {"CAMPAIGN_DELIVERY_GAP", "CAMPAIGN_RETURN_PRESSURE"}))
  <2>1. REQUIREMENT_REGISTRY[n] = <<OwnDiagnostics, second>>
    BY DEF REQUIREMENT_REGISTRY
  <2>2. diagnostic \in Evidence(c) /\ \E id \in Evidence(c) : Matches(id, second, o)
    BY <1>0, <1>2, <1>4 DEF Grounds
  <2> HIDE DEF second, diagnostic
  <2>3. Met(n, o, c)
    BY <1>1, <2>1, <2>2 DEF Met
  <2>4. n \in Names
    BY DEF Names, Own
  <2>5. QED
    BY <1>4, <2>3, <2>4, ResolvedName, TypesDiffer
<1>5. CASE o.type = CONFIRMATION
  <2> DEFINE n == "confirmation_gap_baseline"
             first == Group({"LEAKAGE"}, {"MATCHED_NOT_CONFIRMED"})
             second == Group({"SIGNAL"}, {"CONFIRMATION_LEAKAGE"})
  <2>1. REQUIREMENT_REGISTRY[n] = <<first, second>>
    BY DEF REQUIREMENT_REGISTRY
  <2>2. (\E id \in Evidence(c) : Matches(id, first, o)) /\ \E id \in Evidence(c) : Matches(id, second, o)
    BY <1>0, <1>3, <1>5 DEF Grounds
  <2> HIDE DEF first, second
  <2>3. Met(n, o, c)
    BY <2>1, <2>2 DEF Met
  <2>4. n \in Names
    BY DEF Names, Common
  <2>5. QED
    BY <1>5, <2>3, <2>4, ResolvedName, TypesDiffer
<1>6. CASE o.type = MEASUREMENT
  <2> DEFINE n == "platform_observed_gap"
             first == Group({"LEAKAGE"}, {"PLATFORM_VS_OBSERVED"})
  <2>1. REQUIREMENT_REGISTRY[n] = <<first>>
    BY DEF REQUIREMENT_REGISTRY
  <2>2. \E id \in Evidence(c) : Matches(id, first, o)
    BY <1>0, <1>3, <1>6 DEF Grounds
  <2> HIDE DEF first
  <2>3. Met(n, o, c)
    BY <2>1, <2>2 DEF Met
  <2>4. n \in Names
    BY DEF Names, Common
  <2>5. QED
    BY <1>6, <2>3, <2>4, ResolvedName, TypesDiffer
<1>7. CASE o.type = EFFICIENCY
  <2> DEFINE n == "acquisition_cost_peer_evidence"
             m == "campaign_downstream_outcomes"
             second == Scoped(Group({"SIGNAL"}, {"CAMPAIGN_ACQUISITION_COST_GAP"}))
  <2>1. REQUIREMENT_REGISTRY[n] = <<OwnDiagnostics, second>> /\ REQUIREMENT_REGISTRY[m] = <<OwnDiagnostics>>
    BY DEF REQUIREMENT_REGISTRY
  <2>2. diagnostic \in Evidence(c) /\ \E id \in Evidence(c) : Matches(id, second, o)
    BY <1>0, <1>2, <1>7 DEF Grounds
  <2> HIDE DEF second, diagnostic
  <2>3. Met(n, o, c) /\ Met(m, o, c)
    BY <1>1, <2>1, <2>2 DEF Met
  <2>4. n \in Names /\ m \in Names
    BY DEF Names, Own
  <2>5. QED
    BY <1>7, <2>3, <2>4, ResolvedName, TypesDiffer
<1>8. QED
  BY <1>4, <1>5, <1>6, <1>7 DEF IsOffer, Types

-----------------------------------------------------------------------------
(* Plans.                                                                   *)

\* The requirement a plan of each type begins with, which its opportunity brings.
FirstName(type) ==
  CASE type = FULFILLMENT -> "campaign_downstream_peer_evidence"
    [] type = CONFIRMATION -> "confirmation_gap_baseline"
    [] type = MEASUREMENT -> "platform_observed_gap"
    [] type = EFFICIENCY -> "acquisition_cost_peer_evidence"

\* What the layers rely on in the registry of a type.
IsPlanSpec(type, spec) ==
  /\ \E n \in {3, 4} : DOMAIN spec = 1 .. n
  /\ \A i \in DOMAIN spec : /\ spec[i].requirements \subseteq Names
                            /\ spec[i].requirements # {}
  /\ \A i, j \in DOMAIN spec : spec[i].key = spec[j].key => i = j
  /\ spec[1].requirements = {FirstName(type)}
  /\ \A i \in DOMAIN spec :
        /\ "campaign_downstream_peer_evidence" \in spec[i].requirements => type = FULFILLMENT
        /\ "acquisition_cost_peer_evidence" \in spec[i].requirements => type = EFFICIENCY
        /\ "campaign_downstream_outcomes" \in spec[i].requirements => type = EFFICIENCY

\* The requirements are finitely many.
LEMMA NamesFinite == IsFiniteSet(Names) /\ \A S \in SUBSET Names : IsFiniteSet(S)
<1> DEFINE f == <<"confirmation_gap_baseline", "confirmation_dispositions", "upstream_order_cohorts",
                  "platform_observed_gap", "platform_event_definition", "lightfunnels_inclusion_rules",
                  "campaign_offer_mix", "adgroup_downstream_cohorts", "below_campaign_acquisition_cohorts",
                  "identity_coverage", "campaign_downstream_peer_evidence",
                  "acquisition_cost_peer_evidence", "campaign_downstream_outcomes">>
<1>1. f \in [1 .. 13 -> Names]
  BY DEF Names, Common, Lacking, Own
<1>2. \A n \in Names : \E i \in 1 .. 13 : f[i] = n
  BY DEF Names, Common, Lacking, Own
<1>3. IsFiniteSet(1 .. 13)
  BY IntervalCount
<1> HIDE DEF f
<1>4. IsFiniteSet(Names)
  BY <1>1, <1>2, <1>3, ImageFinite
<1>5. QED
  BY <1>4, FS_Subset

\* The plan of every type is specified as the layers expect.
LEMMA PlanSpecs ==
  ASSUME NEW type \in Types
  PROVE  IsPlanSpec(type, PLAN_REGISTRY[type])
<1> DEFINE spec == PLAN_REGISTRY[type]
<1>0. type \in Range(RULE_REGISTRY)
  BY RuleOrders
<1>1. CASE type = CONFIRMATION
  <2>1. spec = <<TaskSpec("validate-confirmation-baseline", {"confirmation_gap_baseline"}),
                TaskSpec("assess-identity-coverage", {"identity_coverage"}),
                TaskSpec("segment-confirmation-dispositions", {"confirmation_dispositions"}),
                TaskSpec("compare-offer-upstream-cohorts",
                         {"campaign_offer_mix", "upstream_order_cohorts"})>>
    BY <1>0, <1>1, TypesDiffer DEF PLAN_REGISTRY
  <2>2. /\ DOMAIN spec = 1 .. 4
        /\ spec[1].requirements = {"confirmation_gap_baseline"}
        /\ spec[2].requirements = {"identity_coverage"}
        /\ spec[3].requirements = {"confirmation_dispositions"}
        /\ spec[4].requirements = {"campaign_offer_mix", "upstream_order_cohorts"}
        /\ spec[1].key = "validate-confirmation-baseline" /\ spec[2].key = "assess-identity-coverage"
        /\ spec[3].key = "segment-confirmation-dispositions" /\ spec[4].key = "compare-offer-upstream-cohorts"
    BY <2>1 DEF TaskSpec
  <2> HIDE DEF spec
  <2>3. FirstName(type) = "confirmation_gap_baseline"
    BY <1>1, TypesDiffer DEF FirstName
  <2>4. \A i \in DOMAIN spec : i = 1 \/ i = 2 \/ i = 3 \/ i = 4
    BY <2>2
  <2>5. /\ {"confirmation_gap_baseline", "confirmation_dispositions", "upstream_order_cohorts",
            "identity_coverage", "campaign_offer_mix"} \subseteq Names
    BY DEF Names, Common, Own, Lacking
  <2>6. \A i \in DOMAIN spec : /\ spec[i].requirements \subseteq Names
                            /\ spec[i].requirements # {}
    <3>1. \A i \in DOMAIN spec : spec[i].requirements # {}
      BY <2>2, <2>4
    <3>2. \A i \in DOMAIN spec : spec[i].requirements \subseteq Names
      BY <2>2, <2>4, <2>5
    <3>3. QED
      BY <3>1, <3>2
  <2>7. \A i, j \in DOMAIN spec : spec[i].key = spec[j].key => i = j
    BY <2>2, <2>4
  <2>8. QED
    BY <2>2, <2>3, <2>4, <2>6, <2>7 DEF IsPlanSpec, spec
<1>2. CASE type = FULFILLMENT
  <2>1. spec = <<TaskSpec("validate-peer-pattern", {"campaign_downstream_peer_evidence"}),
                TaskSpec("assess-linkage-coverage", {"identity_coverage"}),
                TaskSpec("compare-offer-mix", {"campaign_offer_mix"}),
                TaskSpec("compare-adgroup-cohorts", {"adgroup_downstream_cohorts"})>>
    BY <1>0, <1>2, TypesDiffer DEF PLAN_REGISTRY
  <2>2. /\ DOMAIN spec = 1 .. 4
        /\ spec[1].requirements = {"campaign_downstream_peer_evidence"}
        /\ spec[2].requirements = {"identity_coverage"}
        /\ spec[3].requirements = {"campaign_offer_mix"}
        /\ spec[4].requirements = {"adgroup_downstream_cohorts"}
        /\ spec[1].key = "validate-peer-pattern" /\ spec[2].key = "assess-linkage-coverage"
        /\ spec[3].key = "compare-offer-mix" /\ spec[4].key = "compare-adgroup-cohorts"
    BY <2>1 DEF TaskSpec
  <2> HIDE DEF spec
  <2>3. FirstName(type) = "campaign_downstream_peer_evidence"
    BY <1>2, TypesDiffer DEF FirstName
  <2>4. \A i \in DOMAIN spec : i = 1 \/ i = 2 \/ i = 3 \/ i = 4
    BY <2>2
  <2>5. /\ {"campaign_downstream_peer_evidence", "adgroup_downstream_cohorts",
            "identity_coverage", "campaign_offer_mix"} \subseteq Names
    BY DEF Names, Common, Own, Lacking
  <2>6. \A i \in DOMAIN spec : /\ spec[i].requirements \subseteq Names
                            /\ spec[i].requirements # {}
    <3>1. \A i \in DOMAIN spec : spec[i].requirements # {}
      BY <2>2, <2>4
    <3>2. \A i \in DOMAIN spec : spec[i].requirements \subseteq Names
      BY <2>2, <2>4, <2>5
    <3>3. QED
      BY <3>1, <3>2
  <2>7. \A i, j \in DOMAIN spec : spec[i].key = spec[j].key => i = j
    BY <2>2, <2>4
  <2>8. QED
    BY <1>2, <2>2, <2>3, <2>4, <2>6, <2>7 DEF IsPlanSpec, spec
<1>3. CASE type = MEASUREMENT
  <2>1. spec = <<TaskSpec("validate-measurement-gap", {"platform_observed_gap"}),
                TaskSpec("reconcile-platform-semantics", {"platform_event_definition"}),
                TaskSpec("reconcile-observed-inclusion", {"lightfunnels_inclusion_rules"})>>
    BY <1>0, <1>3, TypesDiffer DEF PLAN_REGISTRY
  <2>2. /\ DOMAIN spec = 1 .. 3
        /\ spec[1].requirements = {"platform_observed_gap"}
        /\ spec[2].requirements = {"platform_event_definition"}
        /\ spec[3].requirements = {"lightfunnels_inclusion_rules"}
        /\ spec[1].key = "validate-measurement-gap" /\ spec[2].key = "reconcile-platform-semantics"
        /\ spec[3].key = "reconcile-observed-inclusion"
    BY <2>1 DEF TaskSpec
  <2> HIDE DEF spec
  <2>3. FirstName(type) = "platform_observed_gap"
    BY <1>3, TypesDiffer DEF FirstName
  <2>4. \A i \in DOMAIN spec : i = 1 \/ i = 2 \/ i = 3
    BY <2>2
  <2>5. /\ {"platform_observed_gap", "platform_event_definition", "lightfunnels_inclusion_rules"} \subseteq Names
    BY DEF Names, Common
  <2>6. \A i \in DOMAIN spec : /\ spec[i].requirements \subseteq Names
                            /\ spec[i].requirements # {}
    <3>1. \A i \in DOMAIN spec : spec[i].requirements # {}
      BY <2>2, <2>4
    <3>2. \A i \in DOMAIN spec : spec[i].requirements \subseteq Names
      BY <2>2, <2>4, <2>5
    <3>3. QED
      BY <3>1, <3>2
  <2>7. \A i, j \in DOMAIN spec : spec[i].key = spec[j].key => i = j
    BY <2>2, <2>4
  <2>8. QED
    BY <2>2, <2>3, <2>4, <2>6, <2>7 DEF IsPlanSpec, spec
<1>4. CASE type = EFFICIENCY
  <2>1. spec = <<TaskSpec("validate-cost-gap", {"acquisition_cost_peer_evidence"}),
                TaskSpec("compare-downstream-evidence", {"campaign_downstream_outcomes"}),
                TaskSpec("collect-below-campaign-cohorts",
                         {"below_campaign_acquisition_cohorts"})>>
    BY <1>0, <1>4, TypesDiffer DEF PLAN_REGISTRY
  <2>2. /\ DOMAIN spec = 1 .. 3
        /\ spec[1].requirements = {"acquisition_cost_peer_evidence"}
        /\ spec[2].requirements = {"campaign_downstream_outcomes"}
        /\ spec[3].requirements = {"below_campaign_acquisition_cohorts"}
        /\ spec[1].key = "validate-cost-gap" /\ spec[2].key = "compare-downstream-evidence"
        /\ spec[3].key = "collect-below-campaign-cohorts"
    BY <2>1 DEF TaskSpec
  <2> HIDE DEF spec
  <2>3. FirstName(type) = "acquisition_cost_peer_evidence"
    BY <1>4, TypesDiffer DEF FirstName
  <2>4. \A i \in DOMAIN spec : i = 1 \/ i = 2 \/ i = 3
    BY <2>2
  <2>5. /\ {"acquisition_cost_peer_evidence", "campaign_downstream_outcomes",
            "below_campaign_acquisition_cohorts"} \subseteq Names
    BY DEF Names, Own, Lacking
  <2>6. \A i \in DOMAIN spec : /\ spec[i].requirements \subseteq Names
                            /\ spec[i].requirements # {}
    <3>1. \A i \in DOMAIN spec : spec[i].requirements # {}
      BY <2>2, <2>4
    <3>2. \A i \in DOMAIN spec : spec[i].requirements \subseteq Names
      BY <2>2, <2>4, <2>5
    <3>3. QED
      BY <3>1, <3>2
  <2>7. \A i, j \in DOMAIN spec : spec[i].key = spec[j].key => i = j
    BY <2>2, <2>4
  <2>8. QED
    BY <1>4, <2>2, <2>3, <2>4, <2>6, <2>7 DEF IsPlanSpec, spec
<1>5. QED
  BY <1>1, <1>2, <1>3, <1>4 DEF Types

\* The requirements of the tasks a plan selects.
Wanted(o, c) == UNION {PLAN_REGISTRY[o.type][i].requirements : i \in SelectedTaskSpecs(o, c)}

\* The tasks that are selected always include the first, and leave out only what asks for
\* the coverage of identities.
LEMMA SelectedFacts ==
  ASSUME NEW c, NEW o, IsOffer(c, o)
  PROVE  LET selected == SelectedTaskSpecs(o, c) spec == PLAN_REGISTRY[o.type] IN
         /\ selected \subseteq DOMAIN spec /\ IsFiniteSet(selected) /\ selected \subseteq Nat
         /\ 1 \in selected
         /\ \A i \in DOMAIN spec : "identity_coverage" \notin spec[i].requirements => i \in selected
         /\ Wanted(o, c) \subseteq Names /\ FirstName(o.type) \in Wanted(o, c)
<1> DEFINE selected == SelectedTaskSpecs(o, c)
           spec == PLAN_REGISTRY[o.type]
<1>1. IsPlanSpec(o.type, spec)
  BY PlanSpecs DEF IsOffer
<1>2. selected \subseteq DOMAIN spec
      /\ \A i \in DOMAIN spec : "identity_coverage" \notin spec[i].requirements => i \in selected
  BY DEF SelectedTaskSpecs
<1>3. PICK n \in {3, 4} : DOMAIN spec = 1 .. n
  BY <1>1 DEF IsPlanSpec
<1>4. IsFiniteSet(1 .. n)
  BY IntervalCount
<1>5. IsFiniteSet(selected)
  BY <1>2, <1>3, <1>4, FS_Subset
<1>6. 1 \in DOMAIN spec /\ "identity_coverage" \notin spec[1].requirements
  <2>1. FirstName(o.type) # "identity_coverage"
    BY DEF FirstName, IsOffer, Types
  <2>2. QED
    BY <1>1, <1>3, <2>1 DEF IsPlanSpec
<1>7. FirstName(o.type) \in spec[1].requirements
  BY <1>1 DEF IsPlanSpec
<1>8. \A i \in DOMAIN spec : spec[i].requirements \subseteq Names
  BY <1>1 DEF IsPlanSpec
<1>9. Wanted(o, c) = UNION {spec[i].requirements : i \in selected}
  BY DEF Wanted
<1> HIDE DEF spec, selected
<1>10. QED
  BY <1>2, <1>3, <1>5, <1>6, <1>7, <1>8, <1>9 DEF spec, selected

\* An offer has the evidence its plan begins with, since the rule required it.
LEMMA FirstIsAvailable ==
  ASSUME NEW c, NEW o, IsOffer(c, o)
  PROVE  FirstName(o.type) \in Names
         /\ ResolveRequirement(FirstName(o.type), o, c).status = "AVAILABLE"
<1>1. o.type \in Types
  BY DEF IsOffer
<1>2. QED
  BY <1>1, OwnStatus, TypesDiffer DEF FirstName, Types, Names, Common, Own

\* A requirement has one status in all the plans of a context.
StatusIn(c, n) == IF n \in Lacking THEN "MISSING_FROM_CONTEXT" ELSE IF n \in Own THEN "AVAILABLE"
                  ELSE ResolveRequirement(n, [support |-> {}, counter |-> {}, blocking |-> {}, scope |-> ""], c).status

\* A requirement that several opportunities share has one status in all their plans.
LEMMA OneStatus ==
  ASSUME NEW c, NEW o, IsOffer(c, o), NEW n \in Wanted(o, c)
  PROVE  ResolveRequirement(n, o, c).status = StatusIn(c, n)
<1> DEFINE spec == PLAN_REGISTRY[o.type]
<1>1. IsPlanSpec(o.type, spec) /\ n \in Names
  BY PlanSpecs, SelectedFacts DEF IsOffer
<1>2. PICK i \in SelectedTaskSpecs(o, c) : n \in spec[i].requirements
  BY DEF Wanted
<1>3. i \in DOMAIN spec
  BY DEF SelectedTaskSpecs
<1>4. CASE n \in Lacking
  BY <1>4, LackingStatus DEF StatusIn
<1>5. CASE n \in Common
  <2>1. n \notin Lacking /\ n \notin Own
    BY <1>5 DEF Common, Lacking, Own
  <2>2. QED
    BY <1>5, <2>1, CommonStatus DEF StatusIn
<1>6. CASE n = "identity_coverage"
  <2>1. ResolveRequirement(n, o, c).status # "MISSING_FROM_CONTEXT"
    BY <1>2, <1>6 DEF SelectedTaskSpecs
  <2>2. MetInPart(n, o, c) => Met(n, o, c)
    BY <1>6, RequirementGroups DEF Met, MetInPart
  <2>3. ResolveRequirement(n, o, c).status = "AVAILABLE"
    BY <1>1, <2>1, <2>2, ResolvedName
  <2>4. n \notin Lacking /\ n \in Own
    BY <1>6 DEF Lacking, Own
  <2>5. QED
    BY <2>3, <2>4 DEF StatusIn
<1>7. CASE n \in Own \ {"identity_coverage"}
  <2>1. /\ n = "campaign_downstream_peer_evidence" => o.type = FULFILLMENT
        /\ n = "acquisition_cost_peer_evidence" => o.type = EFFICIENCY
        /\ n = "campaign_downstream_outcomes" => o.type = EFFICIENCY
    BY <1>1, <1>2, <1>3 DEF IsPlanSpec
  <2>2. ResolveRequirement(n, o, c).status = "AVAILABLE"
    BY <1>7, <2>1, OwnStatus DEF Own
  <2>3. n \notin Lacking /\ n \in Own
    BY <1>7 DEF Lacking, Own
  <2>4. QED
    BY <2>2, <2>3 DEF StatusIn
<1>8. QED
  BY <1>1, <1>4, <1>5, <1>6, <1>7 DEF Names

\* The requirements of an opportunity, those of one of its tasks, and that task.
Required(o, c) == {ResolveRequirement(n, o, c) : n \in Wanted(o, c)}
RequiredBy(o, c, i) == {r \in Required(o, c) : r.name \in PLAN_REGISTRY[o.type][i].requirements}
TaskOf(o, c, i) == BuildTask(o, PLAN_REGISTRY[o.type][i], RequiredBy(o, c, i))

\* The resolved requirements of an opportunity, by name.
LEMMA RequiredFacts ==
  ASSUME NEW c, NEW o, IsOffer(c, o)
  PROVE  /\ \A n \in Wanted(o, c) : /\ n \in Names /\ ResolveRequirement(n, o, c) \in Required(o, c)
                                    /\ ResolveRequirement(n, o, c).name = n
         /\ \A r \in Required(o, c) : /\ r.name \in Wanted(o, c)
                                      /\ r = ResolveRequirement(r.name, o, c)
                                      /\ r.refs \subseteq Evidence(c) /\ r.status \in Statuses
                                      /\ IsRequirement(r)
         /\ {r.name : r \in Required(o, c)} = Wanted(o, c)
<1>1. Wanted(o, c) \subseteq Names
  BY SelectedFacts
<1>2. ASSUME NEW n \in Wanted(o, c)
      PROVE  LET r == ResolveRequirement(n, o, c) IN
             r.name = n /\ r.refs \subseteq Evidence(c) /\ r.status \in Statuses /\ IsRequirement(r)
  <2> DEFINE r == ResolveRequirement(n, o, c)
  <2>1. DOMAIN REQUIREMENT_REGISTRY[n] # {}
    BY <1>1, RequirementGroups
  <2>2. /\ r.name = n /\ r.refs \subseteq Evidence(c) /\ r.status \in Statuses
        /\ r.status = "AVAILABLE" <=> Met(n, o, c)
        /\ r.status = "MISSING_FROM_CONTEXT" <=> ~MetInPart(n, o, c)
        /\ r.refs # {} <=> MetInPart(n, o, c)
    BY <1>1, ResolvedName
  <2>3. Met(n, o, c) => MetInPart(n, o, c)
    BY <2>1 DEF Met, MetInPart
  <2> HIDE DEF r
  <2>4. IsRequirement(r)
    BY <2>2, <2>3 DEF IsRequirement
  <2>5. QED
    BY <2>2, <2>4 DEF r
<1>3. QED
  BY <1>1, <1>2 DEF Required

\* What a task of a plan is.
IsTaskFor(o, c, i, t) ==
  /\ t.id = <<o.type, o.scope, PLAN_REGISTRY[o.type][i].key>>
  /\ t.id[1] = o.type /\ t.id[2] = o.scope /\ t.id[3] = PLAN_REGISTRY[o.type][i].key
  /\ t.requirements = PLAN_REGISTRY[o.type][i].requirements
  /\ t.readiness = DeriveTaskReadiness({r.status : r \in RequiredBy(o, c, i)})
  /\ t.refs = UNION {r.refs : r \in RequiredBy(o, c, i)} /\ t.refs \subseteq Evidence(c)
  /\ t.requirements \subseteq Wanted(o, c) /\ t.requirements # {}
  /\ t.missing \subseteq t.requirements
  /\ Cardinality(RequiredBy(o, c, i)) = Cardinality(t.requirements)
  /\ \A n \in t.requirements : ResolveRequirement(n, o, c) \in RequiredBy(o, c, i)

\* What a built task has.
LEMMA TaskFacts ==
  ASSUME NEW c, NEW o, IsOffer(c, o), NEW i \in SelectedTaskSpecs(o, c)
  PROVE  IsTaskFor(o, c, i, TaskOf(o, c, i))
<1> DEFINE spec == PLAN_REGISTRY[o.type]
           t == TaskOf(o, c, i)
           required == RequiredBy(o, c, i)
           N == spec[i].requirements
<1>1. /\ t.id = <<o.type, o.scope, spec[i].key>> /\ t.requirements = N
      /\ t.missing = {r.name : r \in {r \in required : r.status # "AVAILABLE"}}
      /\ t.refs = UNION {r.refs : r \in required}
      /\ t.readiness = DeriveTaskReadiness({r.status : r \in required})
  BY DEF TaskOf, BuildTask
<1>2. i \in DOMAIN spec
  BY DEF SelectedTaskSpecs
<1>3. N \subseteq Wanted(o, c) /\ N # {} /\ N \subseteq Names
  <2>1. IsPlanSpec(o.type, spec)
    BY PlanSpecs DEF IsOffer
  <2>2. QED
    BY <1>2, <2>1 DEF IsPlanSpec, Wanted
<1>4. required = {r \in Required(o, c) : r.name \in N}
  BY DEF RequiredBy
<1> DEFINE f == [n \in N |-> ResolveRequirement(n, o, c)]
<1>5. /\ f \in [N -> required] /\ \A r \in required : \E n \in N : f[n] = r
      /\ \A n, m \in N : f[n] = f[m] => n = m
  <2>1. \A n \in N : ResolveRequirement(n, o, c) \in required /\ ResolveRequirement(n, o, c).name = n
    <3> HIDE DEF required, N
    <3>1. QED
      BY <1>3, <1>4, RequiredFacts
  <2>2. \A r \in required : r.name \in N /\ r = ResolveRequirement(r.name, o, c)
    <3> HIDE DEF required, N
    <3>1. QED
      BY <1>4, RequiredFacts
  <2> HIDE DEF required, N
  <2>3. QED
    BY <2>1, <2>2
<1>6. Cardinality(required) = Cardinality(N)
  <2>1. f \in Bijection(N, required)
    <3> HIDE DEF f, N, required
    <3>1. QED
      BY <1>5 DEF Bijection, Injection, Surjection, IsInjective
  <2>2. IsFiniteSet(N)
    BY <1>3, NamesFinite
  <2> HIDE DEF f, N, required
  <2>3. ExistsBijection(N, required)
    BY <2>1 DEF ExistsBijection
  <2>4. QED
    BY <2>2, <2>3, FS_Bijection
<1>7. t.refs \subseteq Evidence(c) /\ t.missing \subseteq N
  <2> HIDE DEF required, t, N
  <2>1. \A r \in required : r.refs \subseteq Evidence(c) /\ r.name \in N
    BY <1>4, RequiredFacts
  <2>2. QED
    BY <1>1, <2>1
<1>8. \A n \in N : ResolveRequirement(n, o, c) \in required
  BY <1>5
<1>9. t.id[1] = o.type /\ t.id[2] = o.scope /\ t.id[3] = spec[i].key
  BY <1>1
<1> HIDE DEF required, t, N
<1>10. QED
  BY <1>1, <1>3, <1>6, <1>7, <1>8, <1>9 DEF required, t, N, IsTaskFor

\* What a plan is made of.
IsPlanFor(o, c, p) ==
  /\ p.opportunity = OpportunityId(o) /\ p.priority = o.priority
  /\ p.requirements = Required(o, c)
  /\ Len(p.tasks) \in Nat /\ p.tasks \in [1 .. Len(p.tasks) -> {TaskOf(o, c, i) : i \in SelectedTaskSpecs(o, c)}]
  /\ Range(p.tasks) = {TaskOf(o, c, i) : i \in SelectedTaskSpecs(o, c)}
  /\ \A k, m \in 1 .. Len(p.tasks) : p.tasks[k].id = p.tasks[m].id => k = m

\* The tasks of one plan have different ids.
LEMMA TaskIdsDiffer ==
  ASSUME NEW c, NEW o, IsOffer(c, o), NEW i \in SelectedTaskSpecs(o, c), NEW j \in SelectedTaskSpecs(o, c),
         TaskOf(o, c, i).id = TaskOf(o, c, j).id
  PROVE  i = j
<1>1. IsPlanSpec(o.type, PLAN_REGISTRY[o.type])
  BY PlanSpecs DEF IsOffer
<1>2. PLAN_REGISTRY[o.type][i].key = PLAN_REGISTRY[o.type][j].key
  <2>1. IsTaskFor(o, c, i, TaskOf(o, c, i)) /\ IsTaskFor(o, c, j, TaskOf(o, c, j))
    BY TaskFacts
  <2>2. QED
    BY <2>1 DEF IsTaskFor
<1>3. QED
  BY <1>1, <1>2 DEF IsPlanSpec, SelectedTaskSpecs

\* What a built plan has, its tasks ordered by readiness.
LEMMA PlanFacts ==
  ASSUME NEW c, NEW o, IsOffer(c, o)
  PROVE  LET p == BuildPlan(o, c) IN
         /\ IsPlanFor(o, c, p)
         /\ \A k, m \in 1 .. Len(p.tasks) : k < m =>
               ReadinessOrder[p.tasks[k].readiness] <= ReadinessOrder[p.tasks[m].readiness]
         /\ p.status = PlanStatus(p.tasks) /\ p.recommended = RecommendedTask(p.tasks)
<1> DEFINE sel == SelectedTaskSpecs(o, c)
           spec == PLAN_REGISTRY[o.type]
           R == Required(o, c)
           task == [i \in sel |-> TaskOf(o, c, i)]
           key == [i \in sel |-> <<ReadinessOrder[task[i].readiness], i>>]
           order == Ranked(sel, key)
           tasks == [k \in DOMAIN order |-> task[order[k]]]
           p == BuildPlan(o, c)
           N == Cardinality(sel)
<1>1. p = PlanOf(o, R, tasks)
  <2>1. p = PlanOf(o, R, BuildTasks(o, sel, R))
    BY DEF BuildPlan, PlanWith, Required, Wanted
  <2>2. BuildTasks(o, sel, R) = tasks
    BY DEF BuildTasks, TaskOf, RequiredBy
  <2>3. QED
    BY <2>1, <2>2
<1>2. IsFiniteSet(sel) /\ sel \subseteq Nat /\ N \in Nat
  BY SelectedFacts, FS_CardinalityType
<1>3. \A i \in sel : ReadinessOrder[task[i].readiness] \in Int
  <2>1. \A S : ReadinessOrder[DeriveTaskReadiness(S)] \in Int
    BY DEF ReadinessOrder, DeriveTaskReadiness
  <2>2. SUFFICES ASSUME NEW i \in sel PROVE ReadinessOrder[TaskOf(o, c, i).readiness] \in Int
    OBVIOUS
  <2>3. TaskOf(o, c, i).readiness = DeriveTaskReadiness({r.status : r \in RequiredBy(o, c, i)})
    BY TaskFacts DEF IsTaskFor
  <2>4. QED
    BY <2>1, <2>3
<1>4. \A i \in sel : key[i] \in Key(2) /\ key[i][1] = ReadinessOrder[task[i].readiness] /\ key[i][2] = i
  <2> HIDE DEF task, sel
  <2>1. QED
    BY <1>2, <1>3 DEF Key
<1>5. Sorted(order, sel, key)
  <2> HIDE DEF key, sel
  <2>1. \A i, j \in sel : key[i] = key[j] => i = j
    BY <1>4
  <2>2. QED
    BY <1>2, <1>4, <2>1, RankedSorts
<1>6. /\ order \in [1 .. N -> sel] /\ \A i \in sel : \E k \in 1 .. N : order[k] = i
      /\ \A k, m \in 1 .. N : order[k] = order[m] => k = m
      /\ \A k, m \in 1 .. N : k < m => LexLess(key[order[k]], key[order[m]])
  BY <1>5 DEF Sorted
<1> HIDE DEF order, key
<1>7. /\ Len(tasks) = N /\ DOMAIN tasks = 1 .. N
      /\ \A k \in 1 .. N : order[k] \in sel /\ tasks[k] = TaskOf(o, c, order[k])
  <2> HIDE DEF sel, N
  <2>1. QED
    BY <1>2, <1>6
<1>8. tasks \in [1 .. N -> {TaskOf(o, c, i) : i \in sel}]
  <2> HIDE DEF sel, N
  <2>1. QED
    BY <1>6, <1>7
<1>9. Range(tasks) = {TaskOf(o, c, i) : i \in sel}
  <2> HIDE DEF sel, N, tasks
  <2>1. Range(tasks) = {tasks[k] : k \in 1 .. N}
    BY <1>7 DEF Range
  <2>2. QED
    BY <1>6, <1>7, <2>1
<1>10. \A k, m \in 1 .. N : tasks[k].id = tasks[m].id => k = m
  <2>1. SUFFICES ASSUME NEW k \in 1 .. N, NEW m \in 1 .. N, tasks[k].id = tasks[m].id PROVE k = m
    OBVIOUS
  <2>2. order[k] = order[m]
    BY <1>7, <2>1, TaskIdsDiffer
  <2>3. QED
    BY <1>6, <2>2
<1>11. \A k, m \in 1 .. N : k < m =>
         ReadinessOrder[tasks[k].readiness] <= ReadinessOrder[tasks[m].readiness]
  <2>1. SUFFICES ASSUME NEW k \in 1 .. N, NEW m \in 1 .. N, k < m
                 PROVE  ReadinessOrder[tasks[k].readiness] <= ReadinessOrder[tasks[m].readiness]
    OBVIOUS
  <2>2. order[k] \in sel /\ order[m] \in sel /\ LexLess(key[order[k]], key[order[m]])
    BY <1>6, <2>1
  <2>3. PICK a \in Key(2), b \in Key(2) :
           /\ a = key[order[k]] /\ b = key[order[m]]
           /\ a[1] = ReadinessOrder[tasks[k].readiness] /\ b[1] = ReadinessOrder[tasks[m].readiness]
    <3>1. task[order[k]] = tasks[k] /\ task[order[m]] = tasks[m]
      BY <1>7, <2>2
    <3> HIDE DEF task, tasks
    <3>2. QED
      BY <1>4, <2>2, <3>1
  <2>4. PICK x \in 1 .. 2 : a[x] < b[x] /\ \A y \in 1 .. 2 : y < x => a[y] = b[y]
    BY <2>2, <2>3, LexLessAt
  <2>5. a[1] \in Int /\ b[1] \in Int
    BY DEF Key
  <2>6. a[1] <= b[1]
    <3>1. CASE x = 1
      BY <2>4, <2>5, <3>1
    <3>2. CASE x # 1
      BY <2>4, <2>5, <3>2
    <3>3. QED
      BY <3>1, <3>2
  <2>7. QED
    BY <2>3, <2>6
<1>12. /\ p.opportunity = OpportunityId(o) /\ p.priority = o.priority /\ p.requirements = R
       /\ p.tasks = tasks /\ p.status = PlanStatus(tasks) /\ p.recommended = RecommendedTask(tasks)
  <2> HIDE DEF tasks, p, R
  <2>1. QED
    BY <1>1 DEF PlanOf
<1> HIDE DEF tasks, p, R, N, sel
<1>13. IsPlanFor(o, c, p)
  BY <1>2, <1>7, <1>8, <1>9, <1>10, <1>12 DEF IsPlanFor, R, sel
<1>14. QED
  BY <1>7, <1>11, <1>12, <1>13 DEF p

\* The portfolio keeps the order of the opportunities: they are ranked by priority.
LEMMA PlansInOrder ==
  ASSUME NEW c, NEW s, IsRanking(c, s)
  PROVE  BuildPlans(s, c) = [i \in 1 .. Len(s) |-> BuildPlan(s[i], c)]
<1> DEFINE n == Len(s)
           key == [i \in DOMAIN s |-> <<s[i].priority, i>>]
           order == Ranked(DOMAIN s, key)
           place == [x \in DOMAIN s |-> 1 + Cardinality({y \in DOMAIN s : LexLess(key[y], key[x])})]
<1>1. n \in Nat /\ DOMAIN s = 1 .. n
  BY DEF IsRanking
<1> HIDE DEF n
<1>2. \A i \in 1 .. n : s[i].priority \in Int
  BY DEF IsRanking, IsOffer, n
<1>3. \A i, j \in 1 .. n : i < j => s[i].priority <= s[j].priority
  BY DEF IsRanking, n
<1>4. \A i \in 1 .. n : key[i] \in Key(2) /\ key[i][1] = s[i].priority /\ key[i][2] = i
  BY <1>1, <1>2 DEF Key
<1> HIDE DEF key
<1>5. \A x, y \in 1 .. n : LexLess(key[y], key[x]) <=> y < x
  <2>1. SUFFICES ASSUME NEW x \in 1 .. n, NEW y \in 1 .. n PROVE LexLess(key[y], key[x]) <=> y < x
    OBVIOUS
  <2>2. PICK a \in Key(2), b \in Key(2) : /\ a = key[y] /\ b = key[x]
          /\ a[1] = s[y].priority /\ a[2] = y /\ b[1] = s[x].priority /\ b[2] = x
    BY <1>4
  <2>3. LexLess(a, b) <=> \E m \in 1 .. 2 : a[m] < b[m] /\ \A i \in 1 .. 2 : i < m => a[i] = b[i]
    BY LexLessAt
  <2>4. /\ a[1] \in Int /\ b[1] \in Int /\ x \in Int /\ y \in Int
        /\ y < x => a[1] <= b[1]
        /\ x < y => b[1] <= a[1]
        /\ x = y => a[1] = b[1]
    BY <1>2, <1>3, <2>2
  <2>5. ASSUME y < x PROVE \E m \in 1 .. 2 : a[m] < b[m] /\ \A i \in 1 .. 2 : i < m => a[i] = b[i]
    <3>1. CASE a[1] < b[1]
      BY <3>1
    <3>2. CASE a[1] = b[1]
      <4>1. a[2] < b[2] /\ \A i \in 1 .. 2 : i < 2 => a[i] = b[i]
        BY <2>2, <2>5, <3>2
      <4>2. QED
        BY <4>1
    <3>3. QED
      BY <2>4, <2>5, <3>1, <3>2
  <2>6. ASSUME NEW m \in 1 .. 2, a[m] < b[m], \A i \in 1 .. 2 : i < m => a[i] = b[i] PROVE y < x
    <3>1. CASE m = 1
      BY <2>4, <2>6, <3>1
    <3>2. CASE m = 2
      BY <2>2, <2>6, <3>2
    <3>3. QED
      BY <3>1, <3>2
  <2>7. QED
    BY <2>2, <2>3, <2>5, <2>6
<1>6. \A x \in 1 .. n : place[x] = x
  <2>1. SUFFICES ASSUME NEW x \in 1 .. n PROVE place[x] = x
    OBVIOUS
  <2>2. {y \in DOMAIN s : LexLess(key[y], key[x])} = 1 .. x - 1
    BY <1>1, <1>5
  <2>3. PICK m \in Nat : m = x - 1
    BY <1>1
  <2>4. Cardinality(1 .. m) = m
    BY IntervalCount
  <2>5. place[x] = 1 + Cardinality({y \in DOMAIN s : LexLess(key[y], key[x])})
    BY <1>1
  <2> HIDE DEF place
  <2>6. 1 .. x - 1 = 1 .. m
    BY <2>3
  <2>7. place[x] = 1 + m
    BY <2>2, <2>4, <2>5, <2>6
  <2>8. QED
    BY <1>1, <2>3, <2>7
<1>7. Cardinality(DOMAIN s) = n
  BY <1>1, IntervalCount
<1>8. order = [i \in 1 .. n |-> CHOOSE x \in DOMAIN s : place[x] = i]
  BY <1>7 DEF Ranked
<1> HIDE DEF place, order
<1>9. \A i \in 1 .. n : order[i] = i
  BY <1>1, <1>6, <1>8
<1>10. BuildPlans(s, c) = [i \in DOMAIN s |-> BuildPlan(s[order[i]], c)]
  BY DEF BuildPlans, order, key
<1>11. QED
  BY <1>1, <1>9, <1>10 DEF n

\* A built plan passes the validators of its model, unless its scope looks like a phone.
LEMMA PlanIsValid ==
  ASSUME NEW c, NEW o, IsOffer(c, o), o.scope \notin PhoneShaped
  PROVE  IsPlan(BuildPlan(o, c), o, c)
<1> DEFINE p == BuildPlan(o, c)
           sel == SelectedTaskSpecs(o, c)
<1>1. /\ IsPlanFor(o, c, p)
      /\ \A k, m \in 1 .. Len(p.tasks) : k < m =>
            ReadinessOrder[p.tasks[k].readiness] <= ReadinessOrder[p.tasks[m].readiness]
      /\ p.status = PlanStatus(p.tasks) /\ p.recommended = RecommendedTask(p.tasks)
  BY PlanFacts
<1> HIDE DEF p
<1>2. IsOpportunity(c, o)
  BY DEF IsOffer, IsOpportunity
<1>3. \A i \in sel : IsTaskFor(o, c, i, TaskOf(o, c, i))
  BY TaskFacts
<1>4. /\ Len(p.tasks) \in Nat /\ DOMAIN p.tasks = 1 .. Len(p.tasks)
      /\ \A t \in Range(p.tasks) : \E i \in sel : t = TaskOf(o, c, i) /\ IsTaskFor(o, c, i, t)
      /\ \A i \in sel : TaskOf(o, c, i) \in Range(p.tasks)
      /\ p.requirements = Required(o, c)
  BY <1>1, <1>3 DEF IsPlanFor
<1>5. p.tasks # <<>>
  <2>1. 1 \in sel
    BY SelectedFacts
  <2>2. PICK t : t \in Range(p.tasks)
    BY <1>4, <2>1
  <2>3. QED
    BY <2>2 DEF Range
<1>6. p.requirements # {} /\ \A r \in p.requirements : IsRequirement(r)
  <2>1. FirstName(o.type) \in Wanted(o, c)
    BY SelectedFacts
  <2>2. QED
    BY <1>4, <2>1, RequiredFacts
<1>7. \A t \in Range(p.tasks) : IsTask(t)
  BY <1>4 DEF IsTaskFor, IsTask
<1>8. Cardinality({t.id : t \in Range(p.tasks)}) = Len(p.tasks)
  <2> DEFINE I == {t.id : t \in Range(p.tasks)}
             g == [k \in 1 .. Len(p.tasks) |-> p.tasks[k].id]
  <2>1. g \in [1 .. Len(p.tasks) -> I] /\ \A x \in I : \E k \in 1 .. Len(p.tasks) : g[k] = x
    BY <1>4 DEF Range
  <2>2. \A k, m \in 1 .. Len(p.tasks) : g[k] = g[m] => k = m
    BY <1>1 DEF IsPlanFor
  <2> HIDE DEF I, g
  <2>3. QED
    BY <1>4, <2>1, <2>2, CountDistinct DEF I
<1>9. \A r \in p.requirements : r = ResolveRequirement(r.name, o, c) /\ r.refs \subseteq Evidence(c)
  BY <1>4, RequiredFacts
<1>10. ASSUME NEW t \in Range(p.tasks)
       PROVE  LET required == {r \in p.requirements : r.name \in t.requirements} IN
              /\ Cardinality(required) = Cardinality(t.requirements)
              /\ t.readiness = DeriveTaskReadiness({r.status : r \in required})
              /\ t.refs = UNION {r.refs : r \in required}
  <2>1. PICK i \in sel : IsTaskFor(o, c, i, t)
    BY <1>4
  <2>2. {r \in p.requirements : r.name \in t.requirements} = RequiredBy(o, c, i)
    BY <1>4, <2>1 DEF IsTaskFor, RequiredBy
  <2>3. QED
    BY <2>1, <2>2 DEF IsTaskFor
<1>11. p.opportunity = OpportunityId(o) /\ p.priority = o.priority
  BY <1>1 DEF IsPlanFor
<1>12. IsPlanModel(p)
  BY <1>5, <1>6, <1>7 DEF IsPlanModel
<1>13. IsPlan(p, o, c)
  BY <1>1, <1>2, <1>4, <1>8, <1>9, <1>10, <1>11, <1>12 DEF IsPlan
<1>14. QED
  BY <1>13 DEF p

\* The plans of a ranking.
ArePlans(c, s, plans) ==
  /\ Len(s) \in Nat /\ DOMAIN plans = 1 .. Len(s) /\ Len(plans) = Len(s)
  /\ plans = [i \in 1 .. Len(s) |-> BuildPlan(s[i], c)]
  /\ \A i \in 1 .. Len(s) : IsPlanFor(s[i], c, plans[i]) /\ IsPlan(plans[i], s[i], c)

\* One plan for every opportunity, in the order of the opportunities.
LEMMA BuiltPlans ==
  ASSUME NEW c, NEW s, IsRanking(c, s)
  PROVE  ArePlans(c, s, BuildPlans(s, c))
<1>1. BuildPlans(s, c) = [i \in 1 .. Len(s) |-> BuildPlan(s[i], c)] /\ Len(s) \in Nat
  BY PlansInOrder DEF IsRanking
<1>2. \A i \in 1 .. Len(s) : IsPlanFor(s[i], c, BuildPlan(s[i], c)) /\ IsPlan(BuildPlan(s[i], c), s[i], c)
  BY PlanFacts, PlanIsValid DEF IsRanking
<1>3. Len(BuildPlans(s, c)) = Len(s) /\ DOMAIN BuildPlans(s, c) = 1 .. Len(s)
  BY <1>1
<1>4. QED
  BY <1>1, <1>2, <1>3 DEF ArePlans

\* The plans pass the validators of the portfolio.
LEMMA PlansAreAPortfolio ==
  ASSUME NEW c, NEW s, IsRanking(c, s), NEW plans, ArePlans(c, s, plans)
  PROVE  IsPlanPortfolio(plans, s, c)
<1>1. /\ DOMAIN plans = 1 .. Len(s) /\ DOMAIN s = 1 .. Len(s)
      /\ \A i \in 1 .. Len(s) : IsPlanFor(s[i], c, plans[i]) /\ IsPlan(plans[i], s[i], c)
      /\ \A i \in 1 .. Len(s) : plans[i].opportunity = OpportunityId(s[i])
  BY DEF ArePlans, IsRanking, IsPlanFor
<1>2. ASSUME NEW i \in 1 .. Len(s), NEW r \in plans[i].requirements
      PROVE  \E t \in Range(plans[i].tasks) : r.name \in t.requirements
  <2>1. IsOffer(c, s[i]) /\ IsPlanFor(s[i], c, plans[i])
    BY <1>1 DEF IsRanking
  <2>2. r.name \in Wanted(s[i], c)
    BY <2>1, RequiredFacts DEF IsPlanFor
  <2>3. PICK j \in SelectedTaskSpecs(s[i], c) : r.name \in PLAN_REGISTRY[s[i].type][j].requirements
    BY <2>2 DEF Wanted
  <2>4. TaskOf(s[i], c, j) \in Range(plans[i].tasks) /\ IsTaskFor(s[i], c, j, TaskOf(s[i], c, j))
    BY <2>1, TaskFacts DEF IsPlanFor
  <2>5. QED
    BY <2>3, <2>4 DEF IsTaskFor
<1>3. ASSUME NEW gap \in AggregateGaps(plans) PROVE IsGap(gap)
  <2> DEFINE Missing(i) == {r.name : r \in {r \in plans[i].requirements :
                                          r.status = "MISSING_FROM_CONTEXT"}}
             Of(n) == {i \in DOMAIN plans : n \in Missing(i)}
             Tasks(n) == {t.id : t \in {t \in UNION {Range(plans[i].tasks) : i \in Of(n)} :
                                      n \in t.requirements}}
  <2>1. AggregateGaps(plans) = {[requirement |-> n, opportunities |-> {plans[i].opportunity : i \in Of(n)},
                                 tasks |-> Tasks(n)] : n \in UNION {Missing(i) : i \in DOMAIN plans}}
    BY DEF AggregateGaps
  <2>2. PICK n \in UNION {Missing(i) : i \in DOMAIN plans} :
          gap = [requirement |-> n, opportunities |-> {plans[i].opportunity : i \in Of(n)}, tasks |-> Tasks(n)]
    BY <2>1
  <2>3. PICK i \in DOMAIN plans : n \in Missing(i)
    OBVIOUS
  <2>4. PICK r \in plans[i].requirements : r.name = n
    BY <2>3
  <2>5. PICK t \in Range(plans[i].tasks) : n \in t.requirements
    BY <1>1, <1>2, <2>4
  <2>6. i \in Of(n)
    BY <2>3
  <2>7. t.id \in Tasks(n) /\ plans[i].opportunity \in {plans[k].opportunity : k \in Of(n)}
    <3> HIDE DEF Of
    <3>1. QED
      BY <2>5, <2>6
  <2> HIDE DEF Tasks, Of
  <2>8. QED
    BY <2>2, <2>7 DEF IsGap
<1>4. QED
  BY <1>1, <1>3 DEF IsPlanPortfolio

-----------------------------------------------------------------------------
(* Decisions.                                                               *)

\* What the layers rely on in a frame of a type whose plan has these tasks.
IsFrame(spec, frame) ==
  /\ frame.requirements \in Seq(Names) /\ Len(frame.requirements) > 0 /\ frame.tasks # {}
  /\ \A n \in Range(frame.requirements) : \E j \in DOMAIN spec :
        n \in spec[j].requirements /\ spec[j].key \in frame.tasks
  /\ \A key \in frame.tasks : \E j \in DOMAIN spec :
        spec[j].key = key /\ "identity_coverage" \notin spec[j].requirements
\* The two frames of a type.
AreFrames(spec, frames) ==
  /\ DOMAIN frames = 1 .. 2 /\ Len(frames) = 2 /\ frames = [i \in 1 .. 2 |-> frames[i]]
  /\ \A i \in 1 .. 2 : IsFrame(spec, frames[i])

\* The frames of every type name what the plan of that type has.
LEMMA FrameFacts ==
  ASSUME NEW type \in Types
  PROVE  AreFrames(PLAN_REGISTRY[type], DECISION_FRAME_REGISTRY[type])
<1> DEFINE spec == PLAN_REGISTRY[type]
           frames == DECISION_FRAME_REGISTRY[type]
<1>0. type \in Range(RULE_REGISTRY)
  BY RuleOrders
<1>1. CASE type = CONFIRMATION
  <2>1. spec = <<TaskSpec("validate-confirmation-baseline", {"confirmation_gap_baseline"}),
                TaskSpec("assess-identity-coverage", {"identity_coverage"}),
                TaskSpec("segment-confirmation-dispositions", {"confirmation_dispositions"}),
                TaskSpec("compare-offer-upstream-cohorts", {"campaign_offer_mix", "upstream_order_cohorts"})>>
    BY <1>0, <1>1, TypesDiffer DEF PLAN_REGISTRY
  <2>2. frames = <<Frame(<<"confirmation_gap_baseline">>,
                {"validate-confirmation-baseline"}, TRUE, FALSE),
             Frame(<<"confirmation_gap_baseline", "confirmation_dispositions", "campaign_offer_mix", "upstream_order_cohorts">>,
                {"validate-confirmation-baseline", "segment-confirmation-dispositions", "compare-offer-upstream-cohorts"}, TRUE, TRUE)>>
    BY <1>0, <1>1, TypesDiffer DEF DECISION_FRAME_REGISTRY
  <2>3. /\ DOMAIN spec = 1 .. 4 /\ DOMAIN frames = 1 .. 2 /\ Len(frames) = 2
        /\ frames = [i \in 1 .. 2 |-> frames[i]]
        /\ spec[1].key = "validate-confirmation-baseline" /\ spec[1].requirements = {"confirmation_gap_baseline"}
        /\ spec[3].key = "segment-confirmation-dispositions" /\ spec[3].requirements = {"confirmation_dispositions"}
        /\ spec[4].key = "compare-offer-upstream-cohorts" /\ spec[4].requirements = {"campaign_offer_mix", "upstream_order_cohorts"}
    BY <2>1, <2>2 DEF TaskSpec
  <2>4. /\ frames[1].requirements = <<"confirmation_gap_baseline">>
        /\ frames[1].tasks = {"validate-confirmation-baseline"}
    BY <2>2 DEF Frame
  <2>5. /\ frames[2].requirements = <<"confirmation_gap_baseline", "confirmation_dispositions", "campaign_offer_mix", "upstream_order_cohorts">>
        /\ frames[2].tasks = {"validate-confirmation-baseline", "segment-confirmation-dispositions", "compare-offer-upstream-cohorts"}
    BY <2>2 DEF Frame
  <2> HIDE DEF spec, frames
  <2>6. IsFrame(spec, frames[1])
    <3> DEFINE names == frames[1].requirements
    <3>1. names \in Seq({"confirmation_gap_baseline"}) /\ Len(names) = 1
          /\ Range(names) = {"confirmation_gap_baseline"}
      BY <2>4 DEF Range
    <3>2. {"confirmation_gap_baseline"} \subseteq Names
      BY DEF Names, Common, Own, Lacking
    <3>3. names \in Seq(Names)
      BY <3>1, <3>2
    <3>4. \A n \in {"confirmation_gap_baseline"} : \E j \in DOMAIN spec :
            n \in spec[j].requirements /\ spec[j].key \in frames[1].tasks
      BY <2>3, <2>4
    <3>5. \A key \in frames[1].tasks : \E j \in DOMAIN spec :
            spec[j].key = key /\ "identity_coverage" \notin spec[j].requirements
      BY <2>3, <2>4
    <3> HIDE DEF names
    <3>6. QED
      BY <2>4, <3>1, <3>3, <3>4, <3>5 DEF IsFrame, names
  <2>7. IsFrame(spec, frames[2])
    <3> DEFINE names == frames[2].requirements
    <3>1. names \in Seq({"confirmation_gap_baseline", "confirmation_dispositions", "campaign_offer_mix", "upstream_order_cohorts"}) /\ Len(names) = 4
          /\ Range(names) = {"confirmation_gap_baseline", "confirmation_dispositions", "campaign_offer_mix", "upstream_order_cohorts"}
      BY <2>5 DEF Range
    <3>2. {"confirmation_gap_baseline", "confirmation_dispositions", "campaign_offer_mix", "upstream_order_cohorts"} \subseteq Names
      BY DEF Names, Common, Own, Lacking
    <3>3. names \in Seq(Names)
      BY <3>1, <3>2
    <3>4. \A n \in {"confirmation_gap_baseline", "confirmation_dispositions", "campaign_offer_mix", "upstream_order_cohorts"} : \E j \in DOMAIN spec :
            n \in spec[j].requirements /\ spec[j].key \in frames[2].tasks
      BY <2>3, <2>5
    <3>5. \A key \in frames[2].tasks : \E j \in DOMAIN spec :
            spec[j].key = key /\ "identity_coverage" \notin spec[j].requirements
      BY <2>3, <2>5
    <3> HIDE DEF names
    <3>6. QED
      BY <2>5, <3>1, <3>3, <3>4, <3>5 DEF IsFrame, names
  <2>8. QED
    BY <2>3, <2>6, <2>7 DEF AreFrames, spec, frames
<1>2. CASE type = FULFILLMENT
  <2>1. spec = <<TaskSpec("validate-peer-pattern", {"campaign_downstream_peer_evidence"}),
                TaskSpec("assess-linkage-coverage", {"identity_coverage"}),
                TaskSpec("compare-offer-mix", {"campaign_offer_mix"}),
                TaskSpec("compare-adgroup-cohorts", {"adgroup_downstream_cohorts"})>>
    BY <1>0, <1>2, TypesDiffer DEF PLAN_REGISTRY
  <2>2. frames = [i \in 1 .. 2 |-> Frame(<<"campaign_downstream_peer_evidence", "campaign_offer_mix", "adgroup_downstream_cohorts">>,
                {"validate-peer-pattern", "compare-offer-mix", "compare-adgroup-cohorts"}, i = 2, TRUE)]
    BY <1>0, <1>2, TypesDiffer DEF DECISION_FRAME_REGISTRY
  <2>3. /\ DOMAIN spec = 1 .. 4 /\ DOMAIN frames = 1 .. 2 /\ Len(frames) = 2
        /\ frames = [i \in 1 .. 2 |-> frames[i]]
        /\ spec[1].key = "validate-peer-pattern" /\ spec[1].requirements = {"campaign_downstream_peer_evidence"}
        /\ spec[3].key = "compare-offer-mix" /\ spec[3].requirements = {"campaign_offer_mix"}
        /\ spec[4].key = "compare-adgroup-cohorts" /\ spec[4].requirements = {"adgroup_downstream_cohorts"}
    BY <2>1, <2>2 DEF TaskSpec
  <2>4. /\ frames[1].requirements = <<"campaign_downstream_peer_evidence", "campaign_offer_mix", "adgroup_downstream_cohorts">>
        /\ frames[1].tasks = {"validate-peer-pattern", "compare-offer-mix", "compare-adgroup-cohorts"}
    BY <2>2 DEF Frame
  <2>5. /\ frames[2].requirements = <<"campaign_downstream_peer_evidence", "campaign_offer_mix", "adgroup_downstream_cohorts">>
        /\ frames[2].tasks = {"validate-peer-pattern", "compare-offer-mix", "compare-adgroup-cohorts"}
    BY <2>2 DEF Frame
  <2> HIDE DEF spec, frames
  <2>6. IsFrame(spec, frames[1])
    <3> DEFINE names == frames[1].requirements
    <3>1. names \in Seq({"campaign_downstream_peer_evidence", "campaign_offer_mix", "adgroup_downstream_cohorts"}) /\ Len(names) = 3
          /\ Range(names) = {"campaign_downstream_peer_evidence", "campaign_offer_mix", "adgroup_downstream_cohorts"}
      BY <2>4 DEF Range
    <3>2. {"campaign_downstream_peer_evidence", "campaign_offer_mix", "adgroup_downstream_cohorts"} \subseteq Names
      BY DEF Names, Common, Own, Lacking
    <3>3. names \in Seq(Names)
      BY <3>1, <3>2
    <3>4. \A n \in {"campaign_downstream_peer_evidence", "campaign_offer_mix", "adgroup_downstream_cohorts"} : \E j \in DOMAIN spec :
            n \in spec[j].requirements /\ spec[j].key \in frames[1].tasks
      BY <2>3, <2>4
    <3>5. \A key \in frames[1].tasks : \E j \in DOMAIN spec :
            spec[j].key = key /\ "identity_coverage" \notin spec[j].requirements
      BY <2>3, <2>4
    <3> HIDE DEF names
    <3>6. QED
      BY <2>4, <3>1, <3>3, <3>4, <3>5 DEF IsFrame, names
  <2>7. IsFrame(spec, frames[2])
    <3> DEFINE names == frames[2].requirements
    <3>1. names \in Seq({"campaign_downstream_peer_evidence", "campaign_offer_mix", "adgroup_downstream_cohorts"}) /\ Len(names) = 3
          /\ Range(names) = {"campaign_downstream_peer_evidence", "campaign_offer_mix", "adgroup_downstream_cohorts"}
      BY <2>5 DEF Range
    <3>2. {"campaign_downstream_peer_evidence", "campaign_offer_mix", "adgroup_downstream_cohorts"} \subseteq Names
      BY DEF Names, Common, Own, Lacking
    <3>3. names \in Seq(Names)
      BY <3>1, <3>2
    <3>4. \A n \in {"campaign_downstream_peer_evidence", "campaign_offer_mix", "adgroup_downstream_cohorts"} : \E j \in DOMAIN spec :
            n \in spec[j].requirements /\ spec[j].key \in frames[2].tasks
      BY <2>3, <2>5
    <3>5. \A key \in frames[2].tasks : \E j \in DOMAIN spec :
            spec[j].key = key /\ "identity_coverage" \notin spec[j].requirements
      BY <2>3, <2>5
    <3> HIDE DEF names
    <3>6. QED
      BY <2>5, <3>1, <3>3, <3>4, <3>5 DEF IsFrame, names
  <2>8. QED
    BY <2>3, <2>6, <2>7 DEF AreFrames, spec, frames
<1>3. CASE type = MEASUREMENT
  <2>1. spec = <<TaskSpec("validate-measurement-gap", {"platform_observed_gap"}),
                TaskSpec("reconcile-platform-semantics", {"platform_event_definition"}),
                TaskSpec("reconcile-observed-inclusion", {"lightfunnels_inclusion_rules"})>>
    BY <1>0, <1>3, TypesDiffer DEF PLAN_REGISTRY
  <2>2. frames = <<Frame(<<"platform_observed_gap">>,
                {"validate-measurement-gap"}, FALSE, FALSE),
             Frame(<<"platform_observed_gap", "platform_event_definition", "lightfunnels_inclusion_rules">>,
                {"validate-measurement-gap", "reconcile-platform-semantics", "reconcile-observed-inclusion"}, TRUE, TRUE)>>
    BY <1>0, <1>3, TypesDiffer DEF DECISION_FRAME_REGISTRY
  <2>3. /\ DOMAIN spec = 1 .. 3 /\ DOMAIN frames = 1 .. 2 /\ Len(frames) = 2
        /\ frames = [i \in 1 .. 2 |-> frames[i]]
        /\ spec[1].key = "validate-measurement-gap" /\ spec[1].requirements = {"platform_observed_gap"}
        /\ spec[2].key = "reconcile-platform-semantics" /\ spec[2].requirements = {"platform_event_definition"}
        /\ spec[3].key = "reconcile-observed-inclusion" /\ spec[3].requirements = {"lightfunnels_inclusion_rules"}
    BY <2>1, <2>2 DEF TaskSpec
  <2>4. /\ frames[1].requirements = <<"platform_observed_gap">>
        /\ frames[1].tasks = {"validate-measurement-gap"}
    BY <2>2 DEF Frame
  <2>5. /\ frames[2].requirements = <<"platform_observed_gap", "platform_event_definition", "lightfunnels_inclusion_rules">>
        /\ frames[2].tasks = {"validate-measurement-gap", "reconcile-platform-semantics", "reconcile-observed-inclusion"}
    BY <2>2 DEF Frame
  <2> HIDE DEF spec, frames
  <2>6. IsFrame(spec, frames[1])
    <3> DEFINE names == frames[1].requirements
    <3>1. names \in Seq({"platform_observed_gap"}) /\ Len(names) = 1
          /\ Range(names) = {"platform_observed_gap"}
      BY <2>4 DEF Range
    <3>2. {"platform_observed_gap"} \subseteq Names
      BY DEF Names, Common, Own, Lacking
    <3>3. names \in Seq(Names)
      BY <3>1, <3>2
    <3>4. \A n \in {"platform_observed_gap"} : \E j \in DOMAIN spec :
            n \in spec[j].requirements /\ spec[j].key \in frames[1].tasks
      BY <2>3, <2>4
    <3>5. \A key \in frames[1].tasks : \E j \in DOMAIN spec :
            spec[j].key = key /\ "identity_coverage" \notin spec[j].requirements
      BY <2>3, <2>4
    <3> HIDE DEF names
    <3>6. QED
      BY <2>4, <3>1, <3>3, <3>4, <3>5 DEF IsFrame, names
  <2>7. IsFrame(spec, frames[2])
    <3> DEFINE names == frames[2].requirements
    <3>1. names \in Seq({"platform_observed_gap", "platform_event_definition", "lightfunnels_inclusion_rules"}) /\ Len(names) = 3
          /\ Range(names) = {"platform_observed_gap", "platform_event_definition", "lightfunnels_inclusion_rules"}
      BY <2>5 DEF Range
    <3>2. {"platform_observed_gap", "platform_event_definition", "lightfunnels_inclusion_rules"} \subseteq Names
      BY DEF Names, Common, Own, Lacking
    <3>3. names \in Seq(Names)
      BY <3>1, <3>2
    <3>4. \A n \in {"platform_observed_gap", "platform_event_definition", "lightfunnels_inclusion_rules"} : \E j \in DOMAIN spec :
            n \in spec[j].requirements /\ spec[j].key \in frames[2].tasks
      BY <2>3, <2>5
    <3>5. \A key \in frames[2].tasks : \E j \in DOMAIN spec :
            spec[j].key = key /\ "identity_coverage" \notin spec[j].requirements
      BY <2>3, <2>5
    <3> HIDE DEF names
    <3>6. QED
      BY <2>5, <3>1, <3>3, <3>4, <3>5 DEF IsFrame, names
  <2>8. QED
    BY <2>3, <2>6, <2>7 DEF AreFrames, spec, frames
<1>4. CASE type = EFFICIENCY
  <2>1. spec = <<TaskSpec("validate-cost-gap", {"acquisition_cost_peer_evidence"}),
                TaskSpec("compare-downstream-evidence", {"campaign_downstream_outcomes"}),
                TaskSpec("collect-below-campaign-cohorts", {"below_campaign_acquisition_cohorts"})>>
    BY <1>0, <1>4, TypesDiffer DEF PLAN_REGISTRY
  <2>2. frames = <<Frame(<<"acquisition_cost_peer_evidence", "campaign_downstream_outcomes">>,
                {"validate-cost-gap", "compare-downstream-evidence"}, FALSE, FALSE),
             Frame(<<"acquisition_cost_peer_evidence", "campaign_downstream_outcomes", "below_campaign_acquisition_cohorts">>,
                {"validate-cost-gap", "compare-downstream-evidence", "collect-below-campaign-cohorts"}, TRUE, TRUE)>>
    BY <1>0, <1>4, TypesDiffer DEF DECISION_FRAME_REGISTRY
  <2>3. /\ DOMAIN spec = 1 .. 3 /\ DOMAIN frames = 1 .. 2 /\ Len(frames) = 2
        /\ frames = [i \in 1 .. 2 |-> frames[i]]
        /\ spec[1].key = "validate-cost-gap" /\ spec[1].requirements = {"acquisition_cost_peer_evidence"}
        /\ spec[2].key = "compare-downstream-evidence" /\ spec[2].requirements = {"campaign_downstream_outcomes"}
        /\ spec[3].key = "collect-below-campaign-cohorts" /\ spec[3].requirements = {"below_campaign_acquisition_cohorts"}
    BY <2>1, <2>2 DEF TaskSpec
  <2>4. /\ frames[1].requirements = <<"acquisition_cost_peer_evidence", "campaign_downstream_outcomes">>
        /\ frames[1].tasks = {"validate-cost-gap", "compare-downstream-evidence"}
    BY <2>2 DEF Frame
  <2>5. /\ frames[2].requirements = <<"acquisition_cost_peer_evidence", "campaign_downstream_outcomes", "below_campaign_acquisition_cohorts">>
        /\ frames[2].tasks = {"validate-cost-gap", "compare-downstream-evidence", "collect-below-campaign-cohorts"}
    BY <2>2 DEF Frame
  <2> HIDE DEF spec, frames
  <2>6. IsFrame(spec, frames[1])
    <3> DEFINE names == frames[1].requirements
    <3>1. names \in Seq({"acquisition_cost_peer_evidence", "campaign_downstream_outcomes"}) /\ Len(names) = 2
          /\ Range(names) = {"acquisition_cost_peer_evidence", "campaign_downstream_outcomes"}
      BY <2>4 DEF Range
    <3>2. {"acquisition_cost_peer_evidence", "campaign_downstream_outcomes"} \subseteq Names
      BY DEF Names, Common, Own, Lacking
    <3>3. names \in Seq(Names)
      BY <3>1, <3>2
    <3>4. \A n \in {"acquisition_cost_peer_evidence", "campaign_downstream_outcomes"} : \E j \in DOMAIN spec :
            n \in spec[j].requirements /\ spec[j].key \in frames[1].tasks
      BY <2>3, <2>4
    <3>5. \A key \in frames[1].tasks : \E j \in DOMAIN spec :
            spec[j].key = key /\ "identity_coverage" \notin spec[j].requirements
      BY <2>3, <2>4
    <3> HIDE DEF names
    <3>6. QED
      BY <2>4, <3>1, <3>3, <3>4, <3>5 DEF IsFrame, names
  <2>7. IsFrame(spec, frames[2])
    <3> DEFINE names == frames[2].requirements
    <3>1. names \in Seq({"acquisition_cost_peer_evidence", "campaign_downstream_outcomes", "below_campaign_acquisition_cohorts"}) /\ Len(names) = 3
          /\ Range(names) = {"acquisition_cost_peer_evidence", "campaign_downstream_outcomes", "below_campaign_acquisition_cohorts"}
      BY <2>5 DEF Range
    <3>2. {"acquisition_cost_peer_evidence", "campaign_downstream_outcomes", "below_campaign_acquisition_cohorts"} \subseteq Names
      BY DEF Names, Common, Own, Lacking
    <3>3. names \in Seq(Names)
      BY <3>1, <3>2
    <3>4. \A n \in {"acquisition_cost_peer_evidence", "campaign_downstream_outcomes", "below_campaign_acquisition_cohorts"} : \E j \in DOMAIN spec :
            n \in spec[j].requirements /\ spec[j].key \in frames[2].tasks
      BY <2>3, <2>5
    <3>5. \A key \in frames[2].tasks : \E j \in DOMAIN spec :
            spec[j].key = key /\ "identity_coverage" \notin spec[j].requirements
      BY <2>3, <2>5
    <3> HIDE DEF names
    <3>6. QED
      BY <2>5, <3>1, <3>3, <3>4, <3>5 DEF IsFrame, names
  <2>8. QED
    BY <2>3, <2>6, <2>7 DEF AreFrames, spec, frames
<1>5. QED
  BY <1>1, <1>2, <1>3, <1>4 DEF Types

\* One of the frames of the type of an opportunity.
FrameOf(o, i) == DECISION_FRAME_REGISTRY[o.type][i]

\* The plan of an opportunity has what the frames of its type name.
LEMMA FrameOfPlan ==
  ASSUME NEW c, NEW o, IsOffer(c, o), NEW p, IsPlanFor(o, c, p), NEW i \in 1 .. 2
  PROVE  LET frame == FrameOf(o, i) IN
         /\ FrameResolves(p, frame) /\ RelevantTasks(p, frame) # {}
         /\ frame.requirements \in Seq(Names) /\ Len(frame.requirements) > 0
         /\ \A n \in Range(frame.requirements) :
              /\ n \in Wanted(o, c) /\ RequirementOf(p, n) = ResolveRequirement(n, o, c)
              /\ \E t \in RelevantTasks(p, frame) : n \in t.requirements
<1> DEFINE frame == FrameOf(o, i)
           spec == PLAN_REGISTRY[o.type]
           sel == SelectedTaskSpecs(o, c)
<1>1. IsFrame(spec, frame) /\ IsPlanSpec(o.type, spec)
  BY FrameFacts, PlanSpecs DEF IsOffer, AreFrames, FrameOf
<1>2. \A j \in DOMAIN spec : "identity_coverage" \notin spec[j].requirements => j \in sel
  BY SelectedFacts
<1>3. \A key \in frame.tasks : \E j \in sel : spec[j].key = key
  BY <1>1, <1>2 DEF IsFrame
<1>4. \A j \in sel : /\ TaskOf(o, c, j) \in Range(p.tasks) /\ TaskOf(o, c, j).id[3] = spec[j].key
                     /\ TaskOf(o, c, j).requirements = spec[j].requirements
                     /\ TaskOf(o, c, j).requirements \subseteq Wanted(o, c)
  <2>1. \A j \in sel : TaskOf(o, c, j) \in Range(p.tasks)
    BY DEF IsPlanFor
  <2>2. \A j \in sel : IsTaskFor(o, c, j, TaskOf(o, c, j))
    BY TaskFacts
  <2>3. QED
    BY <2>1, <2>2 DEF IsTaskFor
<1>5. \A j, k \in DOMAIN spec : spec[j].key = spec[k].key => j = k
  BY <1>1 DEF IsPlanSpec
<1>6. sel \subseteq DOMAIN spec
  BY SelectedFacts
<1> HIDE DEF frame, spec, sel
<1>7. frame.tasks \subseteq {t.id[3] : t \in Range(p.tasks)}
  <2>1. SUFFICES ASSUME NEW key \in frame.tasks PROVE \E t \in Range(p.tasks) : t.id[3] = key
    OBVIOUS
  <2>2. PICK j \in sel : spec[j].key = key
    BY <1>3
  <2>3. QED
    BY <1>4, <2>2
<1>8. ASSUME NEW n \in Range(frame.requirements)
      PROVE  /\ n \in Wanted(o, c)
             /\ \E t \in RelevantTasks(p, frame) : n \in t.requirements
  <2>1. PICK j \in DOMAIN spec : n \in spec[j].requirements /\ spec[j].key \in frame.tasks
    BY <1>1 DEF IsFrame
  <2>2. j \in sel
    BY <1>3, <1>5, <1>6, <2>1
  <2>3. QED
    BY <1>4, <2>1, <2>2 DEF RelevantTasks
<1>9. ASSUME NEW n \in Wanted(o, c)
      PROVE  RequirementOf(p, n) = ResolveRequirement(n, o, c) /\ n \in {r.name : r \in p.requirements}
  <2>1. /\ p.requirements = Required(o, c) /\ ResolveRequirement(n, o, c) \in Required(o, c)
        /\ ResolveRequirement(n, o, c).name = n
        /\ \A r \in Required(o, c) : r = ResolveRequirement(r.name, o, c)
    BY RequiredFacts DEF IsPlanFor
  <2>2. \A r \in p.requirements : r.name = n <=> r = ResolveRequirement(n, o, c)
    BY <2>1
  <2>3. QED
    BY <2>1, <2>2 DEF RequirementOf
<1>10. Range(frame.requirements) \subseteq {r.name : r \in p.requirements}
  BY <1>8, <1>9
<1>11. RelevantTasks(p, frame) # {}
  <2>1. PICK key \in frame.tasks : TRUE
    BY <1>1 DEF IsFrame
  <2>2. PICK t \in Range(p.tasks) : t.id[3] = key
    BY <1>7
  <2>3. QED
    BY <2>2 DEF RelevantTasks
<1>12. FrameResolves(p, frame)
  BY <1>7, <1>10 DEF FrameResolves
<1>13. frame.requirements \in Seq(Names) /\ Len(frame.requirements) > 0
  BY <1>1 DEF IsFrame
<1>14. QED
  BY <1>8, <1>9, <1>11, <1>12, <1>13 DEF frame

\* The decision of a frame, in terms of the opportunity and the context.
IsDecisionFor(o, c, p, i, d) ==
  /\ d.id[1] = o.type /\ d.id[2] = o.scope /\ d.id[3] = FrameOrders[i]
  /\ d.opportunity = OpportunityId(o)
  /\ d.required = Range(FrameOf(o, i).requirements) /\ d.required # {} /\ d.required \subseteq Wanted(o, c)
  /\ d.unresolved \in Seq(Names)
  /\ Range(d.unresolved) = {n \in d.required : ResolveRequirement(n, o, c).status # "AVAILABLE"}
  /\ d.relevant # {} /\ d.relevant \subseteq TaskIds(Range(p.tasks)) /\ d.next \subseteq d.relevant
  /\ \A n \in Range(d.unresolved) :
        \E t \in Range(p.tasks) : n \in t.requirements /\ t.id \in d.next
  /\ d.readiness \in {"NEEDS_MORE_EVIDENCE", "READY_FOR_HUMAN_REVIEW"}
  /\ d.readiness = "READY_FOR_HUMAN_REVIEW" => d.unresolved = <<>>
  /\ d.support = (o.support \cup UNION {ResolveRequirement(n, o, c).refs : n \in d.required})
                   \ (o.counter \cup o.blocking)
  /\ d.counter = o.counter /\ d.blocking = o.blocking

\* What assessing a frame yields.
LEMMA DecisionFacts ==
  ASSUME NEW c, NEW o, IsOffer(c, o), NEW p, IsPlanFor(o, c, p), NEW i \in 1 .. 2
  PROVE  IsDecisionFor(o, c, p, i, Assess(o, p, i))
<1> DEFINE frame == FrameOf(o, i)
           places == {k \in DOMAIN frame.requirements :
                        RequirementOf(p, frame.requirements[k]).status # "AVAILABLE"}
           required == {RequirementOf(p, n) : n \in Range(frame.requirements)}
           unresolved == At(frame.requirements, places)
           relevant == RelevantTasks(p, frame)
           readiness == Readiness(o, frame, unresolved, relevant)
           adding == {t \in relevant : t.requirements \cap Range(unresolved) # {}}
           next == IF readiness # "READY_FOR_HUMAN_REVIEW" /\ adding = {} THEN relevant ELSE adding
           d == Assess(o, p, i)
<1>1. d = [id |-> <<o.type, o.scope, FrameOrders[i]>>, opportunity |-> OpportunityId(o),
           readiness |-> readiness, unresolved |-> unresolved,
           required |-> Range(frame.requirements), relevant |-> TaskIds(relevant),
           next |-> TaskIds(next),
           support |-> Support(o, required), counter |-> o.counter, blocking |-> o.blocking]
  BY DEF Assess, FrameOf
<1>2. /\ relevant # {} /\ frame.requirements \in Seq(Names) /\ Len(frame.requirements) > 0
      /\ \A n \in Range(frame.requirements) :
              /\ n \in Wanted(o, c) /\ RequirementOf(p, n) = ResolveRequirement(n, o, c)
              /\ \E t \in relevant : n \in t.requirements
  BY FrameOfPlan
<1>3. relevant \subseteq Range(p.tasks)
  BY DEF RelevantTasks
<1>4. unresolved \in Seq(Names) /\ Range(unresolved) = {frame.requirements[k] : k \in 1 .. Len(frame.requirements) \cap places}
  BY <1>2, AtElements
<1> HIDE DEF frame, unresolved, relevant
<1> DEFINE names == frame.requirements
           S == {n \in Range(names) : ResolveRequirement(n, o, c).status # "AVAILABLE"}
<1>0. /\ DOMAIN names = 1 .. Len(names) /\ Len(names) \in Nat
      /\ \A n \in Range(names) : \E k \in 1 .. Len(names) : n = names[k]
      /\ \A k \in 1 .. Len(names) : names[k] \in Range(names)
  BY <1>2 DEF Range
<1>5. Range(unresolved) = S
  <2>1. \A k \in 1 .. Len(names) : k \in places <=> ResolveRequirement(names[k], o, c).status # "AVAILABLE"
    BY <1>0, <1>2
  <2> HIDE DEF places, names
  <2>2. Range(unresolved) = {names[k] : k \in 1 .. Len(names) \cap places}
    BY <1>4 DEF names
  <2>3. ASSUME NEW n \in S PROVE n \in Range(unresolved)
    <3>1. PICK k \in 1 .. Len(names) : n = names[k]
      BY <1>0
    <3>2. QED
      BY <2>1, <2>2, <3>1
  <2>4. ASSUME NEW n \in Range(unresolved) PROVE n \in S
    <3>1. PICK k \in 1 .. Len(names) \cap places : n = names[k]
      BY <2>2
    <3>2. QED
      BY <1>0, <2>1, <3>1
  <2>5. QED
    BY <2>3, <2>4
<1> HIDE DEF places
<1>6. /\ readiness \in {"NEEDS_MORE_EVIDENCE", "READY_FOR_HUMAN_REVIEW"}
      /\ readiness = "READY_FOR_HUMAN_REVIEW" => unresolved = <<>>
  BY DEF Readiness
<1>7. next \subseteq relevant
  OBVIOUS
<1>8. ASSUME NEW n \in Range(unresolved) PROVE \E t \in relevant : n \in t.requirements /\ t \in next
  <2>1. PICK t \in relevant : n \in t.requirements
    BY <1>2, <1>5
  <2>2. t \in adding
    BY <2>1
  <2>3. QED
    BY <2>1, <2>2
<1>9. Support(o, required) = (o.support \cup UNION {ResolveRequirement(n, o, c).refs : n \in Range(frame.requirements)})
                   \ (o.counter \cup o.blocking)
  <2>1. \A n \in Range(frame.requirements) : RequirementOf(p, n) = ResolveRequirement(n, o, c)
    BY <1>2
  <2>2. UNION {r.refs : r \in required} = UNION {ResolveRequirement(n, o, c).refs : n \in Range(frame.requirements)}
    BY <2>1
  <2>3. QED
    BY <2>2 DEF Support
<1>10. Range(frame.requirements) # {}
  <2>1. 1 \in 1 .. Len(names)
    BY <1>0, <1>2
  <2>2. QED
    BY <1>0, <2>1
<1> HIDE DEF next, adding, readiness, required, d
<1>11. /\ d.id[1] = o.type /\ d.id[2] = o.scope /\ d.id[3] = FrameOrders[i]
       /\ d.opportunity = OpportunityId(o) /\ d.counter = o.counter /\ d.blocking = o.blocking
       /\ d.required = Range(frame.requirements) /\ d.unresolved = unresolved
       /\ d.readiness = readiness /\ d.relevant = TaskIds(relevant) /\ d.next = TaskIds(next)
       /\ d.support = Support(o, required)
  BY <1>1
<1>12. /\ d.relevant # {} /\ d.relevant \subseteq TaskIds(Range(p.tasks)) /\ d.next \subseteq d.relevant
  BY <1>2, <1>3, <1>7, <1>11 DEF TaskIds
<1>13. \A n \in Range(unresolved) : \E t \in Range(p.tasks) : n \in t.requirements /\ t.id \in d.next
  BY <1>3, <1>7, <1>8, <1>11 DEF TaskIds
<1>14. d.required \subseteq Wanted(o, c)
  BY <1>2, <1>11
<1>15. QED
  BY <1>4, <1>5, <1>6, <1>9, <1>10, <1>11, <1>12, <1>13, <1>14 DEF IsDecisionFor, d, frame

\* The decisions of a ranking and its plans.
AreDecisions(c, s, plans, D) ==
  /\ Len(D) \in Nat /\ DOMAIN D = 1 .. Len(D)
  /\ \A d \in Range(D) : \E i \in 1 .. Len(s), f \in 1 .. 2 : IsDecisionFor(s[i], c, plans[i], f, d)
  /\ \A k, l \in 1 .. Len(D) : D[k].id = D[l].id => k = l
  /\ Cardinality({d.id : d \in Range(D)}) = Len(D)

\* A pair is a sequence.
LEMMA PairIsSequence ==
  ASSUME NEW U, NEW t \in [1 .. 2 -> U] PROVE t \in Seq(U)
<1>1. t = [i \in 1 .. 2 |-> t[i]] /\ \A i \in 1 .. 2 : t[i] \in U
  OBVIOUS
<1>2. [i \in 1 .. 2 |-> t[i]] \in Seq(U)
  BY <1>1
<1>3. QED
  BY <1>1, <1>2

\* Two decisions for every opportunity, each with an id of its own.
LEMMA BuiltDecisions ==
  ASSUME NEW c, NEW s, IsRanking(c, s), NEW plans, ArePlans(c, s, plans)
  PROVE  /\ AreDecisions(c, s, plans, BuildDecisions(s, plans))
         /\ Len(BuildDecisions(s, plans)) = Len(FlattenSeq([i \in DOMAIN s |-> DECISION_FRAME_REGISTRY[s[i].type]]))
<1> DEFINE n == Len(s)
           T == {Assess(s[i], plans[i], f) : i \in 1 .. n, f \in 1 .. 2}
           rows == [i \in 1 .. n |-> [f \in 1 .. 2 |-> Assess(s[i], plans[i], f)]]
           U == {DECISION_FRAME_REGISTRY[s[i].type][f] : i \in 1 .. n, f \in 1 .. 2}
           frames == [i \in 1 .. n |-> DECISION_FRAME_REGISTRY[s[i].type]]
<1>1. /\ n \in Nat /\ DOMAIN s = 1 .. n
      /\ \A i \in 1 .. n : IsOffer(c, s[i]) /\ IsPlanFor(s[i], c, plans[i]) /\ s[i].type \in Types
      /\ \A i, j \in 1 .. n : s[i].type = s[j].type /\ s[i].scope = s[j].scope => i = j
  BY DEF IsRanking, ArePlans, IsOffer
<1> HIDE DEF n
<1>2. \A i \in 1 .. n : AreFrames(PLAN_REGISTRY[s[i].type], DECISION_FRAME_REGISTRY[s[i].type])
  BY <1>1, FrameFacts
<1>3. \A i \in 1 .. n : /\ DOMAIN DECISION_FRAME_REGISTRY[s[i].type] = 1 .. 2
                        /\ Len(DECISION_FRAME_REGISTRY[s[i].type]) = 2
                        /\ DECISION_FRAME_REGISTRY[s[i].type] = [f \in 1 .. 2 |-> DECISION_FRAME_REGISTRY[s[i].type][f]]
  BY <1>2 DEF AreFrames
<1>4. [i \in DOMAIN s |-> [f \in DOMAIN DECISION_FRAME_REGISTRY[s[i].type] |-> Assess(s[i], plans[i], f)]] = rows
  BY <1>1, <1>3
<1>5. BuildDecisions(s, plans) = FlattenSeq(rows)
  BY <1>4 DEF BuildDecisions
<1>6. \A i \in 1 .. n, f \in 1 .. 2 : IsDecisionFor(s[i], c, plans[i], f, Assess(s[i], plans[i], f))
  BY <1>1, DecisionFacts
<1>7. \A i \in 1 .. n : rows[i] = [f \in 1 .. 2 |-> Assess(s[i], plans[i], f)]
  OBVIOUS
<1>8. rows \in Seq(Seq(T)) /\ Len(rows) = n /\ \A i \in 1 .. n : Len(rows[i]) = 2
  <2>1. ASSUME NEW i \in 1 .. n PROVE rows[i] \in Seq(T) /\ Len(rows[i]) = 2
    <3>1. \A f \in 1 .. 2 : Assess(s[i], plans[i], f) \in T
      OBVIOUS
    <3> HIDE DEF T
    <3>2. rows[i] \in [1 .. 2 -> T]
      BY <1>7, <3>1
    <3>3. QED
      BY <3>2
  <2> HIDE DEF T
  <2>2. \A i \in 1 .. n : rows[i] \in Seq(T)
    BY <2>1
  <2>3. rows \in [1 .. n -> Seq(T)]
    BY <2>2
  <2> HIDE DEF rows
  <2>4. QED
    BY <1>1, <2>1, <2>3
<1>9. frames \in Seq(Seq(U)) /\ Len(frames) = n /\ \A i \in 1 .. n : Len(frames[i]) = 2
  <2>1. ASSUME NEW i \in 1 .. n PROVE frames[i] \in Seq(U) /\ Len(frames[i]) = 2
    <3>1. \A f \in 1 .. 2 : frames[i][f] \in U
      OBVIOUS
    <3> HIDE DEF U
    <3>2. frames[i] \in [1 .. 2 -> U] /\ Len(frames[i]) = 2
      BY <1>3, <3>1
    <3> HIDE DEF frames
    <3>3. QED
      BY <3>2, PairIsSequence
  <2> HIDE DEF U
  <2>2. \A i \in 1 .. n : frames[i] \in Seq(U)
    BY <2>1
  <2>3. frames \in [1 .. n -> Seq(U)]
    BY <2>2
  <2> HIDE DEF frames
  <2>4. QED
    BY <1>1, <2>1, <2>3
<1>10. \A x : x \in Range(FlattenSeq(rows)) <=> \E i \in 1 .. n : x \in Range(rows[i])
  <2> HIDE DEF rows, T
  <2>1. \A x : x \in Range(FlattenSeq(rows)) <=> \E i \in 1 .. Len(rows) : x \in Range(rows[i])
    BY <1>8, FlatElements
  <2>2. QED
    BY <1>8, <2>1
<1>11. FlattenSeq(rows) \in Seq(T) /\ FlattenSeq(frames) \in Seq(U)
  BY <1>8, <1>9, FlatElements
<1>12. ASSUME NEW i \in 1 .. n, NEW k \in 1 .. n, NEW f \in 1 .. 2, NEW g \in 1 .. 2,
              rows[i][f].id = rows[k][g].id
       PROVE  i = k /\ f = g
  <2>1. IsDecisionFor(s[i], c, plans[i], f, rows[i][f]) /\ IsDecisionFor(s[k], c, plans[k], g, rows[k][g])
    BY <1>6, <1>7
  <2>2. s[i].type = s[k].type /\ s[i].scope = s[k].scope /\ FrameOrders[f] = FrameOrders[g]
    BY <1>12, <2>1 DEF IsDecisionFor
  <2>3. QED
    BY <1>1, <2>2 DEF FrameOrders
<1>13. \A i \in 1 .. n : Range(rows[i]) = {Assess(s[i], plans[i], f) : f \in 1 .. 2}
  BY <1>7 DEF Range
<1> HIDE DEF rows, frames, T, U
<1>14. /\ \A k, l \in 1 .. Len(FlattenSeq(rows)) : FlattenSeq(rows)[k].id = FlattenSeq(rows)[l].id => k = l
       /\ Cardinality({d.id : d \in Range(FlattenSeq(rows))}) = Len(FlattenSeq(rows))
  <2>1. \A i, l \in 1 .. Len(rows) : \A j \in 1 .. Len(rows[i]) : \A m \in 1 .. Len(rows[l]) :
           rows[i][j].id = rows[l][m].id => i = l /\ j = m
    BY <1>8, <1>12
  <2>2. QED
    BY <1>8, <2>1, FlatDistinct
<1>15. Len(FlattenSeq(rows)) = Len(FlattenSeq(frames))
  <2>1. \A i \in 1 .. Len(rows) : Len(rows[i]) = Len(frames[i])
    BY <1>8, <1>9
  <2>2. Len(FlattenSeq(rows)) <= Len(FlattenSeq(frames))
    BY <1>8, <1>9, <2>1, FlatLength
  <2>3. Len(FlattenSeq(frames)) <= Len(FlattenSeq(rows))
    BY <1>8, <1>9, <2>1, FlatLength
  <2>4. Len(FlattenSeq(frames)) \in Nat /\ Len(FlattenSeq(rows)) \in Nat
    BY <1>11
  <2>5. QED
    BY <2>2, <2>3, <2>4
<1>16. ASSUME NEW d \in Range(FlattenSeq(rows))
       PROVE  \E i \in 1 .. n, f \in 1 .. 2 : IsDecisionFor(s[i], c, plans[i], f, d)
  BY <1>6, <1>10, <1>13
<1>17. Len(FlattenSeq(rows)) \in Nat /\ DOMAIN FlattenSeq(rows) = 1 .. Len(FlattenSeq(rows))
  BY <1>11
<1>18. AreDecisions(c, s, plans, FlattenSeq(rows))
  BY <1>14, <1>16, <1>17 DEF AreDecisions, n
<1>19. frames = [i \in DOMAIN s |-> DECISION_FRAME_REGISTRY[s[i].type]]
  BY <1>1 DEF frames
<1>20. QED
  BY <1>5, <1>15, <1>18, <1>19

\* The decisions pass the validators of the portfolio.
LEMMA DecisionsAreAPortfolio ==
  ASSUME NEW c, NEW s, IsRanking(c, s), NEW plans, ArePlans(c, s, plans)
  PROVE  IsDecisionPortfolio(BuildDecisions(s, plans), s, plans, c)
<1> DEFINE D == BuildDecisions(s, plans)
           frames == [i \in DOMAIN s |-> DECISION_FRAME_REGISTRY[s[i].type]]
<1>1. AreDecisions(c, s, plans, D) /\ Len(D) = Len(FlattenSeq(frames))
  BY BuiltDecisions
<1>2. DOMAIN s = 1 .. Len(s) /\ \A i \in 1 .. Len(s) : IsOffer(c, s[i]) /\ IsPlanFor(s[i], c, plans[i])
  BY DEF IsRanking, ArePlans
<1>3. ASSUME NEW i \in DOMAIN s, NEW frame \in Range(frames[i]) PROVE FrameResolves(plans[i], frame)
  <2>1. AreFrames(PLAN_REGISTRY[s[i].type], DECISION_FRAME_REGISTRY[s[i].type])
    BY <1>2, FrameFacts DEF IsOffer
  <2>2. PICK f \in 1 .. 2 : frame = FrameOf(s[i], f)
    BY <2>1 DEF AreFrames, Range, FrameOf
  <2>3. QED
    BY <1>2, <2>2, FrameOfPlan
<1>4. ASSUME NEW d \in Range(D) PROVE \E i \in DOMAIN s : IsAssessment(d, s[i], plans[i], c)
  <2>1. PICK i \in 1 .. Len(s), f \in 1 .. 2 : IsDecisionFor(s[i], c, plans[i], f, d)
    BY <1>1 DEF AreDecisions
  <2> DEFINE o == s[i]
  <2>2. IsOffer(c, o) /\ IsPlanFor(o, c, plans[i])
    BY <1>2
  <2>3. /\ o.support # {} /\ o.support \cap o.counter = {} /\ o.support \cap o.blocking = {}
        /\ o.counter \cap o.blocking = {} /\ o.support \cup o.counter \cup o.blocking \subseteq Evidence(c)
    BY <2>2 DEF IsOffer, IsOpportunityModel
  <2>4. \A n \in Wanted(o, c) : ResolveRequirement(n, o, c).refs \subseteq Evidence(c)
    BY <2>2, RequiredFacts
  <2>5. d.counter = o.counter /\ d.blocking = o.blocking /\ d.required \subseteq Wanted(o, c)
        /\ d.support = (o.support \cup UNION {ResolveRequirement(n, o, c).refs : n \in d.required})
                   \ (o.counter \cup o.blocking)
    BY <2>1 DEF IsDecisionFor
  <2>6. d.support # {} /\ d.support \cup d.counter \cup d.blocking \subseteq Evidence(c)
    BY <2>3, <2>4, <2>5
  <2>7. d.support \cap d.counter = {} /\ d.support \cap d.blocking = {} /\ d.counter \cap d.blocking = {}
    BY <2>3, <2>5
  <2>8. /\ d.required # {} /\ d.relevant # {} /\ Range(d.unresolved) \subseteq d.required
        /\ d.next \subseteq d.relevant /\ d.opportunity = OpportunityId(o)
        /\ d.relevant \subseteq TaskIds(Range(plans[i].tasks))
        /\ d.readiness = "READY_FOR_HUMAN_REVIEW" => d.unresolved = <<>>
    BY <2>1 DEF IsDecisionFor
  <2>9. plans[i].opportunity = OpportunityId(o)
    BY <2>2 DEF IsPlanFor
  <2>10. IsAssessment(d, o, plans[i], c)
    BY <2>6, <2>7, <2>8, <2>9 DEF IsAssessment, IsAssessmentModel
  <2>11. QED
    BY <1>2, <2>10
<1>5. Cardinality({d.id : d \in Range(D)}) = Len(D)
  BY <1>1 DEF AreDecisions
<1>6. QED
  BY <1>1, <1>3, <1>4, <1>5 DEF IsDecisionPortfolio

-----------------------------------------------------------------------------
(* Sequencing.                                                              *)

\* The tasks of all the plans of a ranking.
AreTasks(c, s, plans, tasks) ==
  /\ Len(tasks) \in Nat /\ DOMAIN tasks = 1 .. Len(tasks) /\ IsFiniteSet(Range(tasks))
  /\ \A t : t \in Range(tasks) <=> \E i \in 1 .. Len(s) : t \in Range(plans[i].tasks)
  /\ \A t \in Range(tasks) : \E i \in 1 .. Len(s) : \E j \in SelectedTaskSpecs(s[i], c) :
        IsTaskFor(s[i], c, j, t) /\ t = TaskOf(s[i], c, j)
  /\ \A k, l \in 1 .. Len(tasks) : tasks[k].id = tasks[l].id => k = l
  /\ Cardinality(TaskIds(Range(tasks))) = Len(tasks)

\* A sequence holds finitely many elements.
LEMMA SequenceFinite ==
  ASSUME NEW q, Len(q) \in Nat, DOMAIN q = 1 .. Len(q)
  PROVE  IsFiniteSet(Range(q))
<1> DEFINE n == Len(q)  f == [k \in 1 .. n |-> q[k]]
<1>1. IsFiniteSet(1 .. n)
  BY IntervalCount
<1>2. f \in [1 .. n -> Range(q)] /\ \A x \in Range(q) : \E k \in 1 .. n : f[k] = x
  BY DEF Range
<1> HIDE DEF f, n
<1>3. QED
  BY <1>1, <1>2, ImageFinite

\* The tasks of all plans, each found by its id.
LEMMA TasksFacts ==
  ASSUME NEW c, NEW s, IsRanking(c, s), NEW plans, ArePlans(c, s, plans)
  PROVE  AreTasks(c, s, plans, AllTasks(plans))
<1> DEFINE n == Len(s)
           rows == [i \in 1 .. n |-> plans[i].tasks]
           T == UNION {Range(plans[i].tasks) : i \in 1 .. n}
           F == FlattenSeq(rows)
<1>1. /\ n \in Nat /\ DOMAIN plans = 1 .. n
      /\ \A i \in 1 .. n : IsOffer(c, s[i]) /\ IsPlanFor(s[i], c, plans[i])
      /\ \A i, j \in 1 .. n : s[i].type = s[j].type /\ s[i].scope = s[j].scope => i = j
  BY DEF IsRanking, ArePlans
<1> HIDE DEF n
<1>2. AllTasks(plans) = F
  BY <1>1 DEF AllTasks
<1>3. \A i \in 1 .. n : rows[i] = plans[i].tasks
  OBVIOUS
<1>4. ASSUME NEW i \in 1 .. n
      PROVE  /\ plans[i].tasks \in Seq(T) /\ DOMAIN plans[i].tasks = 1 .. Len(plans[i].tasks)
             /\ \A t \in Range(plans[i].tasks) : \E j \in SelectedTaskSpecs(s[i], c) :
                   IsTaskFor(s[i], c, j, t) /\ t = TaskOf(s[i], c, j)
  <2> DEFINE q == plans[i].tasks
             Z == {TaskOf(s[i], c, j) : j \in SelectedTaskSpecs(s[i], c)}
  <2>1. Len(q) \in Nat /\ q \in [1 .. Len(q) -> Z] /\ Range(q) = Z
    BY <1>1 DEF IsPlanFor
  <2>2. \A j \in SelectedTaskSpecs(s[i], c) : IsTaskFor(s[i], c, j, TaskOf(s[i], c, j))
    BY <1>1, TaskFacts
  <2>3. \A t \in Range(q) : \E j \in SelectedTaskSpecs(s[i], c) : IsTaskFor(s[i], c, j, t) /\ t = TaskOf(s[i], c, j)
    BY <2>1, <2>2
  <2>4. Range(q) \subseteq T
    OBVIOUS
  <2> HIDE DEF T, Z
  <2>5. DOMAIN q = 1 .. Len(q) /\ q = [k \in 1 .. Len(q) |-> q[k]] /\ \A k \in 1 .. Len(q) : q[k] \in T
    BY <2>1, <2>4
  <2>6. [k \in 1 .. Len(q) |-> q[k]] \in Seq(T)
    BY <2>1, <2>5
  <2> HIDE DEF q
  <2>7. QED
    BY <2>3, <2>5, <2>6 DEF q
<1> HIDE DEF T
<1>5. rows \in Seq(Seq(T)) /\ Len(rows) = n
  <2>1. rows \in [1 .. n -> Seq(T)]
    BY <1>4
  <2> HIDE DEF rows
  <2>2. QED
    BY <1>1, <2>1
<1> HIDE DEF rows
<1>6. F \in Seq(T) /\ \A x : x \in Range(F) <=> \E i \in 1 .. n : x \in Range(plans[i].tasks)
  <2>1. F \in Seq(T) /\ \A x : x \in Range(F) <=> \E i \in 1 .. Len(rows) : x \in Range(rows[i])
    BY <1>5, FlatElements
  <2>2. QED
    BY <1>3, <1>5, <2>1
<1>7. ASSUME NEW i \in 1 .. n, NEW l \in 1 .. n, NEW j \in 1 .. Len(rows[i]), NEW m \in 1 .. Len(rows[l]),
             rows[i][j].id = rows[l][m].id
      PROVE  i = l /\ j = m
  <2>1. /\ plans[i].tasks[j] \in Range(plans[i].tasks) /\ plans[l].tasks[m] \in Range(plans[l].tasks)
        /\ plans[i].tasks[j].id = plans[l].tasks[m].id
        /\ j \in 1 .. Len(plans[i].tasks) /\ m \in 1 .. Len(plans[l].tasks)
    BY <1>3, <1>4, <1>7 DEF Range
  <2>2. /\ \E h : IsTaskFor(s[i], c, h, plans[i].tasks[j])
        /\ \E h : IsTaskFor(s[l], c, h, plans[l].tasks[m])
    BY <1>4, <2>1
  <2>3. s[i].type = s[l].type /\ s[i].scope = s[l].scope
    BY <2>1, <2>2 DEF IsTaskFor
  <2>4. i = l
    BY <1>1, <2>3
  <2>5. QED
    BY <1>1, <2>1, <2>4 DEF IsPlanFor
<1>8. /\ \A k, l \in 1 .. Len(F) : F[k].id = F[l].id => k = l
      /\ Cardinality({x.id : x \in Range(F)}) = Len(F)
  <2>1. \A i, l \in 1 .. Len(rows) : \A j \in 1 .. Len(rows[i]) : \A m \in 1 .. Len(rows[l]) :
           rows[i][j].id = rows[l][m].id => i = l /\ j = m
    BY <1>5, <1>7
  <2>2. QED
    BY <1>5, <2>1, FlatDistinct
<1>9. Len(F) \in Nat /\ DOMAIN F = 1 .. Len(F)
  BY <1>6
<1>10. IsFiniteSet(Range(F))
  BY <1>9, SequenceFinite
<1>11. \A t \in Range(F) : \E i \in 1 .. n : \E j \in SelectedTaskSpecs(s[i], c) :
          IsTaskFor(s[i], c, j, t) /\ t = TaskOf(s[i], c, j)
  BY <1>4, <1>6
<1>12. QED
  BY <1>2, <1>6, <1>8, <1>9, <1>10, <1>11 DEF AreTasks, TaskIds, n

\* The graph that sequencing reads is consistent: what a decision names is in the plans.
LEMMA SourceGraphHolds ==
  ASSUME NEW c, NEW s, IsRanking(c, s), NEW plans, ArePlans(c, s, plans),
         NEW D, AreDecisions(c, s, plans, D)
  PROVE  IsSourceGraph(s, plans, D)
<1> DEFINE n == Len(s)
           tasks == AllTasks(plans)
           requirements == UNION {plans[i].requirements : i \in DOMAIN plans}
           StatusOf(m) == {r.status : r \in {r \in requirements : r.name = m}}
<1>1. /\ n \in Nat /\ DOMAIN plans = 1 .. n /\ DOMAIN s = 1 .. n
      /\ \A i \in 1 .. n : IsOffer(c, s[i]) /\ IsPlanFor(s[i], c, plans[i])
      /\ \A i, j \in 1 .. n : s[i].type = s[j].type /\ s[i].scope = s[j].scope => i = j
  BY DEF IsRanking, ArePlans
<1> HIDE DEF n
<1>2. [i \in DOMAIN plans |-> plans[i].opportunity] = [i \in DOMAIN s |-> OpportunityId(s[i])]
  BY <1>1 DEF IsPlanFor
<1>3. Cardinality({OpportunityId(o) : o \in Range(s)}) = n
  <2> DEFINE I == {OpportunityId(o) : o \in Range(s)}
             g == [i \in 1 .. n |-> OpportunityId(s[i])]
  <2>1. g \in [1 .. n -> I] /\ \A x \in I : \E i \in 1 .. n : g[i] = x
    BY <1>1 DEF Range
  <2>2. ASSUME NEW i \in 1 .. n, NEW j \in 1 .. n, g[i] = g[j] PROVE i = j
    <3>1. OpportunityId(s[i])[1] = OpportunityId(s[j])[1] /\ OpportunityId(s[i])[2] = OpportunityId(s[j])[2]
      BY <2>2
    <3>2. s[i].type = s[j].type /\ s[i].scope = s[j].scope
      BY <3>1 DEF OpportunityId
    <3>3. QED
      BY <1>1, <3>2
  <2> HIDE DEF I, g
  <2>3. QED
    BY <1>1, <2>1, <2>2, CountDistinct DEF I
<1>4. Cardinality(TaskIds(Range(tasks))) = Len(tasks)
  BY TasksFacts DEF AreTasks
<1>5. Cardinality({d.id : d \in Range(D)}) = Len(D)
  BY DEF AreDecisions
<1>6. ASSUME NEW m \in {r.name : r \in requirements} PROVE Cardinality(StatusOf(m)) = 1
  <2>1. \A r \in requirements : \E i \in 1 .. n : r \in Required(s[i], c)
    BY <1>1 DEF IsPlanFor
  <2>2. \A r \in requirements : r.status = StatusIn(c, r.name)
    <3>1. SUFFICES ASSUME NEW r \in requirements PROVE r.status = StatusIn(c, r.name)
      OBVIOUS
    <3>2. PICK i \in 1 .. n : r \in Required(s[i], c)
      BY <2>1
    <3>3. r.name \in Wanted(s[i], c) /\ r = ResolveRequirement(r.name, s[i], c)
      BY <1>1, <3>2, RequiredFacts
    <3>4. QED
      BY <1>1, <3>3, OneStatus
  <2> HIDE DEF requirements
  <2>3. StatusOf(m) = {StatusIn(c, m)}
    BY <2>2
  <2>4. QED
    BY <2>3, FS_Singleton
<1>7. ASSUME NEW d \in Range(D)
      PROVE  \E i \in DOMAIN plans :
              /\ plans[i].opportunity = d.opportunity
              /\ d.relevant \subseteq TaskIds(Range(plans[i].tasks))
              /\ d.required \subseteq {r.name : r \in plans[i].requirements}
  <2>1. PICK i \in 1 .. n, f \in 1 .. 2 : IsDecisionFor(s[i], c, plans[i], f, d)
    BY DEF AreDecisions, n
  <2>2. /\ plans[i].opportunity = d.opportunity /\ d.required \subseteq Wanted(s[i], c)
        /\ d.relevant \subseteq TaskIds(Range(plans[i].tasks))
    BY <1>1, <2>1 DEF IsPlanFor, IsDecisionFor
  <2>3. {r.name : r \in plans[i].requirements} = Wanted(s[i], c)
    BY <1>1, RequiredFacts DEF IsPlanFor
  <2>4. QED
    BY <1>1, <2>2, <2>3
<1>8. QED
  BY <1>2, <1>3, <1>4, <1>5, <1>6, <1>7 DEF IsSourceGraph, n

\* The decisions that wait for a requirement, and those that name a task as next.
Open(D, n) == {d \in Targeted(D) : n \in Range(d.unresolved)}
By(D, t) == {d \in Targeted(D) : t.id \in d.next}

\* What all of the sequencing is derived from.
IsSource(c, s, plans, D) ==
  IsRanking(c, s) /\ ArePlans(c, s, plans) /\ AreDecisions(c, s, plans, D)

\* The decisions, and any of those that wait, can be counted.
LEMMA DecisionsFinite ==
  ASSUME NEW c, NEW s, NEW plans, NEW D, IsSource(c, s, plans, D)
  PROVE  /\ IsFiniteSet(Range(D)) /\ IsFiniteSet(Targeted(D))
         /\ \A S \in SUBSET Targeted(D) : /\ IsFiniteSet(S) /\ Cardinality(S) \in Nat
                                          /\ Cardinality({d.opportunity : d \in S}) \in Nat
<1>1. IsFiniteSet(Range(D))
  BY SequenceFinite DEF IsSource, AreDecisions
<1>2. Targeted(D) \subseteq Range(D)
  BY DEF Targeted
<1>3. IsFiniteSet(Targeted(D))
  BY <1>1, <1>2, FS_Subset
<1>4. ASSUME NEW S \in SUBSET Targeted(D)
      PROVE  IsFiniteSet(S) /\ Cardinality(S) \in Nat /\ Cardinality({d.opportunity : d \in S}) \in Nat
  <2> DEFINE I == {d.opportunity : d \in S}
             f == [d \in S |-> d.opportunity]
  <2>1. IsFiniteSet(S)
    BY <1>3, FS_Subset
  <2>2. f \in [S -> I] /\ \A y \in I : \E d \in S : f[d] = y
    OBVIOUS
  <2> HIDE DEF f, I
  <2>3. IsFiniteSet(I)
    BY <2>1, <2>2, ImageFinite
  <2>4. Cardinality(S) \in Nat /\ Cardinality(I) \in Nat
    BY <2>1, <2>3, FS_CardinalityType
  <2>5. QED
    BY <2>1, <2>4 DEF I
<1>5. QED
  BY <1>1, <1>3, <1>4

\* The requirements that are asked for are those some decision waits for.
LEMMA AskedFacts ==
  ASSUME NEW c, NEW s, NEW plans, NEW D, IsSource(c, s, plans, D)
  PROVE  /\ Asked(D) \in Seq(Names) /\ IsFiniteSet(Range(Asked(D)))
         /\ \A n : n \in Range(Asked(D)) <=> Open(D, n) # {}
<1> DEFINE N == Len(D)
           rows == [k \in 1 .. N |-> IF D[k] \in Targeted(D) THEN D[k].unresolved ELSE <<>>]
<1>1. N \in Nat /\ DOMAIN D = 1 .. N /\ \A k \in 1 .. N : D[k].unresolved \in Seq(Names)
  <2>1. N \in Nat /\ DOMAIN D = 1 .. N
    BY DEF IsSource, AreDecisions
  <2>2. \A d \in Range(D) : d.unresolved \in Seq(Names)
    BY DEF IsSource, AreDecisions, IsDecisionFor
  <2>3. QED
    BY <2>1, <2>2 DEF Range
<1> HIDE DEF N
<1>2. Asked(D) = FlattenSeq(rows)
  BY <1>1 DEF Asked
<1>3. \A k \in 1 .. N : rows[k] = IF D[k] \in Targeted(D) THEN D[k].unresolved ELSE <<>>
  OBVIOUS
<1>4. rows \in Seq(Seq(Names)) /\ Len(rows) = N
  <2>1. rows \in [1 .. N -> Seq(Names)]
    BY <1>1
  <2> HIDE DEF rows
  <2>2. QED
    BY <1>1, <2>1
<1> HIDE DEF rows
<1>5. Asked(D) \in Seq(Names)
      /\ \A n : n \in Range(Asked(D)) <=> \E k \in 1 .. Len(rows) : n \in Range(rows[k])
  BY <1>2, <1>4, FlatElements
<1>6. Range(Asked(D)) \subseteq Names
  BY <1>5 DEF Range
<1>7. IsFiniteSet(Range(Asked(D)))
  BY <1>6, NamesFinite
<1>8. ASSUME NEW n PROVE n \in Range(Asked(D)) <=> Open(D, n) # {}
  <2>1. ASSUME n \in Range(Asked(D)) PROVE Open(D, n) # {}
    <3>1. PICK k \in 1 .. N : n \in Range(rows[k])
      BY <1>4, <1>5, <2>1
    <3>2. D[k] \in Targeted(D) /\ n \in Range(D[k].unresolved)
      <4>1. Range(<<>>) = {}
        BY DEF Range
      <4>2. QED
        BY <1>3, <3>1, <4>1
    <3>3. QED
      BY <3>2 DEF Open
  <2>2. ASSUME NEW d \in Open(D, n) PROVE n \in Range(Asked(D))
    <3>1. d \in Targeted(D) /\ n \in Range(d.unresolved)
      BY DEF Open
    <3>2. PICK k \in 1 .. N : d = D[k]
      BY <1>1, <3>1 DEF Targeted, Range
    <3>3. n \in Range(rows[k])
      BY <1>3, <3>1, <3>2
    <3>4. QED
      BY <1>4, <1>5, <3>3
  <2>3. QED
    BY <2>1, <2>2
<1>9. QED
  BY <1>5, <1>7, <1>8

\* The first opportunity of an id is one of that id.
LEMMA OrderFacts ==
  ASSUME NEW c, NEW s, IsRanking(c, s), NEW i \in 1 .. Len(s)
  PROVE  LET k == OrderOf(s, OpportunityId(s[i])) IN
         k \in 1 .. Len(s) /\ k \in Int /\ s[k].priority \in Nat
<1> DEFINE S == {j \in DOMAIN s : OpportunityId(s[j]) = OpportunityId(s[i])}
<1>1. DOMAIN s = 1 .. Len(s) /\ Len(s) \in Nat /\ \A j \in 1 .. Len(s) : s[j].priority \in Nat
  BY DEF IsRanking, IsOffer
<1>2. S \in SUBSET Nat /\ i \in S
  BY <1>1
<1>3. Min(S) \in S
  BY <1>2, Least
<1>4. OrderOf(s, OpportunityId(s[i])) = Min(S)
  BY DEF OrderOf
<1> HIDE DEF S
<1>5. Min(S) \in 1 .. Len(s)
  BY <1>1, <1>3 DEF S
<1>6. QED
  BY <1>1, <1>4, <1>5

\* A focus, and the focuses: each requirement that is asked for, once.
IsFocusOf(plans, D, n, l) ==
  /\ l.requirement = n /\ Open(D, n) # {}
  /\ l.decisions = {d.id : d \in Open(D, n)} /\ l.opportunities = {d.opportunity : d \in Open(D, n)}
  /\ l.tasks = {t \in Range(AllTasks(plans)) : n \in t.requirements /\ \E d \in Open(D, n) : t.id \in d.next}
AreFocuses(plans, D, focuses) ==
  /\ Len(focuses) \in Nat /\ DOMAIN focuses = 1 .. Len(focuses)
  /\ \A l \in Range(focuses) : IsFocusOf(plans, D, l.requirement, l)
  /\ \A n : Open(D, n) # {} => \E l \in Range(focuses) : l.requirement = n
  /\ Cardinality({l.requirement : l \in Range(focuses)}) = Len(focuses)

\* The leverage items are the focuses of the decisions.
LEMMA FocusesFacts ==
  ASSUME NEW c, NEW s, NEW plans, NEW D, IsSource(c, s, plans, D)
  PROVE  AreFocuses(plans, D, LeverageItems(s, plans, D))
<1> DEFINE asked == Asked(D)
           A == Range(asked)
           open == [n \in A |-> {d \in Targeted(D) : n \in Range(d.unresolved)}]
           from == [n \in A |-> {d.opportunity : d \in open[n]}]
           first(n) == Min({i \in DOMAIN asked : asked[i] = n})
           best(n) == Min({s[OrderOf(s, id)].priority : id \in from[n]})
           rank == [n \in A |-> <<-Cardinality(open[n]), Min({s[OrderOf(s, id)].priority : id \in from[n]}),
                                  -Cardinality(from[n]), Min({i \in DOMAIN asked : asked[i] = n})>>]
           order == Ranked(A, rank)
           N == Cardinality(A)
           focus(n) == [requirement |-> n, decisions |-> {d.id : d \in open[n]}, opportunities |-> from[n],
                        tasks |-> {t \in Range(AllTasks(plans)) :
                            n \in t.requirements /\ \E d \in open[n] : t.id \in d.next}]
           focuses == [k \in DOMAIN order |-> focus(order[k])]
<1>1. LeverageItems(s, plans, D) = focuses
  BY DEF LeverageItems
<1>2. /\ IsFiniteSet(A) /\ asked \in Seq(Names) /\ \A n : n \in A <=> Open(D, n) # {}
  BY AskedFacts
<1>3. \A n \in A : open[n] = Open(D, n) /\ from[n] = {d.opportunity : d \in Open(D, n)}
  BY DEF Open
<1> HIDE DEF open, from
<1>4. ASSUME NEW n \in A PROVE first(n) \in Int /\ asked[first(n)] = n
  <2> DEFINE S == {i \in DOMAIN asked : asked[i] = n}
  <2>1. S \in SUBSET Nat /\ S # {}
    BY <1>2 DEF Range
  <2>2. Min(S) \in S
    BY <2>1, Least
  <2>3. QED
    BY <2>1, <2>2
<1>5. ASSUME NEW n \in A PROVE best(n) \in Int
  <2> DEFINE S == {s[OrderOf(s, id)].priority : id \in from[n]}
  <2>1. PICK d : d \in Open(D, n)
    BY <1>2
  <2>2. \A id \in from[n] : \E i \in 1 .. Len(s) : id = OpportunityId(s[i])
    BY <1>3 DEF Open, Targeted, IsSource, AreDecisions, IsDecisionFor
  <2>3. \A id \in from[n] : s[OrderOf(s, id)].priority \in Nat
    BY <2>2, OrderFacts DEF IsSource
  <2>4. S \in SUBSET Nat /\ S # {}
    BY <1>3, <2>1, <2>3
  <2>5. Min(S) \in S
    BY <2>4, Least
  <2>6. QED
    BY <2>4, <2>5
<1>6. ASSUME NEW n \in A PROVE Cardinality(open[n]) \in Nat /\ Cardinality(from[n]) \in Nat
  <2>1. Open(D, n) \in SUBSET Targeted(D)
    BY DEF Open
  <2>2. Cardinality(Open(D, n)) \in Nat /\ Cardinality({d.opportunity : d \in Open(D, n)}) \in Nat
    BY <2>1, DecisionsFinite
  <2>3. QED
    BY <1>3, <2>2
<1>7. \A n \in A : rank[n] = <<-Cardinality(open[n]), best(n), -Cardinality(from[n]), first(n)>>
  OBVIOUS
<1> HIDE DEF rank, first, best, A
<1>8. \A n \in A : rank[n] \in Key(4) /\ rank[n][4] = first(n)
  BY <1>4, <1>5, <1>6, <1>7 DEF Key
<1>9. \A n, m \in A : rank[n] = rank[m] => n = m
  BY <1>4, <1>8
<1>10. Sorted(order, A, rank)
  BY <1>2, <1>8, <1>9, RankedSorts
<1> HIDE DEF order
<1>11. N \in Nat
  BY <1>2, FS_CardinalityType
<1>12. /\ order \in [1 .. N -> A] /\ \A n \in A : \E k \in 1 .. N : order[k] = n
       /\ \A i, j \in 1 .. N : order[i] = order[j] => i = j
  BY <1>10 DEF Sorted
<1> HIDE DEF N
<1>13. \A n \in A : focus(n).requirement = n /\ IsFocusOf(plans, D, n, focus(n))
  <2>1. SUFFICES ASSUME NEW n \in A PROVE focus(n).requirement = n /\ IsFocusOf(plans, D, n, focus(n))
    OBVIOUS
  <2>2. Open(D, n) # {}
    BY <1>2 DEF A
  <2>3. QED
    BY <1>3, <2>2 DEF IsFocusOf
<1> HIDE DEF focus
<1>14. /\ DOMAIN focuses = 1 .. N /\ Len(focuses) = N
       /\ \A k \in 1 .. N : focuses[k] = focus(order[k])
  BY <1>11, <1>12
<1> HIDE DEF focuses
<1>15. Range(focuses) = {focus(n) : n \in A}
  <2>1. Range(focuses) = {focuses[k] : k \in 1 .. N}
    BY <1>14 DEF Range
  <2>2. QED
    BY <1>12, <1>14, <2>1
<1>16. {l.requirement : l \in Range(focuses)} = A
  BY <1>13, <1>15
<1>17. Len(focuses) = Cardinality(A)
  BY <1>14 DEF N
<1>18. \A l \in Range(focuses) : IsFocusOf(plans, D, l.requirement, l)
  BY <1>13, <1>15
<1>19. \A n : Open(D, n) # {} => \E l \in Range(focuses) : l.requirement = n
  <2>1. SUFFICES ASSUME NEW n, Open(D, n) # {} PROVE \E l \in Range(focuses) : l.requirement = n
    OBVIOUS
  <2>2. n \in A
    BY <1>2, <2>1 DEF A
  <2>3. QED
    BY <1>13, <1>15, <2>2
<1>20. QED
  BY <1>1, <1>11, <1>14, <1>16, <1>17, <1>18, <1>19 DEF AreFocuses

\* An item of the sequence, and the items: each task that a decision wants, once.
IsItemOf(D, t, item) ==
  /\ item.task = t.id /\ By(D, t) # {} /\ item.decisions = {d.id : d \in By(D, t)}
  /\ item.addressed = t.requirements \cap UNION {Range(d.unresolved) : d \in By(D, t)}
  /\ item.startable = (t.readiness = "READY_NOW")
AreItems(plans, D, items) ==
  /\ Len(items) \in Nat /\ DOMAIN items = 1 .. Len(items)
  /\ \A item \in Range(items) : \E t \in Range(AllTasks(plans)) : IsItemOf(D, t, item)
  /\ \A t \in Range(AllTasks(plans)) : By(D, t) # {} => \E item \in Range(items) : IsItemOf(D, t, item)
  /\ Cardinality({item.task : item \in Range(items)}) = Len(items)

\* The sequence items are the items of the decisions.
LEMMA ItemsFacts ==
  ASSUME NEW c, NEW s, NEW plans, NEW D, IsSource(c, s, plans, D)
  PROVE  AreItems(plans, D, SequenceItems(s, plans, D))
<1> DEFINE tasks == AllTasks(plans)
           W == {t \in Range(tasks) : \E d \in Targeted(D) : t.id \in d.next}
           by == [t \in W |-> {d \in Targeted(D) : t.id \in d.next}]
           Order(t) == OrderOf(s, <<t.id[1], t.id[2]>>)
           first(t) == Min({i \in DOMAIN tasks : tasks[i] = t})
           rank == [t \in W |->
                   <<IF t.readiness = "READY_NOW" THEN 0 ELSE 1, s[Order(t)].priority,
                     -Cardinality(by[t]), Order(t), Min({i \in DOMAIN tasks : tasks[i] = t})>>]
           order == Ranked(W, rank)
           N == Cardinality(W)
           item(t) == [task |-> t.id, decisions |-> {d.id : d \in by[t]},
                       addressed |-> t.requirements \cap UNION {Range(d.unresolved) : d \in by[t]},
                       startable |-> t.readiness = "READY_NOW"]
           items == [k \in DOMAIN order |-> item(order[k])]
<1>1. SequenceItems(s, plans, D) = items
  BY DEF SequenceItems
<1>2. AreTasks(c, s, plans, tasks)
  BY TasksFacts DEF IsSource
<1>3. W \subseteq Range(tasks) /\ IsFiniteSet(W) /\ \A t \in Range(tasks) : t \in W <=> By(D, t) # {}
  <2>1. W \subseteq Range(tasks) /\ \A t \in Range(tasks) : t \in W <=> By(D, t) # {}
    BY DEF By
  <2>2. IsFiniteSet(Range(tasks))
    BY <1>2 DEF AreTasks
  <2>3. QED
    BY <2>1, <2>2, FS_Subset
<1>4. \A t \in W : by[t] = By(D, t) /\ Cardinality(by[t]) \in Nat
  <2>1. \A t \in W : by[t] = By(D, t) /\ By(D, t) \in SUBSET Targeted(D)
    BY DEF By
  <2> HIDE DEF by
  <2>2. QED
    BY <2>1, DecisionsFinite
<1> HIDE DEF by
<1>5. ASSUME NEW t \in W PROVE first(t) \in Int /\ tasks[first(t)] = t
  <2> DEFINE S == {i \in DOMAIN tasks : tasks[i] = t}
  <2>1. S \in SUBSET Nat /\ S # {}
    BY <1>2, <1>3 DEF Range, AreTasks
  <2>2. Min(S) \in S
    BY <2>1, Least
  <2>3. QED
    BY <2>1, <2>2
<1>6. ASSUME NEW t \in W PROVE Order(t) \in Int /\ s[Order(t)].priority \in Int
  <2>1. PICK i \in 1 .. Len(s) : t.id[1] = s[i].type /\ t.id[2] = s[i].scope
    BY <1>2, <1>3 DEF AreTasks, IsTaskFor
  <2>2. <<t.id[1], t.id[2]>> = OpportunityId(s[i])
    BY <2>1 DEF OpportunityId
  <2>3. QED
    BY <2>2, OrderFacts DEF IsSource
<1>7. \A t \in W : rank[t] = <<IF t.readiness = "READY_NOW" THEN 0 ELSE 1, s[Order(t)].priority,
                               -Cardinality(by[t]), Order(t), first(t)>>
  OBVIOUS
<1> HIDE DEF rank, first, Order, W
<1>8. \A t \in W : rank[t] \in Key(5) /\ rank[t][5] = first(t)
  <2>1. SUFFICES ASSUME NEW t \in W PROVE rank[t] \in Key(5) /\ rank[t][5] = first(t)
    OBVIOUS
  <2>2. PICK a \in Int, b \in Int, e \in Int, f \in Int, g \in Int : rank[t] = <<a, b, e, f, g>> /\ g = first(t)
    <3>1. (IF t.readiness = "READY_NOW" THEN 0 ELSE 1) \in Int /\ -Cardinality(by[t]) \in Int
      BY <1>4
    <3>2. QED
      BY <1>5, <1>6, <1>7, <3>1
  <2>3. <<a, b, e, f, g>> \in [1 .. 5 -> Int] /\ <<a, b, e, f, g>>[5] = g
    OBVIOUS
  <2>4. QED
    BY <2>2, <2>3 DEF Key
<1>9. \A t, u \in W : rank[t] = rank[u] => t = u
  BY <1>5, <1>8
<1>10. Sorted(order, W, rank)
  BY <1>3, <1>8, <1>9, RankedSorts
<1> HIDE DEF order
<1>11. N \in Nat
  BY <1>3, FS_CardinalityType
<1>12. /\ order \in [1 .. N -> W] /\ \A t \in W : \E k \in 1 .. N : order[k] = t
       /\ \A i, j \in 1 .. N : order[i] = order[j] => i = j
  BY <1>10 DEF Sorted
<1> HIDE DEF N
<1>13. \A t \in W : item(t).task = t.id /\ IsItemOf(D, t, item(t))
  BY <1>3, <1>4 DEF IsItemOf
<1> HIDE DEF item
<1>14. /\ DOMAIN items = 1 .. N /\ Len(items) = N
       /\ \A k \in 1 .. N : items[k] = item(order[k])
  BY <1>11, <1>12
<1> HIDE DEF items
<1>15. Range(items) = {item(t) : t \in W}
  <2>1. Range(items) = {items[k] : k \in 1 .. N}
    BY <1>14 DEF Range
  <2>2. QED
    BY <1>12, <1>14, <2>1
<1>16. \A t, u \in W : t.id = u.id => t = u
  <2>1. \A k, l \in DOMAIN tasks : tasks[k].id = tasks[l].id => k = l
    BY <1>2 DEF AreTasks
  <2>2. \A t \in W : \E k \in DOMAIN tasks : tasks[k] = t
    BY <1>3 DEF Range
  <2>3. QED
    BY <2>1, <2>2
<1>17. Cardinality({x.task : x \in Range(items)}) = N
  <2> DEFINE I == {x.task : x \in Range(items)}
             g == [k \in 1 .. N |-> order[k].id]
  <2>1. g \in [1 .. N -> I] /\ \A x \in I : \E k \in 1 .. N : g[k] = x
    <3>1. I = {t.id : t \in W}
      BY <1>13, <1>15
    <3>2. \A k \in 1 .. N : g[k] = order[k].id /\ order[k] \in W
      BY <1>12
    <3> HIDE DEF I
    <3>3. \A k \in 1 .. N : g[k] \in I
      BY <3>1, <3>2
    <3>4. g \in [1 .. N -> I]
      BY <3>2, <3>3
    <3> HIDE DEF g
    <3>5. QED
      BY <1>12, <3>1, <3>2, <3>4
  <2>2. \A i, j \in 1 .. N : g[i] = g[j] => i = j
    BY <1>12, <1>16
  <2> HIDE DEF I, g
  <2>3. QED
    BY <1>11, <2>1, <2>2, CountDistinct DEF I
<1>18. \A x \in Range(items) : \E t \in Range(tasks) : IsItemOf(D, t, x)
  BY <1>3, <1>13, <1>15
<1>19. ASSUME NEW t \in Range(tasks), By(D, t) # {} PROVE \E x \in Range(items) : IsItemOf(D, t, x)
  <2>1. t \in W
    BY <1>3, <1>19
  <2>2. QED
    BY <1>13, <1>15, <2>1
<1>20. QED
  BY <1>1, <1>11, <1>14, <1>17, <1>18, <1>19 DEF AreItems

\* The whole of the sequencing is valid.
LEMMA SequencingHolds ==
  ASSUME NEW c, NEW s, NEW plans, NEW D, IsSource(c, s, plans, D)
  PROVE  IsSequencing(Sequencing(s, plans, D), plans, D)
<1> DEFINE p == Sequencing(s, plans, D)
           items == SequenceItems(s, plans, D)
           focuses == LeverageItems(s, plans, D)
           startable == {i \in DOMAIN items : items[i].startable}
<1>1. /\ p.leverage = focuses /\ p.items = items
      /\ p.recommended = IF startable = {} THEN <<>> ELSE items[Min(startable)].task
  BY DEF Sequencing, WithRecommendation
<1>2. AreFocuses(plans, D, focuses) /\ AreItems(plans, D, items)
  BY FocusesFacts, ItemsFacts
<1> HIDE DEF p, items, focuses
<1>3. \A l \in Range(focuses) : IsLeverage(l)
  <2>1. SUFFICES ASSUME NEW l \in Range(focuses) PROVE l.decisions # {} /\ l.opportunities # {}
    BY DEF IsLeverage
  <2>2. IsFocusOf(plans, D, l.requirement, l)
    BY <1>2 DEF AreFocuses
  <2>3. PICK d : d \in Open(D, l.requirement)
    BY <2>2 DEF IsFocusOf
  <2>4. d.id \in l.decisions /\ d.opportunity \in l.opportunities
    BY <2>2, <2>3 DEF IsFocusOf
  <2>5. QED
    BY <2>4
<1>4. \A x \in Range(items) : IsSequenceItem(x)
  <2>1. SUFFICES ASSUME NEW x \in Range(items) PROVE x.decisions # {}
    BY DEF IsSequenceItem
  <2>2. PICK t : IsItemOf(D, t, x)
    BY <1>2 DEF AreItems
  <2>3. PICK d : d \in By(D, t)
    BY <2>2 DEF IsItemOf
  <2>4. d.id \in x.decisions
    BY <2>2, <2>3 DEF IsItemOf
  <2>5. QED
    BY <2>4
<1>5. ASSUME p.recommended # <<>>
      PROVE  \E x \in Range(items) : x.task = p.recommended /\ x.startable
  <2>1. startable # {} /\ startable \in SUBSET Nat
    BY <1>1, <1>2, <1>5 DEF AreItems
  <2>2. Min(startable) \in startable
    BY <2>1, Least
  <2>3. items[Min(startable)] \in Range(items)
    BY <2>2 DEF Range
  <2>4. QED
    BY <1>1, <2>1, <2>2, <2>3
<1>6. ASSUME NEW l \in Range(focuses), NEW id \in l.decisions
      PROVE  \E d \in {d \in Range(D) : d.id = id} :
               d.readiness = "NEEDS_MORE_EVIDENCE" /\ l.requirement \in Range(d.unresolved)
  <2>1. PICK d \in Open(D, l.requirement) : d.id = id
    BY <1>2, <1>6 DEF AreFocuses, IsFocusOf
  <2>2. QED
    BY <2>1 DEF Open, Targeted
<1>7. ASSUME NEW x \in Range(items)
      PROVE  /\ x.task \in TaskIds(Range(AllTasks(plans)))
             /\ \A id \in x.decisions : \E d \in {d \in Range(D) : d.id = id} : x.task \in d.next
  <2>1. PICK t \in Range(AllTasks(plans)) : IsItemOf(D, t, x)
    BY <1>2 DEF AreItems
  <2>2. \A d \in By(D, t) : d \in Range(D) /\ t.id \in d.next
    BY DEF By, Targeted
  <2>3. x.task = t.id /\ x.decisions = {d.id : d \in By(D, t)}
    BY <2>1 DEF IsItemOf
  <2>4. QED
    BY <2>2, <2>3 DEF TaskIds
<1>8. IsSequencingModel(p)
  BY <1>1, <1>2, <1>3, <1>4, <1>5 DEF IsSequencingModel, AreFocuses, AreItems
<1>9. QED
  BY <1>1, <1>6, <1>7, <1>8 DEF IsSequencing, p

-----------------------------------------------------------------------------
(* The chain of layers.                                                     *)

\* A whole product: each layer is what it builds from the layers before it.
IsProduct(c, p) ==
  /\ p.error = "NONE" /\ IsSource(c, p.opportunities, p.plans, p.decisions)
  /\ p.sequencing = Sequencing(p.opportunities, p.plans, p.decisions)

\* No layer refuses what another built, but for the name of a campaign.
LEMMA ChainFacts ==
  ASSUME NEW c, IsWorld(c)
  PROVE  IF NamedLikePhone(c) THEN Chain(c).error = "OPPORTUNITY_ERROR" ELSE IsProduct(c, Chain(c))
<1> DEFINE s == Opportunities(Outcomes(c))
           plans == BuildPlans(s, c)
           D == BuildDecisions(s, plans)
           p1 == WithOpportunities(NoProduct, c, Outcomes(c))
           p2 == Planned(p1, c)
           p3 == Decided(p2, c)
           p4 == Sequenced(p3)
<1>1. Chain(c) = p4
  BY DEF Chain
<1>2. CASE NamedLikePhone(c)
  <2>1. ~ValidOpportunities(Outcomes(c), c)
    BY <1>2, OnlyNamesAreRefused
  <2>2. p1.error = "OPPORTUNITY_ERROR"
    BY <2>1 DEF WithOpportunities, Layer, NoProduct
  <2> HIDE DEF p1
  <2>3. p2 = p1
    BY <2>2 DEF Planned, WithPlans, Layer
  <2> HIDE DEF p2
  <2>4. p3 = p1
    BY <2>2, <2>3 DEF Decided, WithDecisions, Layer
  <2> HIDE DEF p3
  <2>5. p4 = p1
    BY <2>2, <2>4 DEF Sequenced, WithSequencing, Layer
  <2>6. QED
    BY <1>1, <1>2, <2>2, <2>5
<1>3. CASE ~NamedLikePhone(c)
  <2>1. ValidOpportunities(Outcomes(c), c) /\ IsRanking(c, s)
    BY <1>3, OnlyNamesAreRefused, OpportunitiesAreRanked
  <2>2. ArePlans(c, s, plans) /\ IsPlanPortfolio(plans, s, c)
    BY <2>1, BuiltPlans, PlansAreAPortfolio
  <2>3. AreDecisions(c, s, plans, D) /\ IsDecisionPortfolio(D, s, plans, c)
    BY <2>1, <2>2, BuiltDecisions, DecisionsAreAPortfolio
  <2>4. IsSource(c, s, plans, D) /\ IsSourceGraph(s, plans, D) /\ IsSequencing(Sequencing(s, plans, D), plans, D)
    BY <2>1, <2>2, <2>3, SourceGraphHolds, SequencingHolds DEF IsSource
  <2>5. p1 = [error |-> "NONE", opportunities |-> s, plans |-> <<>>, decisions |-> <<>>, sequencing |-> <<>>]
    BY <2>1 DEF WithOpportunities, Layer, NoProduct
  <2> HIDE DEF p1, s
  <2>6. p2 = [error |-> "NONE", opportunities |-> s, plans |-> plans, decisions |-> <<>>, sequencing |-> <<>>]
    BY <2>2, <2>5 DEF Planned, WithPlans, Layer
  <2> HIDE DEF p2, plans
  <2>7. p3 = [error |-> "NONE", opportunities |-> s, plans |-> plans, decisions |-> D, sequencing |-> <<>>]
    BY <2>3, <2>6 DEF Decided, WithDecisions, Layer
  <2> HIDE DEF p3, D
  <2>8. p4 = [error |-> "NONE", opportunities |-> s, plans |-> plans, decisions |-> D,
              sequencing |-> Sequencing(s, plans, D)]
    BY <2>4, <2>7 DEF Sequenced, WithSequencing, Layer
  <2>9. QED
    BY <1>1, <1>3, <2>4, <2>8 DEF IsProduct
<1>4. QED
  BY <1>2, <1>3

\* A chain without an error has a whole product.
LEMMA NoErrorMeansProduct ==
  ASSUME NEW c, IsWorld(c), Chain(c).error = "NONE"
  PROVE  IsProduct(c, Chain(c))
BY ChainFacts

\* A decision that is ready for review cites evidence for every group it requires.
LEMMA ReadyDecisions ==
  ASSUME NEW c, NEW p, IsProduct(c, p), NEW d \in Range(p.decisions),
         d.readiness = "READY_FOR_HUMAN_REVIEW", NEW n \in d.required
  PROVE  LET o == CHOOSE o \in Range(p.opportunities) : OpportunityId(o) = d.opportunity IN
         \A g \in Range(REQUIREMENT_REGISTRY[n]) : \E id \in Evidence(c) \cap DecisionRefs(d) : Matches(id, g, o)
<1> DEFINE s == p.opportunities
           o == CHOOSE o \in Range(s) : OpportunityId(o) = d.opportunity
<1>1. IsRanking(c, s) /\ AreDecisions(c, s, p.plans, p.decisions)
  BY DEF IsProduct, IsSource
<1>2. PICK i \in 1 .. Len(s), f \in 1 .. 2 : IsDecisionFor(s[i], c, p.plans[i], f, d)
  BY <1>1 DEF AreDecisions
<1>3. /\ d.opportunity = OpportunityId(s[i]) /\ d.unresolved = <<>>
      /\ d.required \subseteq Wanted(s[i], c)
      /\ Range(d.unresolved) = {m \in d.required : ResolveRequirement(m, s[i], c).status # "AVAILABLE"}
      /\ d.support = (s[i].support \cup UNION {ResolveRequirement(m, s[i], c).refs : m \in d.required})
                       \ (s[i].counter \cup s[i].blocking)
      /\ d.counter = s[i].counter /\ d.blocking = s[i].blocking
  BY <1>2 DEF IsDecisionFor
<1>4. o = s[i]
  <2>1. s[i] \in Range(s) /\ OpportunityId(s[i]) = d.opportunity
    BY <1>1, <1>3 DEF IsRanking, Range
  <2>2. ASSUME NEW q \in Range(s), OpportunityId(q) = d.opportunity PROVE q = s[i]
    <3>1. PICK j \in 1 .. Len(s) : q = s[j]
      BY <1>1 DEF IsRanking, Range
    <3>2. OpportunityId(s[j])[1] = OpportunityId(s[i])[1] /\ OpportunityId(s[j])[2] = OpportunityId(s[i])[2]
      BY <1>3, <2>2, <3>1
    <3>3. s[j].type = s[i].type /\ s[j].scope = s[i].scope
      BY <3>2 DEF OpportunityId
    <3>4. QED
      BY <1>1, <3>1, <3>3 DEF IsRanking
  <2> HIDE DEF s
  <2>3. QED
    BY <2>1, <2>2
<1> HIDE DEF o
<1>5. Range(<<>>) = {}
  BY DEF Range
<1>6. n \in Names
  BY <1>1, <1>3, SelectedFacts DEF IsRanking
<1>7. LET r == ResolveRequirement(n, s[i], c) IN
      /\ Met(n, s[i], c) /\ r.refs \subseteq DecisionRefs(d)
      /\ \A k \in DOMAIN REQUIREMENT_REGISTRY[n] : \A id \in Evidence(c) :
            Matches(id, REQUIREMENT_REGISTRY[n][k], s[i]) => id \in r.refs
  <2> DEFINE r == ResolveRequirement(n, s[i], c)
  <2>1. r.status = "AVAILABLE"
    BY <1>3, <1>5
  <2>2. r.refs \subseteq DecisionRefs(d)
    BY <1>3 DEF DecisionRefs
  <2>3. QED
    BY <1>6, <2>1, <2>2, ResolvedName
<1>8. ASSUME NEW g \in Range(REQUIREMENT_REGISTRY[n])
      PROVE  \E id \in Evidence(c) \cap DecisionRefs(d) : Matches(id, g, o)
  <2>1. PICK k \in DOMAIN REQUIREMENT_REGISTRY[n] : g = REQUIREMENT_REGISTRY[n][k]
    BY DEF Range
  <2>2. PICK id \in Evidence(c) : Matches(id, g, s[i])
    BY <1>7, <2>1 DEF Met
  <2>3. id \in DecisionRefs(d)
    BY <1>7, <2>1, <2>2
  <2>4. QED
    BY <1>4, <2>2, <2>3
<1>9. QED
  BY <1>8 DEF o

\* What a decision waits for is in a focus and in an item of the sequence, and a first task
\* is recommended exactly when one can be started.
LEMMA SequencingCovers ==
  ASSUME NEW c, NEW p, IsProduct(c, p)
  PROVE  /\ \A d \in Range(p.decisions) : d.readiness = "NEEDS_MORE_EVIDENCE" =>
                  \A n \in Range(d.unresolved) :
                    /\ \E l \in Range(p.sequencing.leverage) :
                          l.requirement = n /\ d.id \in l.decisions /\ l.tasks # {}
                    /\ \E i \in Range(p.sequencing.items) :
                          d.id \in i.decisions /\ n \in i.addressed
         /\ (p.sequencing.recommended # <<>>) =
                  (\E t \in Range(AllTasks(p.plans)) : t.readiness = "READY_NOW" /\
                     \E d \in Range(p.decisions) :
                        d.readiness = "NEEDS_MORE_EVIDENCE" /\ t.id \in d.next)
<1> DEFINE s == p.opportunities
           D == p.decisions
           tasks == AllTasks(p.plans)
           q == p.sequencing
           startable == {i \in DOMAIN q.items : q.items[i].startable}
<1>1. IsSource(c, s, p.plans, D) /\ q = Sequencing(s, p.plans, D)
  BY DEF IsProduct
<1>2. /\ q.leverage = LeverageItems(s, p.plans, D) /\ q.items = SequenceItems(s, p.plans, D)
      /\ q.recommended = IF startable = {} THEN <<>> ELSE q.items[Min(startable)].task
  BY <1>1 DEF Sequencing, WithRecommendation
<1>3. AreFocuses(p.plans, D, q.leverage) /\ AreItems(p.plans, D, q.items) /\ AreTasks(c, s, p.plans, tasks)
  BY <1>1, <1>2, FocusesFacts, ItemsFacts, TasksFacts DEF IsSource
<1> HIDE DEF D, q, s
<1>4. ASSUME NEW d \in Range(D), d.readiness = "NEEDS_MORE_EVIDENCE", NEW n \in Range(d.unresolved)
      PROVE  /\ \E l \in Range(q.leverage) : l.requirement = n /\ d.id \in l.decisions /\ l.tasks # {}
             /\ \E x \in Range(q.items) : d.id \in x.decisions /\ n \in x.addressed
  <2>1. PICK i \in 1 .. Len(s), f \in 1 .. 2 : IsDecisionFor(s[i], c, p.plans[i], f, d)
    BY <1>1 DEF IsSource, AreDecisions
  <2>2. PICK t \in Range(p.plans[i].tasks) : n \in t.requirements /\ t.id \in d.next
    BY <2>1 DEF IsDecisionFor
  <2>3. t \in Range(tasks)
    BY <1>3 DEF AreTasks
  <2>4. d \in Open(D, n) /\ d \in By(D, t)
    BY <1>4, <2>2 DEF Open, By, Targeted
  <2>5. PICK l \in Range(q.leverage) : l.requirement = n
    BY <1>3, <2>4 DEF AreFocuses
  <2>6. IsFocusOf(p.plans, D, n, l)
    BY <1>3, <2>5 DEF AreFocuses
  <2>7. d.id \in l.decisions /\ t \in l.tasks
    BY <2>2, <2>3, <2>4, <2>6 DEF IsFocusOf
  <2>8. PICK x \in Range(q.items) : IsItemOf(D, t, x)
    BY <1>3, <2>3, <2>4 DEF AreItems
  <2>9. d.id \in x.decisions /\ n \in x.addressed
    BY <1>4, <2>2, <2>4, <2>8 DEF IsItemOf
  <2>10. QED
    BY <2>5, <2>7, <2>9
<1>5. ASSUME q.recommended # <<>>
      PROVE  \E t \in Range(tasks) : t.readiness = "READY_NOW" /\ By(D, t) # {}
  <2>1. PICK k \in DOMAIN q.items : q.items[k].startable
    BY <1>2, <1>5
  <2>2. PICK t \in Range(tasks) : IsItemOf(D, t, q.items[k])
    BY <1>3 DEF AreItems, Range
  <2>3. QED
    BY <2>1, <2>2 DEF IsItemOf
<1>6. ASSUME NEW t \in Range(tasks), t.readiness = "READY_NOW", By(D, t) # {}
      PROVE  q.recommended # <<>>
  <2>1. PICK x \in Range(q.items) : IsItemOf(D, t, x)
    BY <1>3, <1>6 DEF AreItems
  <2>2. PICK k \in DOMAIN q.items : q.items[k] = x
    BY DEF Range
  <2>3. startable # {} /\ startable \in SUBSET Nat
    <3>1. x.startable = (t.readiness = "READY_NOW")
      BY <2>1 DEF IsItemOf
    <3>2. x.startable
      BY <1>6, <3>1
    <3>3. k \in startable
      BY <2>2, <3>2
    <3>4. DOMAIN q.items \subseteq Nat
      BY <1>3 DEF AreItems
    <3>5. QED
      BY <3>3, <3>4
  <2>4. Min(startable) \in startable
    BY <2>3, Least
  <2>5. q.items[Min(startable)] \in Range(q.items)
    BY <2>4 DEF Range
  <2>6. PICK u \in Range(tasks) : IsItemOf(D, u, q.items[Min(startable)])
    BY <1>3, <2>5 DEF AreItems
  <2>7. PICK i \in 1 .. Len(s) : \E j \in SelectedTaskSpecs(s[i], c) : IsTaskFor(s[i], c, j, u)
    BY <1>3 DEF AreTasks
  <2>8. u.id # <<>>
    <3>1. PICK j \in SelectedTaskSpecs(s[i], c) : IsTaskFor(s[i], c, j, u)
      BY <2>7
    <3>2. u.id = <<s[i].type, s[i].scope, PLAN_REGISTRY[s[i].type][j].key>>
      BY <3>1 DEF IsTaskFor
    <3>3. QED
      BY <3>2
  <2>9. q.recommended = u.id
    BY <1>2, <2>3, <2>6 DEF IsItemOf
  <2>10. QED
    BY <2>8, <2>9
<1>7. \A t : By(D, t) # {} <=> \E d \in Range(D) : d.readiness = "NEEDS_MORE_EVIDENCE" /\ t.id \in d.next
  BY DEF By, Targeted
<1>8. (q.recommended # <<>>) <=> \E t \in Range(tasks) : t.readiness = "READY_NOW" /\
          \E d \in Range(D) : d.readiness = "NEEDS_MORE_EVIDENCE" /\ t.id \in d.next
  BY <1>5, <1>6, <1>7
<1>9. QED
  BY <1>4, <1>8 DEF D, q

-----------------------------------------------------------------------------
(* Trust under an identity gap.                                             *)

\* A tenth is at least 100 per mille.
LEMMA TenthIsMaterial ==
  ASSUME NEW a \in Nat, NEW d \in Nat, d > 0, 10 * a >= d
  PROVE  Rate(a, d) >= 100 /\ Rate(a, d) # None
<1> DEFINE q == (a * 1000) \div d
<1>1. q \in Int /\ a * 1000 < d * (q + 1)
  OBVIOUS
<1>2. d * 100 <= a * 1000
  OBVIOUS
<1> HIDE DEF q
<1>3. d * 100 < d * (q + 1) /\ d * 100 \in Int /\ d * (q + 1) \in Int
  BY <1>1, <1>2
<1>4. 100 < q + 1
  <2>1. SUFFICES ASSUME q + 1 <= 100 PROVE FALSE
    BY <1>1
  <2>2. PICK m \in Int : m = q + 1
    BY <1>1
  <2>3. d * m <= d * 100
    BY <2>1, <2>2
  <2>4. QED
    BY <1>3, <2>2, <2>3
<1>5. Rate(a, d) = q
  BY DEF Rate, Ratio, None, q
<1>6. QED
  BY <1>1, <1>4, <1>5 DEF None

\* An identity gap is a blocker that scores against the linkage of campaigns to
\* fulfilment, which never cites it.
LEMMA FulfillmentIsCapped ==
  ASSUME NEW c, IsWorld(c), NEW d \in c.campaigns, Fulfillment(c, d).offered,
         NEW l \in LeakageItem(c, "IDENTITY_UNRESOLVED"), l.denominator > 0, 10 * l.observed >= l.denominator
  PROVE  /\ Fulfillment(c, d).priority # HIGH /\ Fulfillment(c, d).confidence # HIGH
         /\ LeakageId(l) \in Fulfillment(c, d).blocking
<1> DEFINE spends == {x.spend : x \in c.campaigns}
           total == Total(c.campaigns, "spend")
           share == Rate(d.spend, total)
           all == {CampaignId(x) : x \in c.campaigns}
           delivery == SignalItems(c, "CAMPAIGN_DELIVERY_GAP", d.name)
           returns == SignalItems(c, "CAMPAIGN_RETURN_PRESSURE", d.name)
           weak == Ids(delivery \cup returns)
           base == {CampaignId(d)} \cup weak
           certain == d.fulfillmentBand = HIGH /\ delivery # {} /\ returns # {}
           normal == NormalAnomalyRefs(c, {"delivered_order_volume", "returned_order_volume"})
           support == all \cup weak \cup NormalAnomalyRefs(c, {"delivered_order_volume", "returned_order_volume"})
           blockers == AssessBlockers(FULFILLMENT, c, support)
           Scored(band) == IF blockers.scoring = {} THEN band ELSE Lower(band)
           first == IF share >= 350 /\ certain THEN HIGH ELSE MEDIUM
           second == IF certain THEN HIGH ELSE MEDIUM
           p == Scored(first)
           cf == Scored(second)
           checks == <<Check(None \in spends \/ total = 0, "MISSING_REQUIRED_DOMAIN", base),
            Check(weak = {} /\ None \in {d.delivery, d.peerDelivery, d.return, d.peerReturn},
                  "MISSING_REQUIRED_DOMAIN", {CampaignId(d)}),
            Check(weak = {} /\ BetterThanPeers(d) # {}, "CONTRADICTORY_EVIDENCE", {CampaignId(d)}),
            Check(weak = {}, "INSUFFICIENT_MATERIALITY", {CampaignId(d)}),
            Check(d.fulfillmentBand = LOW, "INSUFFICIENT_SAMPLE", base),
            Check(share < 200, "INSUFFICIENT_MATERIALITY", all \cup weak)>>
           o == Fulfillment(c, d)
           impact == Max({s.impact : s \in delivery \cup returns})
           offer == Offer(p, cf, support, {}, blockers.attached, impact)
<1>1. o = Outcome(FULFILLMENT, d.name, checks, offer)
  BY DEF Fulfillment
<1>2. DOMAIN checks \in SUBSET Nat
  <2>1. DOMAIN checks = 1 .. 6
    OBVIOUS
  <2> HIDE DEF checks
  <2>2. QED
    BY <2>1
<1>3. IsOutcomeOf(o, FULFILLMENT, d.name, checks, offer)
  <2> HIDE DEF checks, p, cf, support, blockers, impact, o
  <2>1. QED
    BY <1>1, <1>2, OutcomeFields
<1>4. o.priority = p /\ o.confidence = cf /\ o.blocking = blockers.attached
  <2>0. o.offered
    OBVIOUS
  <2> HIDE DEF checks, o, p, cf, support, blockers, impact
  <2>1. /\ offer.priority = p /\ offer.confidence = cf /\ offer.blocking = blockers.attached
    BY DEF Offer
  <2> HIDE DEF offer
  <2>2. o.offered # FALSE
    BY <2>0
  <2>3. QED
    BY <1>3, <2>1, <2>2 DEF IsOutcomeOf
<1>5. l.stage = "IDENTITY_UNRESOLVED" /\ l \in c.leakage /\ l.observed \in Nat /\ l.denominator \in Nat
  BY DEF LeakageItem, IsWorld
<1>6. LeakageId(l)[1] = "LEAKAGE" /\ LeakageId(l)[2] = "IDENTITY_UNRESOLVED"
  BY <1>5 DEF LeakageId
<1>7. LeakageId(l) \in KnownBlockers(c)
  <2>1. Rate(l.observed, l.denominator) # None /\ Rate(l.observed, l.denominator) >= 100
    BY <1>5, TenthIsMaterial
  <2>2. QED
    BY <2>1 DEF KnownBlockers, Material
<1>8. LeakageId(l) \notin support
  <2>1. \A id \in all : id[1] = "CAMPAIGN_DIAGNOSTIC"
    <3>1. \A x : CampaignId(x)[1] = "CAMPAIGN_DIAGNOSTIC"
      BY DEF CampaignId
    <3>2. QED
      BY <3>1
  <2>2. \A id \in weak : id[1] = "SIGNAL"
    BY DEF Ids, SignalId
  <2>3. \A id \in normal : id[1] = "TIME_ANOMALY"
    BY DEF NormalAnomalyRefs, AnomalyId
  <2>4. support = all \cup weak \cup normal
    OBVIOUS
  <2> HIDE DEF all, weak, normal, support
  <2>5. QED
    BY <1>6, <2>1, <2>2, <2>3, <2>4
<1> HIDE DEF support
<1>9. ClassifyBlockerRelevance(FULFILLMENT, LeakageId(l)) = "SCORING"
  <2>1. BlockerKind(LeakageId(l)) = "IDENTITY_RESOLUTION"
    BY <1>6 DEF BlockerKind
  <2>2. QED
    BY <2>1, TypesDiffer DEF ClassifyBlockerRelevance
<1>10. LeakageId(l) \in blockers.attached /\ LeakageId(l) \in blockers.scoring
  BY <1>7, <1>8, <1>9 DEF AssessBlockers
<1> HIDE DEF blockers
<1>11. first \in 0 .. 2 /\ second \in 0 .. 2
  BY BandsAreBands
<1> HIDE DEF first, second
<1>12. p = Lower(first) /\ cf = Lower(second)
  BY <1>10
<1> HIDE DEF p, cf
<1>13. p # HIGH /\ cf # HIGH
  BY <1>11, <1>12, BandsAreBands
<1> HIDE DEF o
<1>14. o.priority # HIGH /\ o.confidence # HIGH /\ LeakageId(l) \in o.blocking
  BY <1>4, <1>10, <1>13
<1>15. QED
  BY <1>14 DEF o

\* A tenth of the orders without identity takes the high bands from every opportunity about
\* fulfilment, and blocks its decisions.
LEMMA GapCapsTrust ==
  ASSUME NEW c, IsWorld(c), NEW p, IsProduct(c, p),
         NEW l \in LeakageItem(c, "IDENTITY_UNRESOLVED"), l.denominator > 0, 10 * l.observed >= l.denominator
  PROVE  /\ \A o \in Range(p.opportunities) : o.type = FULFILLMENT => o.priority # HIGH /\ o.confidence # HIGH
         /\ \A d \in Range(p.decisions) : d.opportunity[1] = FULFILLMENT => LeakageId(l) \in d.blocking
<1> DEFINE s == p.opportunities
<1>1. IsRanking(c, s) /\ AreDecisions(c, s, p.plans, p.decisions)
  BY DEF IsProduct, IsSource
<1>2. ASSUME NEW i \in 1 .. Len(s), s[i].type = FULFILLMENT
      PROVE  s[i].priority # HIGH /\ s[i].confidence # HIGH /\ LeakageId(l) \in s[i].blocking
  <2>1. s[i] \in Outcomes(c) /\ s[i].offered
    BY <1>1 DEF IsRanking
  <2>2. \E d \in c.campaigns : s[i] = Fulfillment(c, d)
    BY <1>2, <2>1, OutcomeFacts, TypesDiffer
  <2>3. PICK d \in c.campaigns : s[i] = Fulfillment(c, d)
    BY <2>2
  <2>4. QED
    BY <2>1, <2>3, FulfillmentIsCapped
<1>3. ASSUME NEW o \in Range(s), o.type = FULFILLMENT PROVE o.priority # HIGH /\ o.confidence # HIGH
  <2>1. PICK i \in 1 .. Len(s) : o = s[i]
    BY <1>1 DEF IsRanking, Range
  <2>2. QED
    BY <1>2, <1>3, <2>1
<1>4. ASSUME NEW d \in Range(p.decisions), d.opportunity[1] = FULFILLMENT PROVE LeakageId(l) \in d.blocking
  <2>1. PICK i \in 1 .. Len(s), f \in 1 .. 2 : IsDecisionFor(s[i], c, p.plans[i], f, d)
    BY <1>1 DEF AreDecisions
  <2>2. d.opportunity[1] = s[i].type /\ d.blocking = s[i].blocking
    BY <2>1 DEF IsDecisionFor, OpportunityId
  <2>3. QED
    BY <1>2, <1>4, <2>2
<1>5. QED
  BY <1>3, <1>4

-----------------------------------------------------------------------------
(* Answers about items.                                                     *)

\* An answer built from known evidence is valid, unless it is about economics that
\* wait for FX.
LEMMA BuiltAnswerIsValid ==
  ASSUME NEW c, NEW question, NEW refs, refs # {}, refs \subseteq Evidence(c), NEW cannot,
         ~(question.economic /\ c.economics = "FX_REQUIRED")
  PROVE  IsAnswer(Answer(question, refs, cannot, FALSE), question, c)
<1> DEFINE a == Answer(question, refs, cannot, FALSE)
<1>1. a.refs = refs /\ a.defects = {} /\ a.question = question
  BY DEF Answer
<1> HIDE DEF a
<1>2. Violations(a, question, c) = {}
  BY <1>1 DEF Violations
<1>3. IsAnswer(a, question, c)
  BY <1>1, <1>2 DEF IsAnswer
<1>4. QED
  BY <1>3 DEF a

\* Every context has evidence: the economics are always there.
LEMMA EvidenceExists == \A c : EconomicsId(c) \in Evidence(c)
BY DEF Evidence

\* An opportunity, a task, a decision and an order can each be resolved, and have evidence
\* to answer from.
LEMMA OpportunityIsAnswerable ==
  ASSUME NEW c, NEW p, IsProduct(c, p), NEW o \in Range(p.opportunities)
  PROVE  OpportunityRefs(o) # {} /\ OpportunityRefs(o) \subseteq Evidence(c)
<1>1. PICK i \in 1 .. Len(p.opportunities) : o = p.opportunities[i]
  BY DEF IsProduct, IsSource, IsRanking, Range
<1>2. IsOffer(c, o)
  BY <1>1 DEF IsProduct, IsSource, IsRanking
<1>3. QED
  BY <1>2 DEF IsOffer, IsOpportunityModel, OpportunityRefs

\* The names a plan requires.
LEMMA PlanNames ==
  ASSUME NEW c, NEW o, IsOffer(c, o), NEW x, IsPlanFor(o, c, x)
  PROVE  RequirementNames({x}) = Wanted(o, c)
<1>1. UNION {y.requirements : y \in {x}} = x.requirements
  OBVIOUS
<1>2. RequirementNames({x}) = {r.name : r \in x.requirements}
  BY <1>1 DEF RequirementNames
<1>3. QED
  BY <1>2, RequiredFacts DEF IsPlanFor

\* The same of a task, which may take the evidence of its requirements.
LEMMA TaskIsAnswerable ==
  ASSUME NEW c, NEW p, IsProduct(c, p), NEW t \in Range(AllTasks(p.plans))
  PROVE  LET x == PlanOfTask(p, t.id)
             refs == IF t.refs # {} THEN t.refs ELSE UNION {r.refs : r \in x.requirements}
         IN  TaskResolves(t, x) /\ refs \cap Evidence(c) # {}
<1> DEFINE s == p.opportunities
           plans == p.plans
           tasks == AllTasks(plans)
           x == PlanOfTask(p, t.id)
<1>1. IsRanking(c, s) /\ ArePlans(c, s, plans) /\ AreTasks(c, s, plans, tasks)
  BY TasksFacts DEF IsProduct, IsSource
<1>2. x \in Range(plans) /\ t.id \in TaskIds(Range(x.tasks))
  <2>1. PICK i \in 1 .. Len(s) : t \in Range(plans[i].tasks)
    BY <1>1 DEF AreTasks
  <2>2. plans[i] \in Range(plans) /\ t.id \in TaskIds(Range(plans[i].tasks))
    BY <1>1, <2>1 DEF ArePlans, Range, TaskIds
  <2> HIDE DEF plans
  <2>3. QED
    BY <2>2 DEF PlanOfTask, plans
<1> HIDE DEF x, s, plans
<1>3. PICK i \in 1 .. Len(s) : x = plans[i]
  BY <1>1, <1>2 DEF ArePlans, Range
<1>4. IsOffer(c, s[i]) /\ IsPlanFor(s[i], c, x)
  BY <1>1, <1>3 DEF IsRanking, ArePlans
<1>5. t \in Range(x.tasks)
  <2>1. PICK u \in Range(x.tasks) : u.id = t.id
    BY <1>2 DEF TaskIds
  <2>2. u \in Range(tasks) /\ t \in Range(tasks)
    BY <1>1, <1>3, <2>1 DEF AreTasks, plans
  <2>3. PICK k \in 1 .. Len(tasks), l \in 1 .. Len(tasks) : u = tasks[k] /\ t = tasks[l]
    BY <1>1, <2>2 DEF AreTasks, Range
  <2>4. u = t
    BY <1>1, <2>1, <2>3 DEF AreTasks
  <2>5. QED
    BY <2>1, <2>4
<1>6. PICK j \in SelectedTaskSpecs(s[i], c) : t = TaskOf(s[i], c, j)
  BY <1>4, <1>5 DEF IsPlanFor
<1>7. IsTaskFor(s[i], c, j, t)
  BY <1>4, <1>6, TaskFacts
<1>8. TaskResolves(t, x)
  <2>1. t.missing \subseteq Wanted(s[i], c)
    BY <1>7 DEF IsTaskFor
  <2>2. QED
    BY <1>4, <2>1, PlanNames DEF TaskResolves
<1>9. t.refs \subseteq Evidence(c)
  BY <1>7 DEF IsTaskFor
<1> DEFINE all == UNION {r.refs : r \in x.requirements}
<1>10. all \cap Evidence(c) # {}
  <2> DEFINE r == ResolveRequirement(FirstName(s[i].type), s[i], c)
  <2>1. FirstName(s[i].type) \in Wanted(s[i], c)
    BY <1>4, SelectedFacts
  <2>2. r \in Required(s[i], c) /\ r.refs \subseteq Evidence(c) /\ IsRequirement(r)
    BY <1>4, <2>1, RequiredFacts
  <2>3. r.status = "AVAILABLE"
    BY <1>4, FirstIsAvailable
  <2>4. r.refs # {} /\ r \in x.requirements
    BY <1>4, <2>2, <2>3 DEF IsRequirement, IsPlanFor
  <2> HIDE DEF r
  <2>5. PICK id : id \in r.refs
    BY <2>4
  <2>6. id \in all /\ id \in Evidence(c)
    BY <2>2, <2>4, <2>5
  <2> HIDE DEF all
  <2>7. QED
    BY <2>6
<1> HIDE DEF all
<1>11. (IF t.refs # {} THEN t.refs ELSE all) \cap Evidence(c) # {}
  BY <1>9, <1>10
<1>12. QED
  BY <1>8, <1>11 DEF x, all

\* The same of a decision.
LEMMA DecisionIsAnswerable ==
  ASSUME NEW c, NEW p, IsProduct(c, p), NEW d \in Range(p.decisions)
  PROVE  /\ DecisionResolves(d, PlanOfDecision(p, d))
         /\ DecisionRefs(d) # {} /\ DecisionRefs(d) \subseteq Evidence(c)
<1> DEFINE s == p.opportunities
           plans == p.plans
           x == PlanOfDecision(p, d)
<1>1. IsRanking(c, s) /\ ArePlans(c, s, plans) /\ AreDecisions(c, s, plans, p.decisions)
  BY DEF IsProduct, IsSource
<1>2. PICK i \in 1 .. Len(s), f \in 1 .. 2 : IsDecisionFor(s[i], c, plans[i], f, d)
  BY <1>1 DEF AreDecisions
<1>3. IsOffer(c, s[i]) /\ IsPlanFor(s[i], c, plans[i]) /\ d.opportunity = OpportunityId(s[i])
  BY <1>1, <1>2 DEF IsRanking, ArePlans, IsDecisionFor
<1>4. x = plans[i]
  <2>1. plans[i] \in Range(plans) /\ plans[i].opportunity = d.opportunity
    BY <1>1, <1>3 DEF ArePlans, IsPlanFor, Range
  <2>2. ASSUME NEW y \in Range(plans), y.opportunity = d.opportunity PROVE y = plans[i]
    <3>1. PICK k \in 1 .. Len(s) : y = plans[k]
      BY <1>1 DEF ArePlans, Range
    <3>2. OpportunityId(s[k]) = OpportunityId(s[i])
      BY <1>1, <1>3, <2>2, <3>1 DEF ArePlans, IsPlanFor
    <3>3. OpportunityId(s[k])[1] = OpportunityId(s[i])[1] /\ OpportunityId(s[k])[2] = OpportunityId(s[i])[2]
      BY <3>2
    <3>4. s[k].type = s[i].type /\ s[k].scope = s[i].scope
      BY <3>3 DEF OpportunityId
    <3>5. QED
      BY <1>1, <3>1, <3>4 DEF IsRanking
  <2> HIDE DEF plans
  <2>3. QED
    BY <2>1, <2>2 DEF PlanOfDecision, plans
<1> HIDE DEF x
<1>5. Range(d.unresolved) \subseteq Wanted(s[i], c) /\ d.next \subseteq TaskIds(Range(plans[i].tasks))
  BY <1>2 DEF IsDecisionFor
<1>6. DecisionResolves(d, x)
  BY <1>3, <1>4, <1>5, PlanNames DEF DecisionResolves
<1>7. s[i].support # {} /\ s[i].support \cup s[i].counter \cup s[i].blocking \subseteq Evidence(c)
  BY <1>3 DEF IsOffer, IsOpportunityModel
<1>8. /\ d.required \subseteq Wanted(s[i], c)
      /\ d.support = (s[i].support \cup UNION {ResolveRequirement(n, s[i], c).refs : n \in d.required})
                       \ (s[i].counter \cup s[i].blocking)
      /\ d.counter = s[i].counter /\ d.blocking = s[i].blocking
  BY <1>2 DEF IsDecisionFor
<1>9. \A n \in d.required : ResolveRequirement(n, s[i], c).refs \subseteq Evidence(c)
  BY <1>3, <1>8, RequiredFacts
<1>10. DecisionRefs(d) # {} /\ DecisionRefs(d) \subseteq Evidence(c)
  BY <1>7, <1>8, <1>9 DEF DecisionRefs
<1>11. QED
  BY <1>6, <1>10 DEF x

\* The same of the order of the decisions, which grounds on whatever they are about.
LEMMA OrderIsAnswerable ==
  ASSUME NEW c, NEW p, IsProduct(c, p), NEW chosen, NEW about
  PROVE  /\ OrderResolves(chosen, p)
         /\ GroundingRefs(about, p, c) # {} /\ GroundingRefs(about, p, c) \subseteq Evidence(c)
<1> DEFINE s == p.opportunities
           D == p.decisions
           tasks == AllTasks(p.plans)
           q == p.sequencing
           ids == {d.id : d \in Range(D)}
<1>1. /\ IsRanking(c, s) /\ ArePlans(c, s, p.plans)
      /\ AreTasks(c, s, p.plans, tasks) /\ AreFocuses(p.plans, D, q.leverage) /\ AreItems(p.plans, D, q.items)
  <2>1. q.leverage = LeverageItems(s, p.plans, D) /\ q.items = SequenceItems(s, p.plans, D)
    BY DEF IsProduct, Sequencing, WithRecommendation
  <2>2. IsSource(c, s, p.plans, D)
    BY DEF IsProduct
  <2>3. QED
    BY <2>1, <2>2, FocusesFacts, ItemsFacts, TasksFacts DEF IsSource
<1>2. ASSUME NEW y \in Range(q.items)
      PROVE  y.addressed \subseteq RequirementNames(Range(p.plans)) /\ y.decisions \subseteq ids
  <2>1. PICK t \in Range(tasks) : IsItemOf(D, t, y)
    BY <1>1 DEF AreItems
  <2>2. PICK i \in 1 .. Len(s) : \E j \in SelectedTaskSpecs(s[i], c) : IsTaskFor(s[i], c, j, t)
    BY <1>1 DEF AreTasks
  <2>3. t.requirements \subseteq Wanted(s[i], c)
    BY <2>2 DEF IsTaskFor
  <2>4. Wanted(s[i], c) \subseteq RequirementNames(Range(p.plans))
    <3>1. IsOffer(c, s[i]) /\ IsPlanFor(s[i], c, p.plans[i]) /\ p.plans[i] \in Range(p.plans)
      BY <1>1 DEF IsRanking, ArePlans, Range
    <3>2. {r.name : r \in p.plans[i].requirements} = Wanted(s[i], c)
      BY <3>1, RequiredFacts DEF IsPlanFor
    <3>3. \A r \in p.plans[i].requirements : r.name \in RequirementNames(Range(p.plans))
      BY <3>1 DEF RequirementNames
    <3>4. QED
      BY <3>2, <3>3
  <2>5. y.addressed \subseteq t.requirements /\ y.decisions = {d.id : d \in By(D, t)}
    BY <2>1 DEF IsItemOf
  <2>6. By(D, t) \subseteq Range(D)
    BY DEF By, Targeted
  <2> HIDE DEF D
  <2>7. QED
    BY <2>3, <2>4, <2>5, <2>6
<1>3. ASSUME NEW y \in Range(q.leverage) PROVE y.decisions \subseteq ids
  <2>1. y.decisions = {d.id : d \in Open(D, y.requirement)}
    BY <1>1 DEF AreFocuses, IsFocusOf
  <2>2. Open(D, y.requirement) \subseteq Range(D)
    BY DEF Open, Targeted
  <2> HIDE DEF D
  <2>3. QED
    BY <2>1, <2>2
<1>4. OrderResolves(chosen, p)
  <2> HIDE DEF ids
  <2>1. ids = {d.id : d \in Range(p.decisions)}
    BY DEF ids
  <2>2. QED
    BY <1>2, <1>3, <2>1 DEF OrderResolves
<1>5. GroundingRefs(about, p, c) # {} /\ GroundingRefs(about, p, c) \subseteq Evidence(c)
  <2> DEFINE cited == IF about # {} THEN {d \in Range(p.decisions) : d.id \in about} ELSE Range(p.decisions)
             refs == UNION {DecisionRefs(d) : d \in cited}
             one == CHOOSE id \in Evidence(c) : TRUE
  <2>1. \A d \in cited : DecisionRefs(d) \subseteq Evidence(c)
    BY DecisionIsAnswerable
  <2>2. one \in Evidence(c)
    BY EvidenceExists
  <2>3. GroundingRefs(about, p, c) = IF refs # {} THEN refs ELSE {one}
    BY DEF GroundingRefs
  <2> HIDE DEF cited, one
  <2>4. QED
    BY <2>1, <2>2, <2>3
<1>6. QED
  BY <1>4, <1>5

\* A question about economics, of a business whose economics wait for FX.
WaitsForFx(r, c) == r.question.economic /\ c.economics = "FX_REQUIRED"

\* The answer about an item that is found resolves and is valid.
LEMMA ItemIsAnswerable ==
  ASSUME NEW c, NEW p, IsProduct(c, p), NEW r, r.kind \in Kinds \ {"plan"}, NEW item \in Find(r, p),
         ~WaitsForFx(r, c)
  PROVE  ItemResolves(r, item, p) /\ IsAnswer(ItemAnswer(r, item, p, c), r.question, c)
<1>1. CASE r.kind = "opportunity"
  <2>1. item \in Range(p.opportunities)
    BY <1>1 DEF Find, ResolveOpportunity
  <2>2. OpportunityRefs(item) # {} /\ OpportunityRefs(item) \subseteq Evidence(c)
    BY <2>1, OpportunityIsAnswerable
  <2>3. ItemAnswer(r, item, p, c) = Answer(r.question, OpportunityRefs(item), TRUE, FALSE)
    BY <1>1 DEF ItemAnswer, OpportunityAnswer
  <2>4. ItemResolves(r, item, p)
    BY <1>1 DEF ItemResolves
  <2>5. QED
    BY <2>2, <2>3, <2>4, BuiltAnswerIsValid DEF WaitsForFx
<1>2. CASE r.kind = "task"
  <2> DEFINE x == PlanOfTask(p, item.id)
             refs == (IF item.refs # {} THEN item.refs ELSE UNION {q.refs : q \in x.requirements}) \cap Evidence(c)
  <2>1. item \in Range(AllTasks(p.plans))
    BY <1>2 DEF Find, ResolveInvestigationTask
  <2>2. TaskResolves(item, x) /\ refs # {} /\ refs \subseteq Evidence(c)
    BY <2>1, TaskIsAnswerable
  <2>3. ItemAnswer(r, item, p, c) = Answer(r.question, refs, item.readiness # "READY_NOW", FALSE)
    BY <1>2 DEF ItemAnswer, TaskAnswer
  <2>4. ItemResolves(r, item, p)
    BY <1>2, <2>2 DEF ItemResolves
  <2> HIDE DEF refs
  <2>5. QED
    BY <2>2, <2>3, <2>4, BuiltAnswerIsValid DEF WaitsForFx
<1>3. CASE r.kind = "decision"
  <2>1. item \in Range(p.decisions)
    BY <1>3 DEF Find, ResolveDecision
  <2>2. /\ DecisionResolves(item, PlanOfDecision(p, item))
        /\ DecisionRefs(item) # {} /\ DecisionRefs(item) \subseteq Evidence(c)
    BY <2>1, DecisionIsAnswerable
  <2>3. ItemAnswer(r, item, p, c)
          = Answer(r.question, DecisionRefs(item), item.readiness # "READY_FOR_HUMAN_REVIEW", FALSE)
    BY <1>3 DEF ItemAnswer, DecisionAnswer
  <2>4. ItemResolves(r, item, p)
    BY <1>3, <2>2 DEF ItemResolves
  <2>5. QED
    BY <2>2, <2>3, <2>4, BuiltAnswerIsValid DEF WaitsForFx
<1>4. CASE r.kind \in {"requirement", "step"}
  <2>1. OrderResolves(item, p) /\ GroundingRefs(item.decisions, p, c) # {}
        /\ GroundingRefs(item.decisions, p, c) \subseteq Evidence(c)
    BY OrderIsAnswerable
  <2>2. ItemAnswer(r, item, p, c) = Answer(r.question, GroundingRefs(item.decisions, p, c), FALSE, FALSE)
    BY <1>4 DEF ItemAnswer, SequencingAnswer
  <2>3. ItemResolves(r, item, p)
    BY <1>4, <2>1 DEF ItemResolves
  <2>4. QED
    BY <2>1, <2>2, <2>3, BuiltAnswerIsValid DEF WaitsForFx
<1>5. QED
  BY <1>1, <1>2, <1>3, <1>4 DEF Kinds

-----------------------------------------------------------------------------
(* The chain served to every reader.                                        *)

\* What the four theorems state holds of every context that reads can assemble, so it is a
\* consequence of the type of the parts.
LEMMA WorldsComplete == PartsAreReads => ChainCompletes
<1>1. ASSUME PartsAreReads, Produces
      PROVE  Chain(Context).error = IF NamedLikePhone(Context) THEN "OPPORTUNITY_ERROR" ELSE "NONE"
  <2>1. PICK c : c = Context
    OBVIOUS
  <2>2. IsWorld(c)
    BY <1>1, <2>1, ContextIsWorld DEF Produces
  <2>3. Chain(c).error = IF NamedLikePhone(c) THEN "OPPORTUNITY_ERROR" ELSE "NONE"
    BY <2>2, ChainFacts DEF IsProduct
  <2>4. QED
    BY <2>1, <2>3
<1>2. QED
  BY <1>1 DEF ChainCompletes

\* The layers agree on every context the queries can assemble: none refuses what
\* another built, and only the name of a campaign ends the product.
THEOREM ChainAlwaysCompletes == Spec => []ChainCompletes
<1>1. QED
  BY InitParts, NextParts, WorldsComplete, PTL DEF Spec

LEMMA WorldsAreReady == PartsAreReads => ReadyMeansEvidence
<1>1. SUFFICES ASSUME PartsAreReads, Produces, NEW c, c = Context, Chain(c).error = "NONE",
                      NEW d \in Range(Chain(c).decisions),
                      d.readiness = "READY_FOR_HUMAN_REVIEW", NEW n \in d.required
               PROVE  LET o == CHOOSE o \in Range(Chain(c).opportunities) : OpportunityId(o) = d.opportunity
                          groups == Range(REQUIREMENT_REGISTRY[n])
                      IN  \A g \in groups : \E id \in Evidence(c) \cap DecisionRefs(d) : Matches(id, g, o)
  BY DEF ReadyMeansEvidence
<1>2. IsWorld(c)
  BY <1>1, ContextIsWorld DEF Produces
<1>3. IsProduct(c, Chain(c))
  BY <1>1, <1>2, NoErrorMeansProduct
<1>4. QED
  BY <1>1, <1>3, ReadyDecisions

\* A decision is ready for human review only on evidence of every kind each of its
\* requirements asks for, and it cites that evidence.
THEOREM ReadyAlwaysMeansEvidence == Spec => []ReadyMeansEvidence
<1>1. QED
  BY InitParts, NextParts, WorldsAreReady, PTL DEF Spec

LEMMA WorldsAreCovered == PartsAreReads => SequenceCoversUnresolved
<1>1. SUFFICES ASSUME PartsAreReads, Produces, NEW p, p = Chain(Context), p.error = "NONE"
               PROVE  /\ \A d \in Range(p.decisions) : d.readiness = "NEEDS_MORE_EVIDENCE" =>
                          \A n \in Range(d.unresolved) :
                            /\ \E l \in Range(p.sequencing.leverage) :
                                  l.requirement = n /\ d.id \in l.decisions /\ l.tasks # {}
                            /\ \E i \in Range(p.sequencing.items) :
                                  d.id \in i.decisions /\ n \in i.addressed
                      /\ (p.sequencing.recommended # <<>>) =
                          (\E t \in Range(AllTasks(p.plans)) : t.readiness = "READY_NOW" /\
                             \E d \in Range(p.decisions) :
                                d.readiness = "NEEDS_MORE_EVIDENCE" /\ t.id \in d.next)
  BY DEF SequenceCoversUnresolved
<1>2. PICK c : c = Context
  OBVIOUS
<1>3. IsWorld(c)
  BY <1>1, <1>2, ContextIsWorld DEF Produces
<1>4. IsProduct(c, p)
  BY <1>1, <1>2, <1>3, NoErrorMeansProduct
<1>5. QED
  BY <1>4, SequencingCovers

\* Sequencing forgets no gap: what a decision waits for is a focus and is addressed
\* by a task of the sequence, and a task is recommended exactly when one can begin.
THEOREM SequenceAlwaysCovers == Spec => []SequenceCoversUnresolved
<1>1. QED
  BY InitParts, NextParts, WorldsAreCovered, PTL DEF Spec

LEMMA WorldsAreCapped == PartsAreReads => IdentityGapCapsTrust
<1>1. SUFFICES ASSUME PartsAreReads, Produces, NEW c, c = Context, Chain(c).error = "NONE",
                      NEW gap, gap = {l \in LeakageItem(c, "IDENTITY_UNRESOLVED") :
                                        l.denominator > 0 /\ 10 * l.observed >= l.denominator},
                      gap # {}
               PROVE  /\ \A o \in Range(Chain(c).opportunities) :
                            o.type = FULFILLMENT => o.priority # HIGH /\ o.confidence # HIGH
                      /\ \A d \in Range(Chain(c).decisions) : d.opportunity[1] = FULFILLMENT =>
                            {LeakageId(l) : l \in gap} \subseteq d.blocking
  BY DEF IdentityGapCapsTrust
<1>2. IsWorld(c)
  BY <1>1, ContextIsWorld DEF Produces
<1>3. PICK p : p = Chain(c)
  OBVIOUS
<1>4. IsProduct(c, p)
  BY <1>1, <1>2, <1>3, NoErrorMeansProduct
<1>5. ASSUME NEW l \in gap
      PROVE  /\ \A o \in Range(p.opportunities) : o.type = FULFILLMENT => o.priority # HIGH /\ o.confidence # HIGH
             /\ \A d \in Range(p.decisions) : d.opportunity[1] = FULFILLMENT => LeakageId(l) \in d.blocking
  <2>1. l \in LeakageItem(c, "IDENTITY_UNRESOLVED") /\ l.denominator > 0 /\ 10 * l.observed >= l.denominator
    BY <1>1
  <2>2. QED
    BY <1>2, <1>4, <2>1, GapCapsTrust
<1>6. QED
  BY <1>1, <1>3, <1>5

\* Where a tenth of the orders has no resolved identity, no opportunity that rests on
\* the linkage is of HIGH priority or confidence, and its decisions disclose the gap.
THEOREM GapAlwaysCapsTrust == Spec => []IdentityGapCapsTrust
<1>1. QED
  BY InitParts, NextParts, WorldsAreCapped, PTL DEF Spec

\* The inductive invariant of the items: what is in work is one of the requests and
\* has no response yet, so that a refusal is the last thing that happened to a request
\* and its context is still the one it was refused on.
AnswerableInv ==
  /\ request # Idle => request \in Requests /\ response.code = "NONE"
  /\ ItemsAreAnswerable

\* Why an item may be refused.
Excused(r, c) == WaitsForFx(r, c) \/ NamedLikePhone(c)

\* A response that refuses no item without an excuse.
ExcusedEnd(code, answer) ==
  /\ Respond(code, answer)
  /\ code = "VALIDATION_FAILED" /\ request.kind # "narration" => Excused(request, Context)

\* A response that has its excuse keeps the invariant.
LEMMA RespondExcused ==
  ASSUME NEW code, NEW answer, ExcusedEnd(code, answer) PROVE AnswerableInv'
<1>1. /\ request' = Idle /\ parts' = parts
      /\ response'.request = request /\ response'.code = code
  BY DEF ExcusedEnd, Respond, Response
<1>2. Context' = Context
  BY <1>1 DEF Context
<1>3. code = "VALIDATION_FAILED" /\ request.kind # "narration" =>
        (request.question.economic /\ Context.economics = "FX_REQUIRED") \/ NamedLikePhone(Context)
  BY DEF ExcusedEnd, Excused, WaitsForFx
<1>4. QED
  BY <1>1, <1>2, <1>3 DEF AnswerableInv, ItemsAreAnswerable, NamedLikePhone

\* A product of a context is rejected by the layers of an item only for a name.
LEMMA OnlyNamesReject ==
  ASSUME PartsAreReads, HasContext, request.kind \in Kinds, ~NamedLikePhone(Context)
  PROVE  ~Rejected(Chain(Context)) /\ IsProduct(Context, Chain(Context))
<1>1. PICK c : c = Context
  OBVIOUS
<1>2. IsWorld(c)
  BY <1>1, ContextIsWorld
<1>3. IsProduct(c, Chain(c)) /\ Chain(c).error = "NONE"
  BY <1>1, <1>2, ChainFacts DEF IsProduct
<1>4. \A kind \in Kinds : "NONE" \notin Layers[kind]
  BY DEF Kinds, Layers
<1>5. ~Rejected(Chain(c))
  BY <1>3, <1>4 DEF Rejected
<1>6. QED
  BY <1>1, <1>3, <1>5

\* Serving a list or an item is rejected for a name only.
LEMMA ServeExcused ==
  ASSUME PartsAreReads, AnswerableInv, ServeList \/ ServeItem PROVE AnswerableInv'
<1>1. HasContext /\ request \in Requests /\ request.form # "ask"
  BY DEF ServeList, ServeItem, HasContext, AnswerableInv
<1>2. request.kind \in Kinds
  BY <1>1, RequestsAssumption
<1>3. Rejected(Chain(Context)) => Excused(request, Context)
  BY <1>1, <1>2, OnlyNamesReject DEF Excused
<1>4. \E code : ExcusedEnd(code, NoAnswer)
  BY <1>3 DEF ServeList, ServeItem, ExcusedEnd
<1>5. QED
  BY <1>4, RespondExcused

\* A question about an item is answered, or excused.
LEMMA AskExcused ==
  ASSUME PartsAreReads, AnswerableInv, AskItem PROVE AnswerableInv'
<1>1. HasContext /\ request \in Requests /\ request.form = "ask" /\ request.kind # "narration"
  BY DEF AskItem, AskAbout, AnswerAbout, HasContext, AnswerableInv
<1>2. request.kind \in Kinds \ {"plan"}
  BY <1>1, RequestsAssumption
<1>3. PICK c, p : c = Context /\ p = Chain(c)
  OBVIOUS
<1>4. ~NamedLikePhone(c) => ~Rejected(p) /\ IsProduct(c, p)
  BY <1>1, <1>2, <1>3, OnlyNamesReject
<1>5. CASE WaitsForFx(request, c) \/ NamedLikePhone(c)
  <2>1. Excused(request, Context)
    BY <1>3, <1>5 DEF Excused
  <2>2. \E code, answer : Respond(code, answer)
    BY DEF AskItem, AskAbout, AnswerAbout
  <2>3. \E code, answer : ExcusedEnd(code, answer)
    BY <2>1, <2>2 DEF ExcusedEnd
  <2>4. QED
    BY <2>3, RespondExcused
<1>6. CASE ~(WaitsForFx(request, c) \/ NamedLikePhone(c))
  <2> DEFINE found == Find(request, p)
             item == CHOOSE item \in found : TRUE
             answer == ItemAnswer(request, item, p, c)
  <2>0. ~NamedLikePhone(c) /\ ~WaitsForFx(request, c)
    BY <1>6
  <2>1. IF found = {} THEN Respond("NOT_FOUND", NoAnswer)
        ELSE IF ItemResolves(request, item, p) /\ IsAnswer(answer, request.question, c)
             THEN Respond("OK", answer) ELSE Respond("VALIDATION_FAILED", NoAnswer)
    BY <1>3, <1>4, <2>0 DEF AskItem, AskAbout, AnswerAbout
  <2>2. ASSUME found # {}
        PROVE  ItemResolves(request, item, p) /\ IsAnswer(answer, request.question, c)
    <3>1. item \in Find(request, p)
      BY <2>2
    <3> HIDE DEF item
    <3>2. QED
      BY <1>2, <1>4, <2>0, <3>1, ItemIsAnswerable
  <2> HIDE DEF found, item, answer
  <2>3. Respond("NOT_FOUND", NoAnswer) \/ Respond("OK", answer)
    BY <2>1, <2>2
  <2>4. \E code, a : ExcusedEnd(code, a)
    BY <2>3 DEF ExcusedEnd
  <2>5. QED
    BY <2>4, RespondExcused
<1>7. QED
  BY <1>5, <1>6

\* Every step keeps the invariant.
LEMMA NextAnswerable == PartsAreReads /\ AnswerableInv /\ [Next]_vars => AnswerableInv'
<1> SUFFICES ASSUME PartsAreReads, AnswerableInv, [Next]_vars PROVE AnswerableInv'
  OBVIOUS
<1>0. ASSUME UNCHANGED <<request, parts, response>> PROVE AnswerableInv'
  <2>1. Context' = Context
    BY <1>0 DEF Context
  <2>2. QED
    BY <1>0, <2>1 DEF AnswerableInv, ItemsAreAnswerable, NamedLikePhone
<1>1. CASE Load
  BY <1>0, <1>1 DEF Load
<1>2. ASSUME NEW r \in Requests, Receive(r) PROVE AnswerableInv'
  BY <1>2 DEF Receive, AnswerableInv, ItemsAreAnswerable
<1>3. ASSUME NEW r \in Requests, Refuse(r) PROVE AnswerableInv'
  BY <1>3 DEF Refuse, AnswerableInv, ItemsAreAnswerable
<1>4. CASE Query
  BY <1>4 DEF Query, AnswerableInv, ItemsAreAnswerable
<1>5. CASE QueryFails \/ BusinessNotFound \/ ContextIsRefused
  <2>1. \E code : ExcusedEnd(code, NoAnswer)
    BY <1>5 DEF QueryFails, BusinessNotFound, ContextIsRefused, ExcusedEnd
  <2>2. QED
    BY <2>1, RespondExcused
<1>6. CASE ServeList \/ ServeItem
  BY <1>6, ServeExcused
<1>7. CASE AskItem
  BY <1>7, AskExcused
<1>8. CASE Narrate \/ ProviderFails \/ Repair \/ RepairFails
  <2>1. request.kind = "narration"
    BY <1>8 DEF Narrate, ProviderFails, Repair, RepairFails, Narrating
  <2>2. (\E code, answer : Respond(code, answer)) \/ UNCHANGED <<request, parts, response>>
    BY <1>8 DEF Narrate, ProviderFails, Repair, RepairFails, Fallback
  <2>3. (\E code, answer : ExcusedEnd(code, answer)) \/ UNCHANGED <<request, parts, response>>
    BY <2>1, <2>2 DEF ExcusedEnd
  <2>4. QED
    BY <1>0, <2>3, RespondExcused
<1>9. CASE UNCHANGED vars
  BY <1>0, <1>9 DEF vars
<1>10. QED
  BY <1>1, <1>2, <1>3, <1>4, <1>5, <1>6, <1>7, <1>8, <1>9 DEF Next

\* What is listed can be asked about: whatever the warehouse holds and whatever loads
\* intervene, a question about an item is refused only for economics that wait for FX
\* or for the name of a campaign.
THEOREM ItemsAlwaysAnswerable == Spec => []ItemsAreAnswerable
<1>1. Init => AnswerableInv
  BY DEF Init, AnswerableInv, ItemsAreAnswerable
<1>2. AnswerableInv => ItemsAreAnswerable
  BY DEF AnswerableInv
<1>3. PartsAreReads /\ AnswerableInv /\ [Next]_vars => (PartsAreReads /\ AnswerableInv)'
  BY NextParts, NextAnswerable
<1>4. Init => PartsAreReads
  BY InitParts
<1>5. QED
  BY <1>1, <1>2, <1>3, <1>4, PTL DEF Spec

=============================================================================
