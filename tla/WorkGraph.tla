----------------------------- MODULE WorkGraph -----------------------------
(***************************************************************************)
(* The run reducer (xgeny-workgraph, apply_record): the projection of one  *)
(* run's journal, and one action per kind of event.  An event whose guard  *)
(* is false is refused by the code with a TransitionError and leaves no    *)
(* trace, so it is no step here.  Every committed event advances the       *)
(* journal by one record; the head digest is identified with the sequence  *)
(* number, since records form one hash chain.                              *)
(***************************************************************************)
EXTENDS Frontier, Functions

CONSTANTS
    Steps,                  \* step identifiers
    Actions,                \* action digests; a grant id is derived from one
    Effects,                \* effect identifiers
    IntentShapes,           \* the shapes of intent a host may submit
    None,                   \* an absent Option
    MaxModelTurns,          \* AgentLoopBudget.max_model_turns
    MaxPlannedSteps,        \* AgentLoopBudget.max_planned_steps
    MaxToolCalls,           \* AgentLoopBudget.max_tool_calls
    MaxModelCalls,          \* ModelCallBudget.max_model_calls
    MaxAcceptedPlanSteps,   \* MAX_ACCEPTED_PLAN_STEPS (32)
    MaxAcceptedPlanEdges,   \* MAX_ACCEPTED_PLAN_EDGES (128)
    MaxAttempts             \* u32::MAX, where attempts would overflow

EffectClass == {"ReadOnly", "Reversible", "Idempotent", "NonIdempotent"}

SinkGuarantee == {"None", "DeduplicateByKey", "QueryByKey", "DeduplicateAndQuery"}

\* What the reducer tells apart in an EffectIntent besides its effect and action:
\* key: a non-empty idempotency key; provenance: receipt provenance is present;
\* output: it carries the tool-output profile; bound: capability, contract,
\* definition, plan, input, placement and platform are those of the plan.
Shape ==
    [class: EffectClass, guarantee: SinkGuarantee, key: BOOLEAN,
     provenance: BOOLEAN, output: BOOLEAN, bound: BOOLEAN]

Intent == [effect: Effects, action: Actions, shape: Shape]

\* PlannedInvocationBinding, with the two families of PlannedExecutionProfile.
Invocation == [action: Actions, profile: {"Once", "ReadOnly"}]

\* An unsettled model call: the reservation and its ModelCallStatus.
ModelCall ==
    [index: Nat, turn: Nat, base: Nat, status: {"Reserved", "Unknown"}]

\* ExpectedPlanningTurn.  call 0 is a decision without a call id.  The context
\* digest covers the state at the reservation's base, which identifies it.
Decision == [call: Nat, turn: Nat, context: Nat]

ASSUME StepsAssumption == IsFiniteSet(Steps)
ASSUME ShapesAssumption == IntentShapes \subseteq Shape
ASSUME NoneAssumption ==
    None \notin Intent /\ None \notin Invocation /\ None \notin ModelCall
ASSUME BudgetAssumption ==
    /\ {MaxModelTurns, MaxPlannedSteps, MaxToolCalls, MaxModelCalls} \subseteq Nat \ {0}
    /\ {MaxAcceptedPlanSteps, MaxAcceptedPlanEdges, MaxAttempts} \subseteq Nat

VARIABLES
    sequence,        \* journal_sequence, and with it the head digest
    agentLoop,       \* agent_loop is Some
    turns,           \* accepted_model_turns
    candidate,       \* completion_candidate is Some
    lifecycle,       \* model_calls is Some
    reservedCalls,   \* reserved_calls
    settledCalls,    \* settled_calls
    unknownCalls,    \* unknown_calls
    activeCall,      \* active_call
    status,          \* per step; "Absent" for an id not in the graph
    dependsOn,
    planned,         \* planned_invocation
    attempts,
    intent,
    effectEvidence,  \* effect_evidence_digest, as what the evidence attests
    reconEvidence,   \* reconciliation_evidence_digest, likewise
    output,          \* output_record_digest is Some
    receipt,         \* execution_receipt_id and _digest are Some
    consumption      \* authorization_consumption, by action

loopVars == <<agentLoop, turns, candidate>>
callVars == <<lifecycle, reservedCalls, settledCalls, unknownCalls, activeCall>>
graphVars == <<dependsOn, planned>>
evidenceVars == <<effectEvidence, reconEvidence, output, receipt>>
grantVars == <<intent, consumption>>
stepVars == <<status, graphVars, attempts, grantVars, evidenceVars>>
vars == <<sequence, loopVars, callVars, stepVars>>

Known == {s \in Steps : status[s] # "Absent"}

ToolCalls == SumFunction(attempts)

TypeOK ==
    /\ sequence \in Nat
    /\ agentLoop \in BOOLEAN /\ candidate \in BOOLEAN /\ lifecycle \in BOOLEAN
    /\ turns \in Nat /\ reservedCalls \in Nat
    /\ settledCalls \in Nat /\ unknownCalls \in Nat
    /\ activeCall \in ModelCall \cup {None}
    /\ status \in [Steps -> StepStatus \cup {"Absent"}]
    /\ dependsOn \in [Steps -> SUBSET Steps]
    /\ planned \in [Steps -> Invocation \cup {None}]
    /\ attempts \in [Steps -> Nat]
    /\ intent \in [Steps -> Intent \cup {None}]
    /\ effectEvidence \in [Steps -> {"None", "Succeeded", "Failed"}]
    /\ reconEvidence \in [Steps -> {"None", "Applied", "NotApplied", "Failed"}]
    /\ output \in [Steps -> BOOLEAN]
    /\ receipt \in [Steps -> BOOLEAN]
    /\ consumption \in [Actions -> [uses: Nat, effectIds: SUBSET Effects]]

\* The projection of a journal that holds RunCreated alone.
Init ==
    /\ sequence = 1
    /\ agentLoop = FALSE /\ turns = 0 /\ candidate = FALSE
    /\ lifecycle = FALSE /\ reservedCalls = 0 /\ settledCalls = 0 /\ unknownCalls = 0
    /\ activeCall = None
    /\ status = [s \in Steps |-> "Absent"]
    /\ dependsOn = [s \in Steps |-> {}]
    /\ planned = [s \in Steps |-> None]
    /\ attempts = [s \in Steps |-> 0]
    /\ intent = [s \in Steps |-> None]
    /\ effectEvidence = [s \in Steps |-> "None"]
    /\ reconEvidence = [s \in Steps |-> "None"]
    /\ output = [s \in Steps |-> FALSE]
    /\ receipt = [s \in Steps |-> FALSE]
    /\ consumption = [a \in Actions |-> [uses |-> 0, effectIds |-> {}]]

\* EventRecord::next and verify_record_against_state: the record extends the head.
Record == sequence' = sequence + 1

-----------------------------------------------------------------------------
(* Agent loop and model-call lifecycle *)

\* Slip: the executions made before the budget are not counted.
AgentLoopConfiguredUncounted ==
    /\ ~agentLoop
    /\ Cardinality(Known) <= MaxPlannedSteps
    /\ agentLoop' = TRUE
    /\ Record
    /\ UNCHANGED <<turns, candidate, callVars, stepVars>>

AgentLoopConfigured ==
    /\ ~agentLoop
    /\ Cardinality(Known) <= MaxPlannedSteps
    /\ ToolCalls <= MaxToolCalls
    /\ agentLoop' = TRUE
    /\ Record
    /\ UNCHANGED <<turns, candidate, callVars, stepVars>>

ModelCallLifecycleConfigured ==
    /\ agentLoop /\ ~lifecycle
    /\ MaxModelCalls >= turns
    /\ lifecycle' = TRUE
    /\ reservedCalls' = turns
    /\ settledCalls' = turns
    /\ unknownCalls' = 0
    /\ activeCall' = None
    /\ Record
    /\ UNCHANGED <<loopVars, stepVars>>

\* r is the reservation's call index, turn index and base sequence.
ModelCallReserved(r) ==
    /\ agentLoop /\ ~candidate
    /\ turns < MaxModelTurns
    /\ lifecycle /\ activeCall = None
    /\ reservedCalls < MaxModelCalls
    /\ r.index = reservedCalls + 1
    /\ r.turn = turns + 1
    /\ r.base = sequence
    /\ reservedCalls' = r.index
    /\ activeCall' = [index |-> r.index, turn |-> r.turn, base |-> r.base,
                      status |-> "Reserved"]
    /\ Record
    /\ UNCHANGED <<loopVars, lifecycle, settledCalls, unknownCalls, stepVars>>

\* The call whose id is c is the unsettled one.
Active(c) == agentLoop /\ lifecycle /\ activeCall # None /\ activeCall.index = c

ModelCallBecameUnknown(c) ==
    /\ Active(c)
    /\ activeCall.status = "Reserved"
    /\ unknownCalls' = unknownCalls + 1
    /\ activeCall' = [activeCall EXCEPT !.status = "Unknown"]
    /\ Record
    /\ UNCHANGED <<loopVars, lifecycle, reservedCalls, settledCalls, stepVars>>

\* Slip: a rejected call stays the active one.
SettleKeepsActive ==
    /\ settledCalls' = settledCalls + 1
    /\ UNCHANGED <<lifecycle, reservedCalls, unknownCalls, activeCall>>

Settle ==
    /\ settledCalls' = settledCalls + 1
    /\ activeCall' = None
    /\ UNCHANGED <<lifecycle, reservedCalls, unknownCalls>>

\* Rejected is recorded directly on the reservation, unless the head moved on.
ModelCallRejected(c, staleHead) ==
    /\ Active(c)
    /\ activeCall.status = "Reserved"
    /\ (sequence = activeCall.base + 1) = ~staleHead
    /\ Settle
    /\ Record
    /\ UNCHANGED <<loopVars, stepVars>>

ModelCallAbandoned(c) ==
    /\ Active(c)
    /\ Settle
    /\ Record
    /\ UNCHANGED <<loopVars, stepVars>>

\* validate_model_call_success: the decision answers the reserved call, and
\* nothing was committed since its reservation.
AnswersReservedCall(d) ==
    IF lifecycle
    THEN /\ activeCall # None
         /\ activeCall.index = d.call
         /\ activeCall.status = "Reserved"
         /\ activeCall.turn = d.turn
         /\ activeCall.base = d.context
         /\ sequence = activeCall.base + 1
    ELSE d.call = 0

\* What PlanAccepted and CompletionCandidateRecorded both require.
DecisionAccepted(d) ==
    /\ agentLoop
    /\ AnswersReservedCall(d)
    /\ ~candidate
    /\ d.turn = turns + 1
    /\ d.turn <= MaxModelTurns

SettleSuccessfulCall == IF lifecycle THEN Settle ELSE UNCHANGED callVars

\* Action digests owned by the steps of the graph: planned or intended.
OwnedActions(s) ==
    (IF planned[s] # None THEN {planned[s].action} ELSE {}) \cup
    (IF intent[s] # None THEN {intent[s].action} ELSE {})

ExistingActionOwnersUnique ==
    \A s, t \in Known : s # t => OwnedActions(s) \cap OwnedActions(t) = {}

\* validate_accepted_plan_headers: no action has two owners.
PlanHeadersValid(new, inv) ==
    /\ ExistingActionOwnersUnique
    /\ \A s, t \in new : s # t => inv[s].action # inv[t].action
    /\ \A s \in new, t \in Known : inv[s].action \notin OwnedActions(t)

\* build_accepted_plan_candidate: dependencies exist, and none of those already
\* in the graph can be known never to release.
PlanDependenciesValid(new, deps) ==
    /\ SumFunction([s \in new |-> Cardinality(deps[s])]) <= MaxAcceptedPlanEdges
    /\ \A s \in new :
        /\ deps[s] \subseteq (Known \cup new) \ {s}
        /\ deps[s] \cap BlockedOutcome(Known, dependsOn, status, receipt) = {}

AddSteps(new, deps, inv) ==
    /\ status' = [s \in Steps |-> IF s \in new THEN "Planned" ELSE status[s]]
    /\ dependsOn' = [s \in Steps |-> IF s \in new THEN deps[s] ELSE dependsOn[s]]
    /\ planned' = [s \in Steps |-> IF s \in new THEN inv[s] ELSE planned[s]]

\* Slip: the candidate graph is not derived before it is committed.
AcceptPlanUnderived(new, deps, inv) ==
    /\ Cardinality(new) \in 1..MaxAcceptedPlanSteps
    /\ Cardinality(Known) + Cardinality(new) <= MaxPlannedSteps
    /\ PlanHeadersValid(new, inv)
    /\ PlanDependenciesValid(new, deps)
    /\ AddSteps(new, deps, inv)

\* A plan of steps new, their dependencies and invocations, admitted whole or
\* not at all.  The frontier of the candidate graph must exist.
AcceptPlan(new, deps, inv) ==
    /\ Cardinality(new) \in 1..MaxAcceptedPlanSteps
    /\ Cardinality(Known) + Cardinality(new) <= MaxPlannedSteps
    /\ PlanHeadersValid(new, inv)
    /\ FrontierOk(Known, dependsOn, status, receipt)
    /\ PlanDependenciesValid(new, deps)
    /\ AddSteps(new, deps, inv)
    /\ FrontierOk(Known \cup new, dependsOn', status', receipt)

PlanAccepted(d) ==
    /\ DecisionAccepted(d)
    /\ \E new \in SUBSET (Steps \ Known) :
        \E deps \in [new -> SUBSET Steps], inv \in [new -> Invocation] :
            AcceptPlan(new, deps, inv)
    /\ turns' = d.turn
    /\ SettleSuccessfulCall
    /\ Record
    /\ UNCHANGED <<agentLoop, candidate, attempts, grantVars, evidenceVars>>

CompletionCandidateRecorded(d) ==
    /\ DecisionAccepted(d)
    /\ FrontierOk(Known, dependsOn, status, receipt)
    /\ AllStepsReceiptCompleted(Known, status, receipt)
    /\ turns' = d.turn
    /\ candidate' = TRUE
    /\ SettleSuccessfulCall
    /\ Record
    /\ UNCHANGED <<agentLoop, stepVars>>

\* Slip: the new step is added before its dependencies are looked up.
StepPlannedOnItself(s, deps) ==
    /\ agentLoop => ~candidate /\ Cardinality(Known) + 1 <= MaxPlannedSteps
    /\ s \notin Known
    /\ deps \subseteq Known \cup {s}
    /\ AddSteps({s}, [t \in {s} |-> deps], [t \in {s} |-> None])
    /\ Record
    /\ UNCHANGED <<loopVars, callVars, attempts, grantVars, evidenceVars>>

\* Slip: the projection is changed in place, without a journal record.
StepPlannedUnrecorded(s, deps) ==
    /\ agentLoop => ~candidate /\ Cardinality(Known) + 1 <= MaxPlannedSteps
    /\ s \notin Known
    /\ deps \subseteq Known \ {s}
    /\ AddSteps({s}, [t \in {s} |-> deps], [t \in {s} |-> None])
    /\ UNCHANGED <<sequence, loopVars, callVars, attempts, grantVars, evidenceVars>>

\* Slip: a completed run can still be planned into.
StepPlannedAfterCompletion(s, deps) ==
    /\ agentLoop => Cardinality(Known) + 1 <= MaxPlannedSteps
    /\ s \notin Known
    /\ deps \subseteq Known \ {s}
    /\ AddSteps({s}, [t \in {s} |-> deps], [t \in {s} |-> None])
    /\ Record
    /\ UNCHANGED <<loopVars, callVars, attempts, grantVars, evidenceVars>>

\* A step from a journal without plans (RunEventBody::StepPlanned).
StepPlanned(s, deps) ==
    /\ agentLoop => ~candidate /\ Cardinality(Known) + 1 <= MaxPlannedSteps
    /\ s \notin Known
    /\ deps \subseteq Known \ {s}
    /\ AddSteps({s}, [t \in {s} |-> deps], [t \in {s} |-> None])
    /\ Record
    /\ UNCHANGED <<loopVars, callVars, attempts, grantVars, evidenceVars>>

-----------------------------------------------------------------------------
(* Effect lifecycle of one step *)

Move(s, to) == status' = [status EXCEPT ![s] = to]

\* matching_step_mut and require_status: the event names the step's own effect.
At(s, e, from) == status[s] \in from /\ intent[s] # None /\ intent[s].effect = e

ShapeValid(shape) ==
    /\ shape.output => shape.provenance /\ shape.class # "Reversible"
    /\ shape.guarantee # "None" => shape.key
    /\ shape.class = "ReadOnly" => ~shape.key /\ shape.guarantee = "None"

\* validate_planned_invocation_binding and validate_planned_execution_profile.
HonoursPlan(s, i) ==
    planned[s] # None =>
        /\ i.action = planned[s].action
        /\ i.shape.bound /\ i.shape.provenance
        /\ planned[s].profile = "Once" => i.shape.class # "ReadOnly" /\ i.shape.key
        /\ planned[s].profile = "ReadOnly" => i.shape.class = "ReadOnly"

\* Slip: the use of a once-grant is counted but not limited.
EffectIntentCommittedAgain(s, i, issuedAt) ==
    /\ ShapeValid(i.shape)
    /\ \A t \in Known : intent[t] # None => intent[t].effect # i.effect
    /\ status[s] = "Planned"
    /\ dependsOn[s] \subseteq SatisfiedOutcome(Known, status, receipt)
    /\ HonoursPlan(s, i)
    /\ issuedAt = sequence
    /\ consumption' = [consumption EXCEPT ![i.action] =
            [uses |-> @.uses + 1, effectIds |-> @.effectIds \cup {i.effect}]]
    /\ intent' = [intent EXCEPT ![s] = i]
    /\ Move(s, "IntentCommitted")
    /\ Record
    /\ UNCHANGED <<loopVars, callVars, graphVars, attempts, evidenceVars>>

\* The authorization was issued for this step and action at head issuedAt; its
\* grant id is a function of the run and the action, and has one use.
EffectIntentCommitted(s, i, issuedAt) ==
    /\ ShapeValid(i.shape)
    /\ \A t \in Known : intent[t] # None => intent[t].effect # i.effect
    /\ status[s] = "Planned"
    /\ dependsOn[s] \subseteq SatisfiedOutcome(Known, status, receipt)
    /\ HonoursPlan(s, i)
    /\ issuedAt = sequence
    /\ consumption[i.action].uses < 1
    /\ consumption' = [consumption EXCEPT ![i.action] =
            [uses |-> @.uses + 1, effectIds |-> @.effectIds \cup {i.effect}]]
    /\ intent' = [intent EXCEPT ![s] = i]
    /\ Move(s, "IntentCommitted")
    /\ Record
    /\ UNCHANGED <<loopVars, callVars, graphVars, attempts, evidenceVars>>

InvocationMaterialUnavailable(s, e) ==
    /\ At(s, e, {"IntentCommitted"})
    /\ Move(s, "ManualRequired")
    /\ Record
    /\ UNCHANGED <<loopVars, callVars, graphVars, attempts, grantVars, evidenceVars>>

EffectExecutionStarted(s, e) ==
    /\ agentLoop => ToolCalls < MaxToolCalls
    /\ At(s, e, {"IntentCommitted"})
    /\ attempts[s] < MaxAttempts
    /\ attempts' = [attempts EXCEPT ![s] = @ + 1]
    /\ Move(s, "Executing")
    /\ Record
    /\ UNCHANGED <<loopVars, callVars, graphVars, grantVars, evidenceVars>>

\* out: the event carries an output record; required with the profile, and
\* refused without it.
EffectSucceeded(s, e, out) ==
    /\ At(s, e, {"Executing"})
    /\ out = intent[s].shape.output
    /\ Move(s, "Validating")
    /\ effectEvidence' = [effectEvidence EXCEPT ![s] = "Succeeded"]
    /\ output' = [output EXCEPT ![s] = out]
    /\ Record
    /\ UNCHANGED <<loopVars, callVars, graphVars, attempts, grantVars, reconEvidence, receipt>>

EffectFailed(s, e) ==
    /\ At(s, e, {"Executing"})
    /\ Move(s, "Failed")
    /\ effectEvidence' = [effectEvidence EXCEPT ![s] = "Failed"]
    /\ output' = [output EXCEPT ![s] = FALSE]
    /\ Record
    /\ UNCHANGED <<loopVars, callVars, graphVars, attempts, grantVars, reconEvidence, receipt>>

EffectBecameUnknown(s, e) ==
    /\ At(s, e, {"Executing"})
    /\ Move(s, "EffectUnknown")
    /\ Record
    /\ UNCHANGED <<loopVars, callVars, graphVars, attempts, grantVars, evidenceVars>>

ReconciliationStarted(s, e) ==
    /\ At(s, e, {"EffectUnknown"})
    /\ Move(s, "Reconciling")
    /\ Record
    /\ UNCHANGED <<loopVars, callVars, graphVars, attempts, grantVars, evidenceVars>>

\* Slip: a proof that the effect was applied needs no output record.
ReconciliationResolvedWithoutOutput(s, e, resolution) ==
    /\ At(s, e, {"Reconciling"})
    /\ reconEvidence' = [reconEvidence EXCEPT ![s] = resolution]
    /\ Move(s, CASE resolution = "Applied"    -> "Validating"
                 [] resolution = "NotApplied" -> "IntentCommitted"
                 [] resolution = "Failed"     -> "Failed")
    /\ Record
    /\ UNCHANGED <<loopVars, callVars, graphVars, attempts, grantVars,
                   effectEvidence, output, receipt>>

\* Slip: a failed effect is offered for another try.
ReconciliationResolvedRetried(s, e, resolution) ==
    /\ At(s, e, {"Reconciling"})
    /\ resolution = "Applied" => ~intent[s].shape.output
    /\ reconEvidence' = [reconEvidence EXCEPT ![s] = resolution]
    /\ Move(s, IF resolution = "Applied" THEN "Validating" ELSE "IntentCommitted")
    /\ Record
    /\ UNCHANGED <<loopVars, callVars, graphVars, attempts, grantVars,
                   effectEvidence, output, receipt>>

\* An effect that owes an output record cannot be proved applied without it.
ReconciliationResolved(s, e, resolution) ==
    /\ At(s, e, {"Reconciling"})
    /\ resolution = "Applied" => ~intent[s].shape.output
    /\ reconEvidence' = [reconEvidence EXCEPT ![s] = resolution]
    /\ Move(s, CASE resolution = "Applied"    -> "Validating"
                 [] resolution = "NotApplied" -> "IntentCommitted"
                 [] resolution = "Failed"     -> "Failed")
    /\ Record
    /\ UNCHANGED <<loopVars, callVars, graphVars, attempts, grantVars,
                   effectEvidence, output, receipt>>

\* Slip: any step that did not complete can be handed to a person.
ManualInterventionAnytime(s, e) ==
    /\ At(s, e, {"EffectUnknown", "Reconciling", "Failed"})
    /\ Move(s, "ManualRequired")
    /\ Record
    /\ UNCHANGED <<loopVars, callVars, graphVars, attempts, grantVars, evidenceVars>>

ManualInterventionRequired(s, e) ==
    /\ At(s, e, {"EffectUnknown", "Reconciling"})
    /\ Move(s, "ManualRequired")
    /\ Record
    /\ UNCHANGED <<loopVars, callVars, graphVars, attempts, grantVars, evidenceVars>>

\* VerificationRecorded with a disposition, which also stores the receipt.
VerificationRecorded(s, e, disposition) ==
    /\ At(s, e, {"Validating"})
    /\ receipt' = [receipt EXCEPT ![s] = TRUE]
    /\ Move(s, CASE disposition = "Passed"       -> "Completed"
                 [] disposition = "Failed"       -> "Failed"
                 [] disposition = "Inconclusive" -> "ManualRequired")
    /\ Record
    /\ UNCHANGED <<loopVars, callVars, graphVars, attempts, grantVars,
                   effectEvidence, reconEvidence, output>>

\* VerificationPassed and VerificationFailed of old journals: no receipt.
LegacyVerification(s, to) ==
    /\ status[s] = "Validating"
    /\ Move(s, to)
    /\ Record
    /\ UNCHANGED <<loopVars, callVars, graphVars, attempts, grantVars, evidenceVars>>

-----------------------------------------------------------------------------

\* Heads an author may have loaded before committing: the current and the last.
LoadedHeads == {sequence - 1, sequence}

PlanningNext ==
    \/ AgentLoopConfigured
    \/ ModelCallLifecycleConfigured
    \/ \E index \in 1..MaxModelCalls, turn \in 1..MaxModelTurns, base \in LoadedHeads :
        ModelCallReserved([index |-> index, turn |-> turn, base |-> base])
    \/ \E c \in 1..MaxModelCalls :
        \/ ModelCallBecameUnknown(c)
        \/ \E staleHead \in BOOLEAN : ModelCallRejected(c, staleHead)
        \/ ModelCallAbandoned(c)
    \/ \E c \in 0..MaxModelCalls, turn \in 1..MaxModelTurns, context \in {sequence - 2, sequence - 1} :
        LET d == [call |-> c, turn |-> turn, context |-> context] IN
        \/ PlanAccepted(d)
        \/ CompletionCandidateRecorded(d)
    \/ \E s \in Steps, deps \in SUBSET Steps : StepPlanned(s, deps)

EffectNext(s, e) ==
    \/ \E a \in Actions, shape \in IntentShapes, issuedAt \in LoadedHeads :
        EffectIntentCommitted(s, [effect |-> e, action |-> a, shape |-> shape], issuedAt)
    \/ InvocationMaterialUnavailable(s, e)
    \/ EffectExecutionStarted(s, e)
    \/ \E out \in BOOLEAN : EffectSucceeded(s, e, out)
    \/ EffectFailed(s, e)
    \/ EffectBecameUnknown(s, e)
    \/ ReconciliationStarted(s, e)
    \/ \E resolution \in {"Applied", "NotApplied", "Failed"} :
        ReconciliationResolved(s, e, resolution)
    \/ ManualInterventionRequired(s, e)
    \/ \E disposition \in {"Passed", "Failed", "Inconclusive"} :
        VerificationRecorded(s, e, disposition)

Next ==
    \/ PlanningNext
    \/ \E s \in Steps, e \in Effects : EffectNext(s, e)
    \/ \E s \in Steps, to \in {"Completed", "Failed"} : LegacyVerification(s, to)

Spec == Init /\ [][Next]_vars

-----------------------------------------------------------------------------
(* Properties *)

\* The frontier of a run can always be derived: whatever was planned, one step
\* at a time or in batches with internal edges, no dependency is unknown, its
\* own or cyclic, and no step ever left Planned ahead of a dependency that is
\* not receipt-completed.  A run that broke this could not be driven again,
\* since every driver starts with derive_frontier.
FrontierDerivable == FrontierOk(Known, dependsOn, status, receipt)

\* terminal_quiescence: when nothing is actionable, either the graph is empty or
\* receipt-completed, or some step needs a person, failed or lacks its receipt.
\* A run never stops on WaitingDependencies, BlockedDependencies or
\* NoActionableWork alone.
QuiescenceExplained ==
    Actionable(Known, dependsOn, status, receipt) = {} =>
        \/ Known = {}
        \/ AllStepsReceiptCompleted(Known, status, receipt)
        \/ BlockRoots(Known, status, receipt) # {}

\* The authorization ledger agrees with the intents: a once-grant was used by
\* exactly the effects whose intents carry its action, at most one of them.
GrantUsedOnce ==
    \A a \in Actions :
        /\ consumption[a].effectIds =
            {intent[s].effect : s \in {t \in Steps : intent[t] # None /\ intent[t].action = a}}
        /\ consumption[a].uses = Cardinality(consumption[a].effectIds)
        /\ consumption[a].uses <= 1

\* max_tool_calls bounds every execution start of a configured run, those made
\* before AgentLoopConfigured and those of retries included.
ToolCallBudget == agentLoop => ToolCalls <= MaxToolCalls

\* The model-call counters never meet ModelCallCounterInvariant, and account
\* for every reservation: it is settled or it is the one active call.
ModelCallAccounting ==
    /\ turns <= MaxModelTurns
    /\ candidate => activeCall = None
    /\ lifecycle =>
        /\ turns <= settledCalls
        /\ unknownCalls <= reservedCalls
        /\ reservedCalls <= MaxModelCalls
        /\ reservedCalls = settledCalls + (IF activeCall = None THEN 0 ELSE 1)
    /\ activeCall # None =>
        /\ lifecycle
        /\ activeCall.index = reservedCalls
        /\ activeCall.turn = turns + 1
        /\ activeCall.base < sequence

\* A retry is never blind: a step is back at IntentCommitted after an execution
\* only when reconciliation proved that the effect was not applied.
RetryOnlyAfterProof ==
    \A s \in Steps : status[s] = "IntentCommitted" /\ attempts[s] > 0 =>
        reconEvidence[s] = "NotApplied"

\* What the verifier is given: VerificationRunner takes the effect evidence, or
\* the reconciliation evidence when there is none.  A step that awaits or passed
\* verification has evidence of an applied effect, never the proof of its
\* absence that an earlier reconciliation left behind, and with the tool-output
\* profile it has its output record.
VerificationEvidence ==
    \A s \in Steps : status[s] \in {"Validating", "Completed"} =>
        /\ \/ effectEvidence[s] = "Succeeded"
           \/ effectEvidence[s] = "None" /\ reconEvidence[s] = "Applied"
        /\ intent[s].shape.output = output[s]

\* A terminal step never changes again, in any field a receipt or a dependent
\* relies on.
TerminalForever ==
    [][\A s \in Steps : status[s] \in Terminal =>
        /\ status'[s] = status[s] /\ receipt'[s] = receipt[s]
        /\ intent'[s] = intent[s] /\ attempts'[s] = attempts[s]
        /\ effectEvidence'[s] = effectEvidence[s] /\ reconEvidence'[s] = reconEvidence[s]
        /\ output'[s] = output[s] /\ dependsOn'[s] = dependsOn[s]]_vars

\* A completion candidate is the last word on the work: it is recorded over a
\* receipt-completed graph, and no later event adds a step, moves one, accepts
\* a turn or reserves a call.
CandidateFreezesWork ==
    [][candidate =>
        /\ AllStepsReceiptCompleted(Known, status, receipt)
        /\ UNCHANGED <<stepVars, turns, candidate>>
        /\ activeCall' = None]_vars
=============================================================================
