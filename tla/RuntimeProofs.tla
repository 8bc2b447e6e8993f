--------------------------- MODULE RuntimeProofs ---------------------------
(***************************************************************************)
(* Theorems about WorkGraph and about the two components that append to    *)
(* its journal, EffectRuntime and AgentLoop.                               *)
(*                                                                         *)
(* The reducer, for every set of steps, actions and effects and every      *)
(* budget: types, the life of a step and its evidence; the ledgers of      *)
(* grants, model calls and tool calls; and the dependency graph, whose     *)
(* frontier can always be derived.                                         *)
(*                                                                         *)
(* The effect runtime, for every number of processes and stops: it only    *)
(* appends what the reducer accepts, an effect takes place at most once,   *)
(* and it implements the effect contract.                                  *)
(*                                                                         *)
(* The agent loop: whatever number of coordinators tick, break off and     *)
(* race with the host, they only append what the reducer accepts, every    *)
(* provider request has a reservation of its own, and an answer is         *)
(* committed only on the graph it was asked about.                         *)
(***************************************************************************)
EXTENDS EffectRuntime, AgentLoop, FiniteSetTheorems, TLAPS

-----------------------------------------------------------------------------
(* THE REDUCER *)

(* Type correctness *)

\* The projection of RunCreated is well typed.
LEMMA TypeInit == Init => TypeOK
  <1> SUFFICES ASSUME Init PROVE TypeOK
    OBVIOUS
  <1> USE DEF Init
  <1>1. consumption \in [Actions -> [uses: Nat, effectIds: SUBSET Effects]]
    OBVIOUS
  <1>2. dependsOn \in [Steps -> SUBSET Steps]
    OBVIOUS
  <1>3. output \in [Steps -> BOOLEAN] /\ receipt \in [Steps -> BOOLEAN]
    OBVIOUS
  <1> QED
    BY <1>1, <1>2, <1>3 DEF TypeOK

\* Every event keeps the projection well typed: the planning events.
LEMMA PlanningType ==
  ASSUME TypeOK, PlanningNext PROVE TypeOK'
  <1> USE DEF stepVars, grantVars, graphVars, evidenceVars, callVars, loopVars, Record
  <1>1. CASE AgentLoopConfigured
    BY <1>1 DEF TypeOK, AgentLoopConfigured
  <1>2. CASE ModelCallLifecycleConfigured
    BY <1>2 DEF TypeOK, ModelCallLifecycleConfigured
  <1>3. ASSUME NEW index \in 1..MaxModelCalls, NEW turn \in 1..MaxModelTurns, NEW head \in LoadedHeads,
               ModelCallReserved([index |-> index, turn |-> turn, base |-> head])
        PROVE  TypeOK'
    BY <1>3 DEF TypeOK, ModelCallReserved, ModelCall
  <1>4. ASSUME NEW c \in 1..MaxModelCalls, ModelCallBecameUnknown(c)
        PROVE  TypeOK'
    BY <1>4 DEF TypeOK, ModelCallBecameUnknown, ModelCall, Active
  <1>5. ASSUME NEW c \in 1..MaxModelCalls, NEW staleHead \in BOOLEAN, ModelCallRejected(c, staleHead)
        PROVE  TypeOK'
    BY <1>5 DEF TypeOK, ModelCallRejected, Settle
  <1>6. ASSUME NEW c \in 1..MaxModelCalls, ModelCallAbandoned(c)
        PROVE  TypeOK'
    BY <1>6 DEF TypeOK, ModelCallAbandoned, Settle
  <1>7. ASSUME NEW d, PlanAccepted(d)
        PROVE  TypeOK'
    <2>0. PICK new \in SUBSET (Steps \ Known) :
            \E deps \in [new -> SUBSET Steps], inv \in [new -> Invocation] :
                AcceptPlan(new, deps, inv)
      BY <1>7 DEF PlanAccepted
    <2>1. PICK deps \in [new -> SUBSET Steps], inv \in [new -> Invocation] :
            AcceptPlan(new, deps, inv)
      BY <2>0
    <2> USE DEF AcceptPlan
    <2>2. status' \in [Steps -> StepStatus \cup {"Absent"}]
      BY <2>1 DEF AddSteps, TypeOK, StepStatus
    <2>3. dependsOn' \in [Steps -> SUBSET Steps] /\ planned' \in [Steps -> Invocation \cup {None}]
      BY <2>1 DEF AddSteps, TypeOK
    <2>4. turns' \in Nat
      BY <1>7 DEF PlanAccepted, DecisionAccepted, TypeOK
    <2> QED
      BY <1>7, <2>2, <2>3, <2>4 DEF TypeOK, PlanAccepted, SettleSuccessfulCall, Settle
  <1>8. ASSUME NEW d, CompletionCandidateRecorded(d)
        PROVE  TypeOK'
    <2>1. turns' \in Nat
      BY <1>8 DEF CompletionCandidateRecorded, DecisionAccepted, TypeOK
    <2> QED
      BY <1>8, <2>1 DEF TypeOK, CompletionCandidateRecorded, SettleSuccessfulCall, Settle
  <1>9. ASSUME NEW s \in Steps, NEW deps \in SUBSET Steps, StepPlanned(s, deps)
        PROVE  TypeOK'
    BY <1>9 DEF TypeOK, StepPlanned, AddSteps, StepStatus
  <1> QED
    BY <1>1, <1>2, <1>3, <1>4, <1>5, <1>6, <1>7, <1>8, <1>9 DEF PlanningNext

\* The same for the events of an effect.
LEMMA EffectType ==
  ASSUME TypeOK, NEW s \in Steps, NEW e \in Effects, EffectNext(s, e) PROVE TypeOK'
  <1> USE DEF stepVars, grantVars, graphVars, evidenceVars, callVars, loopVars, Record, Move
  <1>1. ASSUME NEW a \in Actions, NEW shape \in IntentShapes, NEW issuedAt \in LoadedHeads,
               EffectIntentCommitted(s, [effect |-> e, action |-> a, shape |-> shape], issuedAt)
        PROVE  TypeOK'
    <2> DEFINE i == [effect |-> e, action |-> a, shape |-> shape]
    <2>1. i \in Intent
      BY ShapesAssumption DEF Intent
    <2>2. intent' \in [Steps -> Intent \cup {None}]
      BY <1>1, <2>1 DEF TypeOK, EffectIntentCommitted
    <2>3. consumption' \in [Actions -> [uses: Nat, effectIds: SUBSET Effects]]
      BY <1>1 DEF TypeOK, EffectIntentCommitted
    <2> QED
      BY <1>1, <2>2, <2>3 DEF TypeOK, EffectIntentCommitted, StepStatus
  <1>2. CASE InvocationMaterialUnavailable(s, e)
    BY <1>2 DEF TypeOK, InvocationMaterialUnavailable, StepStatus
  <1>3. CASE EffectExecutionStarted(s, e)
    BY <1>3 DEF TypeOK, EffectExecutionStarted, StepStatus
  <1>4. ASSUME NEW out \in BOOLEAN, EffectSucceeded(s, e, out)
        PROVE  TypeOK'
    BY <1>4 DEF TypeOK, EffectSucceeded, StepStatus
  <1>5. CASE EffectFailed(s, e)
    BY <1>5 DEF TypeOK, EffectFailed, StepStatus
  <1>6. CASE EffectBecameUnknown(s, e)
    BY <1>6 DEF TypeOK, EffectBecameUnknown, StepStatus
  <1>7. CASE ReconciliationStarted(s, e)
    BY <1>7 DEF TypeOK, ReconciliationStarted, StepStatus
  <1>8. ASSUME NEW resolution \in {"Applied", "NotApplied", "Failed"},
               ReconciliationResolved(s, e, resolution)
        PROVE  TypeOK'
    BY <1>8 DEF TypeOK, ReconciliationResolved, StepStatus
  <1>9. CASE ManualInterventionRequired(s, e)
    BY <1>9 DEF TypeOK, ManualInterventionRequired, StepStatus
  <1>10. ASSUME NEW disposition \in {"Passed", "Failed", "Inconclusive"},
                VerificationRecorded(s, e, disposition)
         PROVE  TypeOK'
    BY <1>10 DEF TypeOK, VerificationRecorded, StepStatus
  <1> QED
    BY <1>1, <1>2, <1>3, <1>4, <1>5, <1>6, <1>7, <1>8, <1>9, <1>10 DEF EffectNext

\* Every event keeps the types.
LEMMA TypeNext == TypeOK /\ [Next]_vars => TypeOK'
  <1> SUFFICES ASSUME TypeOK, [Next]_vars PROVE TypeOK'
    OBVIOUS
  <1>1. CASE PlanningNext
    BY <1>1, PlanningType
  <1>2. ASSUME NEW s \in Steps, NEW e \in Effects, EffectNext(s, e) PROVE TypeOK'
    BY <1>2, EffectType
  <1>3. ASSUME NEW s \in Steps, NEW to \in {"Completed", "Failed"}, LegacyVerification(s, to)
        PROVE  TypeOK'
    BY <1>3 DEF TypeOK, LegacyVerification, Move, Record, StepStatus, loopVars, callVars,
                graphVars, grantVars, evidenceVars
  <1>4. CASE UNCHANGED vars
    BY <1>4 DEF TypeOK, vars, loopVars, callVars, stepVars, graphVars, grantVars, evidenceVars
  <1> QED
    BY <1>1, <1>2, <1>3, <1>4 DEF Next

\* The projection of every journal is well typed: no counter of apply_record
\* goes below zero and no step leaves the states of StepStatus.
THEOREM TypeCorrect == Spec => []TypeOK
  BY TypeInit, TypeNext, PTL DEF Spec

-----------------------------------------------------------------------------
(* The life of one step *)

\* Nothing the lifecycle of step s holds changes, its status aside.
RecordKept(s) ==
    /\ attempts'[s] = attempts[s] /\ intent'[s] = intent[s]
    /\ effectEvidence'[s] = effectEvidence[s] /\ reconEvidence'[s] = reconEvidence[s]
    /\ output'[s] = output[s] /\ receipt'[s] = receipt[s]

Kept(s) ==
    status'[s] = status[s] /\ dependsOn'[s] = dependsOn[s] /\ RecordKept(s)

Admitted(s) == status[s] = "Absent" /\ status'[s] = "Planned" /\ RecordKept(s)

Committed(s) ==
    /\ status[s] = "Planned" /\ status'[s] = "IntentCommitted"
    /\ dependsOn[s] \subseteq SatisfiedOutcome(Known, status, receipt)
    /\ dependsOn'[s] = dependsOn[s]
    /\ attempts'[s] = attempts[s]
    /\ effectEvidence'[s] = effectEvidence[s] /\ reconEvidence'[s] = reconEvidence[s]
    /\ output'[s] = output[s] /\ receipt'[s] = receipt[s]

Executed(s) ==
    /\ status[s] = "IntentCommitted" /\ status'[s] = "Executing"
    /\ dependsOn'[s] = dependsOn[s] /\ intent'[s] = intent[s]
    /\ effectEvidence'[s] = effectEvidence[s] /\ reconEvidence'[s] = reconEvidence[s]
    /\ output'[s] = output[s] /\ receipt'[s] = receipt[s]

Observed(s) ==
    /\ status[s] = "Executing"
    /\ \/ status'[s] = "Failed"
       \/ /\ status'[s] = "Validating" /\ effectEvidence'[s] = "Succeeded"
          /\ output'[s] = intent[s].shape.output
    /\ dependsOn'[s] = dependsOn[s] /\ intent'[s] = intent[s]
    /\ attempts'[s] = attempts[s] /\ receipt'[s] = receipt[s]

Uncertain(s) ==
    /\ <<status[s], status'[s]>> \in
        {<<"IntentCommitted", "ManualRequired">>, <<"Executing", "EffectUnknown">>,
         <<"EffectUnknown", "Reconciling">>, <<"EffectUnknown", "ManualRequired">>,
         <<"Reconciling", "ManualRequired">>}
    /\ dependsOn'[s] = dependsOn[s] /\ RecordKept(s)

Resolved(s) ==
    /\ status[s] = "Reconciling"
    /\ \/ /\ status'[s] = "Validating" /\ reconEvidence'[s] = "Applied"
          /\ intent[s].shape.output = FALSE
       \/ status'[s] = "IntentCommitted" /\ reconEvidence'[s] = "NotApplied"
       \/ status'[s] = "Failed"
    /\ dependsOn'[s] = dependsOn[s] /\ intent'[s] = intent[s]
    /\ attempts'[s] = attempts[s] /\ effectEvidence'[s] = effectEvidence[s]
    /\ output'[s] = output[s] /\ receipt'[s] = receipt[s]

Verified(s) ==
    /\ status[s] = "Validating" /\ status'[s] \in Terminal
    /\ dependsOn'[s] = dependsOn[s] /\ intent'[s] = intent[s]
    /\ attempts'[s] = attempts[s]
    /\ effectEvidence'[s] = effectEvidence[s] /\ reconEvidence'[s] = reconEvidence[s]
    /\ output'[s] = output[s]

\* The edges of the step lifecycle.
StepEdge(s) ==
    \/ Kept(s) \/ Admitted(s) \/ Committed(s) \/ Executed(s)
    \/ Observed(s) \/ Uncertain(s) \/ Resolved(s) \/ Verified(s)

\* A planning event admits steps and touches no other.
LEMMA PlanningEdge ==
  ASSUME TypeOK, PlanningNext PROVE \A t \in Steps : StepEdge(t)
  <1> USE DEF stepVars, grantVars, graphVars, evidenceVars, StepEdge, Kept, RecordKept
  <1>1. CASE AgentLoopConfigured
    BY <1>1 DEF AgentLoopConfigured
  <1>2. CASE ModelCallLifecycleConfigured
    BY <1>2 DEF ModelCallLifecycleConfigured
  <1>3. ASSUME NEW r, ModelCallReserved(r) PROVE \A t \in Steps : StepEdge(t)
    BY <1>3 DEF ModelCallReserved
  <1>4. ASSUME NEW c, ModelCallBecameUnknown(c) PROVE \A t \in Steps : StepEdge(t)
    BY <1>4 DEF ModelCallBecameUnknown
  <1>5. ASSUME NEW c, NEW staleHead, ModelCallRejected(c, staleHead)
        PROVE  \A t \in Steps : StepEdge(t)
    BY <1>5 DEF ModelCallRejected
  <1>6. ASSUME NEW c, ModelCallAbandoned(c) PROVE \A t \in Steps : StepEdge(t)
    BY <1>6 DEF ModelCallAbandoned
  <1>7. ASSUME NEW d, PlanAccepted(d) PROVE \A t \in Steps : StepEdge(t)
    <2>0. PICK new \in SUBSET (Steps \ Known) :
            \E deps \in [new -> SUBSET Steps], inv \in [new -> Invocation] :
                AcceptPlan(new, deps, inv)
      BY <1>7 DEF PlanAccepted
    <2>1. PICK deps \in [new -> SUBSET Steps], inv \in [new -> Invocation] :
            AcceptPlan(new, deps, inv)
      BY <2>0
    <2> SUFFICES ASSUME NEW t \in Steps PROVE Kept(t) \/ Admitted(t)
      OBVIOUS
    <2>2. CASE t \in new
      BY <1>7, <2>1, <2>2 DEF PlanAccepted, AcceptPlan, AddSteps, Known, Admitted
    <2>3. CASE t \notin new
      BY <1>7, <2>1, <2>3 DEF PlanAccepted, AcceptPlan, AddSteps
    <2> QED
      BY <2>2, <2>3
  <1>8. ASSUME NEW d, CompletionCandidateRecorded(d) PROVE \A t \in Steps : StepEdge(t)
    BY <1>8 DEF CompletionCandidateRecorded
  <1>9. ASSUME NEW s \in Steps, NEW deps \in SUBSET Steps, StepPlanned(s, deps)
        PROVE  \A t \in Steps : StepEdge(t)
    BY <1>9 DEF StepPlanned, AddSteps, Known, Admitted
  <1> QED
    BY <1>1, <1>2, <1>3, <1>4, <1>5, <1>6, <1>7, <1>8, <1>9 DEF PlanningNext

\* An event of an effect moves the step that holds it along one edge.
LEMMA EffectEdge ==
  ASSUME TypeOK, NEW s \in Steps, NEW e \in Effects, EffectNext(s, e)
  PROVE  \A t \in Steps : StepEdge(t)
  <1> USE DEF grantVars, graphVars, evidenceVars, Move, At, TypeOK, StepEdge, Kept, RecordKept
  <1>1. ASSUME NEW a \in Actions, NEW shape \in IntentShapes, NEW issuedAt \in LoadedHeads,
               EffectIntentCommitted(s, [effect |-> e, action |-> a, shape |-> shape], issuedAt)
        PROVE  \A t \in Steps : StepEdge(t)
    BY <1>1 DEF EffectIntentCommitted, Committed
  <1>2. CASE InvocationMaterialUnavailable(s, e)
    BY <1>2 DEF InvocationMaterialUnavailable, Uncertain
  <1>3. CASE EffectExecutionStarted(s, e)
    BY <1>3 DEF EffectExecutionStarted, Executed
  <1>4. ASSUME NEW out \in BOOLEAN, EffectSucceeded(s, e, out)
        PROVE  \A t \in Steps : StepEdge(t)
    BY <1>4 DEF EffectSucceeded, Observed
  <1>5. CASE EffectFailed(s, e)
    BY <1>5 DEF EffectFailed, Observed
  <1>6. CASE EffectBecameUnknown(s, e)
    BY <1>6 DEF EffectBecameUnknown, Uncertain
  <1>7. CASE ReconciliationStarted(s, e)
    BY <1>7 DEF ReconciliationStarted, Uncertain
  <1>8. ASSUME NEW resolution \in {"Applied", "NotApplied", "Failed"},
               ReconciliationResolved(s, e, resolution)
        PROVE  \A t \in Steps : StepEdge(t)
    <2>1. intent[s].shape.output \in BOOLEAN
      BY <1>8 DEF ReconciliationResolved, Intent, Shape
    <2> QED
      BY <1>8, <2>1 DEF ReconciliationResolved, Resolved
  <1>9. CASE ManualInterventionRequired(s, e)
    BY <1>9 DEF ManualInterventionRequired, Uncertain
  <1>10. ASSUME NEW disposition \in {"Passed", "Failed", "Inconclusive"},
                VerificationRecorded(s, e, disposition)
         PROVE  \A t \in Steps : StepEdge(t)
    BY <1>10 DEF VerificationRecorded, Verified, Terminal
  <1> QED
    BY <1>1, <1>2, <1>3, <1>4, <1>5, <1>6, <1>7, <1>8, <1>9, <1>10 DEF EffectNext

\* Every step follows an edge of the step's state machine.
LEMMA NextEdge == TypeOK /\ [Next]_vars => \A t \in Steps : StepEdge(t)
  <1> SUFFICES ASSUME TypeOK, [Next]_vars PROVE \A t \in Steps : StepEdge(t)
    OBVIOUS
  <1>1. CASE PlanningNext
    BY <1>1, PlanningEdge
  <1>2. ASSUME NEW s \in Steps, NEW e \in Effects, EffectNext(s, e)
        PROVE  \A t \in Steps : StepEdge(t)
    BY <1>2, EffectEdge
  <1>3. ASSUME NEW s \in Steps, NEW to \in {"Completed", "Failed"}, LegacyVerification(s, to)
        PROVE  \A t \in Steps : StepEdge(t)
    BY <1>3 DEF TypeOK, LegacyVerification, Move, graphVars, grantVars, evidenceVars,
                StepEdge, Kept, RecordKept, Verified, Terminal
  <1>4. CASE UNCHANGED vars
    BY <1>4 DEF vars, stepVars, graphVars, grantVars, evidenceVars, StepEdge, Kept, RecordKept
  <1> QED
    BY <1>1, <1>2, <1>3, <1>4 DEF Next

-----------------------------------------------------------------------------
(* Evidence, retries and terminal steps *)

\* Strengthening: a step that has not committed an intent has never run, and one
\* whose effect is not yet observed has neither effect evidence nor an output.
EvidenceInv ==
    \A s \in Steps :
        /\ status[s] \in {"Absent", "Planned"} => attempts[s] = 0
        /\ status[s] \in {"Absent", "Planned", "IntentCommitted", "Executing",
                          "EffectUnknown", "Reconciling"} =>
            effectEvidence[s] = "None" /\ output[s] = FALSE

\* There is no evidence in the first state.
LEMMA EvidenceInit == Init => EvidenceInv /\ RetryOnlyAfterProof /\ VerificationEvidence
  BY DEF Init, EvidenceInv, RetryOnlyAfterProof, VerificationEvidence

\* Every step keeps the evidence invariant.
LEMMA EvidenceNext ==
  ASSUME TypeOK, EvidenceInv, RetryOnlyAfterProof, VerificationEvidence, [Next]_vars
  PROVE  EvidenceInv' /\ RetryOnlyAfterProof' /\ VerificationEvidence'
  <1> SUFFICES ASSUME NEW s \in Steps
      PROVE  /\ status'[s] \in {"Absent", "Planned"} => attempts'[s] = 0
             /\ status'[s] \in {"Absent", "Planned", "IntentCommitted", "Executing",
                                "EffectUnknown", "Reconciling"} =>
                 effectEvidence'[s] = "None" /\ output'[s] = FALSE
             /\ status'[s] = "IntentCommitted" /\ attempts'[s] > 0 =>
                 reconEvidence'[s] = "NotApplied"
             /\ status'[s] \in {"Validating", "Completed"} =>
                 /\ \/ effectEvidence'[s] = "Succeeded"
                    \/ effectEvidence'[s] = "None" /\ reconEvidence'[s] = "Applied"
                 /\ intent'[s].shape.output = output'[s]
    BY DEF EvidenceInv, RetryOnlyAfterProof, VerificationEvidence
  <1> USE DEF EvidenceInv, RetryOnlyAfterProof, VerificationEvidence, RecordKept
  <1>0. StepEdge(s)
    BY NextEdge
  <1>1. CASE Kept(s)
    BY <1>1 DEF Kept
  <1>2. CASE Admitted(s)
    BY <1>2 DEF Admitted
  <1>3. CASE Committed(s)
    BY <1>3 DEF Committed
  <1>4. CASE Executed(s)
    BY <1>4 DEF Executed
  <1>5. CASE Observed(s)
    BY <1>5 DEF Observed
  <1>6. CASE Uncertain(s)
    BY <1>6 DEF Uncertain
  <1>7. CASE Resolved(s)
    BY <1>7 DEF Resolved
  <1>8. CASE Verified(s)
    BY <1>8 DEF Verified, Terminal
  <1> QED
    BY <1>0, <1>1, <1>2, <1>3, <1>4, <1>5, <1>6, <1>7, <1>8 DEF StepEdge

\* The types and the evidence invariant hold in every behaviour.
LEMMA EvidenceAlways == Spec => [](EvidenceInv /\ RetryOnlyAfterProof /\ VerificationEvidence)
  <1>1. TypeOK /\ EvidenceInv /\ RetryOnlyAfterProof /\ VerificationEvidence /\ [Next]_vars
          => (EvidenceInv /\ RetryOnlyAfterProof /\ VerificationEvidence)'
    BY EvidenceNext
  <1> QED
    BY <1>1, EvidenceInit, TypeCorrect, PTL DEF Spec

\* A step is executed again only after reconciliation proved that its effect
\* was not applied (commit_effect_intent, record_reconciliation).
THEOREM NeverRetriedBlindly == Spec => []RetryOnlyAfterProof
  BY EvidenceAlways, PTL

\* A step in verification, or past it, holds evidence of an applied effect and
\* the output record its profile owes.
THEOREM VerifiedOnEvidence == Spec => []VerificationEvidence
  BY EvidenceAlways, PTL

\* Completed, Failed and ManualRequired steps keep every recorded fact.
THEOREM TerminalNeverChanges == Spec => TerminalForever
  <1>1. TypeOK /\ [Next]_vars =>
          [\A s \in Steps : status[s] \in Terminal =>
            /\ status'[s] = status[s] /\ receipt'[s] = receipt[s]
            /\ intent'[s] = intent[s] /\ attempts'[s] = attempts[s]
            /\ effectEvidence'[s] = effectEvidence[s] /\ reconEvidence'[s] = reconEvidence[s]
            /\ output'[s] = output[s] /\ dependsOn'[s] = dependsOn[s]]_vars
    BY NextEdge DEF StepEdge, Kept, RecordKept, Admitted, Committed, Executed, Observed,
                    Uncertain, Resolved, Verified, Terminal
  <1> QED
    BY <1>1, TypeCorrect, PTL DEF Spec, TerminalForever

-----------------------------------------------------------------------------
(* Grants *)

\* An intent i of step s takes the grant of its action.
TakesGrant(s, i) ==
    /\ status[s] = "Planned"
    /\ intent' = [intent EXCEPT ![s] = i]
    /\ consumption[i.action].uses < 1
    /\ consumption' = [consumption EXCEPT ![i.action] =
            [uses |-> @.uses + 1, effectIds |-> @.effectIds \cup {i.effect}]]

\* Only EffectIntentCommitted touches the ledger.
LEMMA NextGrant ==
  ASSUME TypeOK, [Next]_vars
  PROVE  UNCHANGED grantVars \/ \E s \in Steps, i \in Intent : TakesGrant(s, i)
  <1> USE DEF stepVars, grantVars
  <1>1. CASE PlanningNext
    BY <1>1 DEF PlanningNext, AgentLoopConfigured, ModelCallLifecycleConfigured,
                ModelCallReserved, ModelCallBecameUnknown, ModelCallRejected,
                ModelCallAbandoned, PlanAccepted, CompletionCandidateRecorded, StepPlanned
  <1>2. ASSUME NEW s \in Steps, NEW e \in Effects, EffectNext(s, e)
        PROVE  UNCHANGED grantVars \/ \E t \in Steps, i \in Intent : TakesGrant(t, i)
    <2>1. ASSUME NEW a \in Actions, NEW shape \in IntentShapes, NEW issuedAt \in LoadedHeads,
                 EffectIntentCommitted(s, [effect |-> e, action |-> a, shape |-> shape], issuedAt)
          PROVE  \E i \in Intent : TakesGrant(s, i)
      <3> DEFINE i == [effect |-> e, action |-> a, shape |-> shape]
      <3>1. i \in Intent
        BY ShapesAssumption DEF Intent
      <3>2. TakesGrant(s, i)
        BY <2>1 DEF EffectIntentCommitted, TakesGrant
      <3> QED
        BY <3>1, <3>2
    <2>2. CASE ~\E a \in Actions, shape \in IntentShapes, issuedAt \in LoadedHeads :
                EffectIntentCommitted(s, [effect |-> e, action |-> a, shape |-> shape], issuedAt)
      BY <1>2, <2>2 DEF EffectNext, InvocationMaterialUnavailable, EffectExecutionStarted,
                EffectSucceeded, EffectFailed, EffectBecameUnknown, ReconciliationStarted,
                ReconciliationResolved, ManualInterventionRequired, VerificationRecorded
    <2> QED
      BY <2>1, <2>2
  <1>3. ASSUME NEW s \in Steps, NEW to, LegacyVerification(s, to)
        PROVE  UNCHANGED grantVars
    BY <1>3 DEF LegacyVerification
  <1>4. CASE UNCHANGED vars
    BY <1>4 DEF vars
  <1> QED
    BY <1>1, <1>2, <1>3, <1>4 DEF Next

Users(a) == {t \in Steps : intent[t] # None /\ intent[t].action = a}

\* Strengthening: a planned step has no intent, and a grant was used by nobody
\* or by one effect.
GrantInv ==
    /\ \A s \in Steps : status[s] \in {"Absent", "Planned"} => intent[s] = None
    /\ \A a \in Actions :
        /\ consumption[a].effectIds = {intent[s].effect : s \in Users(a)}
        /\ \/ consumption[a].uses = 0 /\ consumption[a].effectIds = {}
           \/ consumption[a].uses = 1 /\ \E e \in Effects : consumption[a].effectIds = {e}

\* No approval is on record in the first state.
LEMMA GrantInit == Init => GrantInv
  BY DEF Init, GrantInv, Users

\* Every step keeps the grant invariant.
LEMMA GrantNext == TypeOK /\ GrantInv /\ [Next]_vars => GrantInv'
  <1> SUFFICES ASSUME TypeOK, GrantInv, [Next]_vars PROVE GrantInv'
    OBVIOUS
  <1>1. ASSUME NEW s \in Steps, status'[s] \in {"Absent", "Planned"}
        PROVE  intent'[s] = None
    <2>1. StepEdge(s)
      BY NextEdge
    <2> QED
      BY <1>1, <2>1 DEF GrantInv, StepEdge, Kept, RecordKept, Admitted, Committed, Executed,
                        Observed, Uncertain, Resolved, Verified, Terminal
  <1>2. CASE UNCHANGED grantVars
    BY <1>1, <1>2 DEF GrantInv, Users, grantVars
  <1>3. ASSUME NEW s \in Steps, NEW i \in Intent, TakesGrant(s, i)
        PROVE  GrantInv'
    <2>1. intent[s] = None /\ i # None /\ i.action \in Actions /\ i.effect \in Effects
      BY <1>3, NoneAssumption DEF TakesGrant, GrantInv, Intent
    <2>2. intent'[s] = i /\ \A t \in Steps \ {s} : intent'[t] = intent[t]
      BY <1>3 DEF TakesGrant, TypeOK
    <2>3. ASSUME NEW a \in Actions, a # i.action
          PROVE  /\ consumption'[a] = consumption[a]
                 /\ {intent'[t].effect : t \in Users(a)'} = {intent[t].effect : t \in Users(a)}
      BY <1>3, <2>1, <2>2, <2>3 DEF TakesGrant, TypeOK, Users
    <2>4. /\ consumption[i.action].uses = 0
          /\ consumption[i.action].effectIds = {}
      BY <1>3, <2>1 DEF TakesGrant, GrantInv
    <2>5. /\ consumption'[i.action].uses = 1
          /\ consumption'[i.action].effectIds = {i.effect}
      BY <1>3, <2>1, <2>4 DEF TakesGrant, TypeOK
    <2>6. Users(i.action) = {}
      BY <2>1, <2>4 DEF GrantInv
    <2>7. Users(i.action)' = {s}
      BY <2>1, <2>2, <2>6 DEF Users
    <2>8. {intent'[t].effect : t \in Users(i.action)'} = {i.effect}
      BY <2>2, <2>7
    <2>9. ASSUME NEW a \in Actions
          PROVE  /\ consumption'[a].effectIds = {intent'[t].effect : t \in Users(a)'}
                 /\ \/ consumption'[a].uses = 0 /\ consumption'[a].effectIds = {}
                    \/ /\ consumption'[a].uses = 1
                       /\ \E e \in Effects : consumption'[a].effectIds = {e}
      <3>1. CASE a = i.action
        BY <2>1, <2>5, <2>8, <3>1
      <3>2. CASE a # i.action
        BY <2>3, <3>2 DEF GrantInv
      <3> QED
        BY <3>1, <3>2
    <2> QED
      BY <1>1, <2>9 DEF GrantInv
  <1> QED
    BY <1>2, <1>3, NextGrant

\* The grant invariant implies that grants cover what they allow.
LEMMA GrantInvImplies == GrantInv => GrantUsedOnce
  BY FS_EmptySet, FS_Singleton, SMTT(30) DEF GrantInv, GrantUsedOnce, Users

\* A once-authorization is consumed by at most one effect, the one whose intent
\* carries it, whatever the order of the intents (commit_effect_intent).
THEOREM GrantsUsedOnce == Spec => []GrantUsedOnce
  BY GrantInit, GrantNext, GrantInvImplies, TypeCorrect, PTL DEF Spec

-----------------------------------------------------------------------------
(* Model calls *)

\* Strengthening: the unknown calls are among the settled ones, unless the
\* active call is one.
CallInv ==
    /\ lifecycle => agentLoop
    /\ ~agentLoop => turns = 0 /\ ~candidate
    /\ lifecycle =>
        unknownCalls <= settledCalls +
            (IF activeCall # None /\ activeCall.status = "Unknown" THEN 1 ELSE 0)
    /\ ModelCallAccounting

\* No model call is on record in the first state.
LEMMA CallInit == Init => CallInv
  BY BudgetAssumption DEF Init, CallInv, ModelCallAccounting

\* Every step keeps the call ledger in order.
LEMMA CallNext == TypeOK /\ CallInv /\ [Next]_vars => CallInv'
  <1> SUFFICES ASSUME TypeOK, CallInv, [Next]_vars PROVE CallInv'
    OBVIOUS
  <1> USE BudgetAssumption, NoneAssumption
      DEF CallInv, ModelCallAccounting, TypeOK, loopVars, callVars, Record
  <1>1. CASE AgentLoopConfigured
    BY <1>1 DEF AgentLoopConfigured
  <1>2. CASE ModelCallLifecycleConfigured
    BY <1>2 DEF ModelCallLifecycleConfigured
  <1>3. ASSUME NEW index \in 1..MaxModelCalls, NEW turn \in 1..MaxModelTurns, NEW head \in LoadedHeads,
               ModelCallReserved([index |-> index, turn |-> turn, base |-> head])
        PROVE  CallInv'
    BY <1>3 DEF ModelCallReserved, ModelCall
  <1>4. ASSUME NEW c \in 1..MaxModelCalls, ModelCallBecameUnknown(c)
        PROVE  CallInv'
    BY <1>4 DEF ModelCallBecameUnknown, ModelCall, Active
  <1>5. ASSUME NEW c \in 1..MaxModelCalls, NEW staleHead \in BOOLEAN, ModelCallRejected(c, staleHead)
        PROVE  CallInv'
    BY <1>5 DEF ModelCallRejected, Settle, Active, ModelCall
  <1>6. ASSUME NEW c \in 1..MaxModelCalls, ModelCallAbandoned(c)
        PROVE  CallInv'
    BY <1>6 DEF ModelCallAbandoned, Settle, Active, ModelCall
  <1>7. ASSUME NEW d, PlanAccepted(d)
        PROVE  CallInv'
    BY <1>7 DEF PlanAccepted, DecisionAccepted, AnswersReservedCall, SettleSuccessfulCall,
                Settle, ModelCall
  <1>8. ASSUME NEW d, CompletionCandidateRecorded(d)
        PROVE  CallInv'
    BY <1>8 DEF CompletionCandidateRecorded, DecisionAccepted, AnswersReservedCall,
                SettleSuccessfulCall, Settle, ModelCall
  <1>9. ASSUME sequence' = sequence + 1 \/ sequence' = sequence, UNCHANGED <<loopVars, callVars>>
        PROVE  CallInv'
    BY <1>9 DEF ModelCall
  <1>10. ASSUME NEW s, NEW deps, StepPlanned(s, deps) PROVE CallInv'
    BY <1>9, <1>10 DEF StepPlanned
  <1>11. ASSUME NEW s, NEW e, EffectNext(s, e) PROVE CallInv'
    <2>1. Record /\ UNCHANGED <<loopVars, callVars>>
      BY <1>11 DEF EffectNext, EffectIntentCommitted, InvocationMaterialUnavailable,
                EffectExecutionStarted, EffectSucceeded, EffectFailed, EffectBecameUnknown,
                ReconciliationStarted, ReconciliationResolved, ManualInterventionRequired,
                VerificationRecorded
    <2> QED
      BY <1>9, <2>1
  <1>12. ASSUME NEW s, NEW to, LegacyVerification(s, to) PROVE CallInv'
    BY <1>9, <1>12 DEF LegacyVerification
  <1>13. CASE UNCHANGED vars
    BY <1>9, <1>13 DEF vars
  <1> HIDE DEF CallInv, ModelCallAccounting, TypeOK, loopVars, callVars, Record
  <1> QED
    BY <1>1, <1>2, <1>3, <1>4, <1>5, <1>6, <1>7, <1>8, <1>10, <1>11, <1>12, <1>13
    DEF Next, PlanningNext

\* The types and the call ledger's invariant hold in every behaviour.
LEMMA CallsAlways == Spec => []CallInv
  BY CallInit, CallNext, TypeCorrect, PTL DEF Spec

\* Every reservation is settled or is the one active call, within the budget of
\* calls and turns, and the unknown calls are among the reserved ones
\* (validate_model_call_counters never fails on an accepted journal).
THEOREM ModelCallsAccounted == Spec => []ModelCallAccounting
  <1>1. CallInv => ModelCallAccounting
    BY DEF CallInv
  <1> QED
    BY <1>1, CallsAlways, PTL

-----------------------------------------------------------------------------
(* Completion candidate *)

CandidateInv ==
    candidate => agentLoop /\ activeCall = None /\ AllStepsReceiptCompleted(Known, status, receipt)

Frozen == UNCHANGED <<stepVars, turns, candidate, agentLoop>> /\ activeCall' = None

\* Once a candidate is recorded no event but the configuration of the model-call
\* lifecycle is accepted.
LEMMA CandidateFrozen ==
  ASSUME TypeOK, CandidateInv, candidate, [Next]_vars PROVE Frozen
  <1>0. agentLoop /\ activeCall = None /\ \A s \in Known : status[s] = "Completed"
    BY DEF CandidateInv, AllStepsReceiptCompleted, SatisfiedOutcome, ReceiptReleasesDependency
  <1> USE DEF Frozen, loopVars, callVars
  <1>1. CASE PlanningNext
    BY <1>0, <1>1 DEF PlanningNext, AgentLoopConfigured, ModelCallLifecycleConfigured,
            ModelCallReserved, ModelCallBecameUnknown, ModelCallRejected, ModelCallAbandoned,
            Active, PlanAccepted, CompletionCandidateRecorded, DecisionAccepted, StepPlanned
  <1>2. ASSUME NEW s \in Steps, NEW e \in Effects, EffectNext(s, e) PROVE Frozen
    <2>1. status[s] \in {"Planned"} \cup InFlight
      BY <1>2 DEF EffectNext, At, EffectIntentCommitted, InvocationMaterialUnavailable,
                EffectExecutionStarted, EffectSucceeded, EffectFailed, EffectBecameUnknown,
                ReconciliationStarted, ReconciliationResolved, ManualInterventionRequired,
                VerificationRecorded, InFlight
    <2> QED
      BY <1>0, <2>1 DEF Known, InFlight
  <1>3. ASSUME NEW s \in Steps, NEW to, LegacyVerification(s, to) PROVE Frozen
    BY <1>0, <1>3 DEF LegacyVerification, Known
  <1>4. CASE UNCHANGED vars
    BY <1>0, <1>4 DEF vars
  <1> QED
    BY <1>1, <1>2, <1>3, <1>4 DEF Next

\* A candidate is recorded over a receipt-completed graph.
LEMMA CandidateRecorded ==
  ASSUME TypeOK, CallInv, ~candidate, candidate', [Next]_vars
  PROVE  /\ agentLoop' /\ activeCall' = None
         /\ UNCHANGED stepVars /\ AllStepsReceiptCompleted(Known, status, receipt)
  <1>1. PICK d : CompletionCandidateRecorded(d)
    <2> USE DEF loopVars
    <2>1. CASE PlanningNext
      BY <2>1 DEF PlanningNext, AgentLoopConfigured, ModelCallLifecycleConfigured,
            ModelCallReserved, ModelCallBecameUnknown, ModelCallRejected, ModelCallAbandoned,
            PlanAccepted, StepPlanned
    <2>2. ASSUME NEW s \in Steps, NEW e \in Effects, EffectNext(s, e) PROVE FALSE
      BY <2>2 DEF EffectNext, EffectIntentCommitted, InvocationMaterialUnavailable,
                EffectExecutionStarted, EffectSucceeded, EffectFailed, EffectBecameUnknown,
                ReconciliationStarted, ReconciliationResolved, ManualInterventionRequired,
                VerificationRecorded
    <2>3. ASSUME NEW s \in Steps, NEW to, LegacyVerification(s, to) PROVE FALSE
      BY <2>3 DEF LegacyVerification
    <2>4. CASE UNCHANGED vars
      BY <2>4 DEF vars
    <2> QED
      BY <2>1, <2>2, <2>3, <2>4 DEF Next
  <1>2. activeCall' = None
    BY <1>1 DEF CompletionCandidateRecorded, SettleSuccessfulCall, Settle, CallInv,
                ModelCallAccounting, callVars
  <1> QED
    BY <1>1, <1>2 DEF CompletionCandidateRecorded, DecisionAccepted

\* Only the planning and effect events touch the steps.
LEMMA StepVarsKept ==
  ASSUME UNCHANGED stepVars, AllStepsReceiptCompleted(Known, status, receipt)
  PROVE  AllStepsReceiptCompleted(Known', status', receipt')
  BY DEF stepVars, evidenceVars, Known

\* Every step keeps a completion candidate's conditions.
LEMMA CandidateNext == TypeOK /\ CallInv /\ CandidateInv /\ [Next]_vars => CandidateInv'
  <1> SUFFICES ASSUME TypeOK, CallInv, CandidateInv, [Next]_vars, candidate'
      PROVE  agentLoop' /\ activeCall' = None /\ AllStepsReceiptCompleted(Known', status', receipt')
    BY DEF CandidateInv
  <1>1. CASE candidate
    BY <1>1, CandidateFrozen, StepVarsKept DEF Frozen, CandidateInv
  <1>2. CASE ~candidate
    BY <1>2, CandidateRecorded, StepVarsKept
  <1> QED
    BY <1>1, <1>2

\* A completion candidate is recorded over a receipt-completed graph and freezes
\* it: no later event plans, moves a step, accepts a turn or reserves a call.
THEOREM CandidateIsFinal == Spec => CandidateFreezesWork
  <1>1. Init => CandidateInv
    BY DEF Init, CandidateInv
  <1>2. TypeOK /\ CandidateInv /\ [Next]_vars =>
          [candidate =>
            /\ AllStepsReceiptCompleted(Known, status, receipt)
            /\ UNCHANGED <<stepVars, turns, candidate>>
            /\ activeCall' = None]_vars
    BY CandidateFrozen DEF Frozen, CandidateInv
  <1> QED
    BY <1>1, <1>2, CandidateNext, CallsAlways, TypeCorrect, PTL DEF Spec, CandidateFreezesWork

-----------------------------------------------------------------------------
(* Tool calls: SumFunction is a recursive function on the subsets of its      *)
(* domain, so facts about it are proved by a minimal counterexample.          *)

Pick(s) == CHOOSE x \in s : TRUE

\* g satisfies the recursion of SumFunction(f) on the subsets of S.
SumRec(f, S, g) ==
    g = [s \in SUBSET S |-> IF s = {} THEN 0 ELSE f[Pick(s)] + g[s \ {Pick(s)}]]

\* The element a fold takes next belongs to the set.
LEMMA PickIn == ASSUME NEW s, s # {} PROVE Pick(s) \in s
  BY DEF Pick

\* Induction on finite sets, without an operator parameter: a nonempty family of
\* subsets of a finite set has a minimal member.
LEMMA MinimalSubset ==
  ASSUME NEW S, IsFiniteSet(S), NEW T, T \subseteq SUBSET S, T # {}
  PROVE  \E x \in T : \A y \in T : y \subseteq x => y = x
  <1>1. IsWellFoundedOn(StrictSubsetOrdering(S), SUBSET S)
    BY FS_StrictSubsetOrderingWellFounded, FS_FiniteSubsetsOfFinite
  <1>2. PICK x \in T : \A y \in T : ~ (<<y, x>> \in StrictSubsetOrdering(S))
    BY <1>1, WFMin
  <1> QED
    BY <1>2 DEF StrictSubsetOrdering

\* SumFunction is the value of its recursion at the whole domain.
LEMMA SumUnfold ==
  ASSUME NEW f PROVE SumFunction(f) = (CHOOSE g : SumRec(f, DOMAIN f, g))[DOMAIN f]
  BY DEF SumFunction, SumFunctionOnSet, FoldFunctionOnSet, MapThenFoldSet, SumRec, Pick

\* Two solutions of the recursion agree where both are defined.
LEMMA SumAgree ==
  ASSUME NEW f, NEW A, IsFiniteSet(A), NEW B, NEW g, NEW h, SumRec(f, A, g), SumRec(f, B, h)
  PROVE  \A s \in SUBSET (A \cap B) : g[s] = h[s]
  <1> DEFINE Bad == {s \in SUBSET (A \cap B) : g[s] # h[s]}
  <1> SUFFICES ASSUME Bad # {} PROVE FALSE
    OBVIOUS
  <1>1. PICK s \in Bad : \A t \in Bad : t \subseteq s => t = s
    <2>1. Bad \subseteq SUBSET A
      OBVIOUS
    <2> HIDE DEF Bad
    <2> QED
      BY <2>1, MinimalSubset
  <1>2. s # {}
    BY <1>1 DEF SumRec
  <1>3. g[s \ {Pick(s)}] = h[s \ {Pick(s)}]
    BY <1>1, <1>2, PickIn
  <1>4. g[s] = f[Pick(s)] + g[s \ {Pick(s)}]
    BY <1>1, <1>2 DEF SumRec
  <1>5. h[s] = f[Pick(s)] + h[s \ {Pick(s)}]
    BY <1>1, <1>2 DEF SumRec
  <1> QED
    BY <1>1, <1>3, <1>4, <1>5

\* The recursion has a solution on every finite set.
LEMMA SumExists ==
  ASSUME NEW f, NEW S, IsFiniteSet(S) PROVE \E g : SumRec(f, S, g)
  <1> DEFINE Bad == {T \in SUBSET S : ~ \E g : SumRec(f, T, g)}
  <1> SUFFICES ASSUME Bad # {} PROVE FALSE
    OBVIOUS
  <1>1. PICK T \in Bad : \A U \in Bad : U \subseteq T => U = T
    <2>1. Bad \subseteq SUBSET S
      OBVIOUS
    <2> HIDE DEF Bad
    <2> QED
      BY <2>1, MinimalSubset
  <1> DEFINE h(U) == CHOOSE g : SumRec(f, U, g)
             p == Pick(T)
             G == [s \in SUBSET T |-> IF s = T THEN (IF T = {} THEN 0 ELSE f[p] + h(T \ {p})[T \ {p}])
                                              ELSE h(s)[s]]
  <1>2. \A U \in SUBSET T : U # T => SumRec(f, U, h(U))
    BY <1>1
  <1>3. ASSUME NEW s \in SUBSET T
        PROVE  G[s] = IF s = {} THEN 0 ELSE f[Pick(s)] + G[s \ {Pick(s)}]
    <2>1. CASE s = T
      BY <2>1, PickIn
    <2>2. CASE s # T
      <3>1. SumRec(f, s, h(s))
        BY <1>2, <2>2
      <3> HIDE DEF h
      <3>2. CASE s = {}
        BY <2>2, <3>1, <3>2 DEF SumRec
      <3>3. CASE s # {}
        <4> DEFINE u == s \ {Pick(s)}
        <4>1. u \in SUBSET T /\ u # T /\ u \subseteq s
          BY <3>3, PickIn
        <4>2. SumRec(f, u, h(u)) /\ IsFiniteSet(s)
          BY <1>1, <1>2, <4>1, FS_Subset
        <4>3. h(s)[u] = h(u)[u]
          BY <3>1, <4>1, <4>2, SumAgree
        <4>4. h(s)[s] = f[Pick(s)] + h(s)[u]
          BY <3>1, <3>3 DEF SumRec
        <4> QED
          BY <2>2, <3>3, <4>1, <4>3, <4>4
      <3> QED
        BY <3>2, <3>3
    <2> QED
      BY <2>1, <2>2
  <1>4. SumRec(f, T, G)
    <2>1. G = [s \in SUBSET T |-> G[s]]
      OBVIOUS
    <2> HIDE DEF G
    <2> QED
      BY <1>3, <2>1 DEF SumRec
  <1> QED
    BY <1>1, <1>4

\* A sum of naturals is a natural, and grows by one with any of its terms.
LEMMA SumIncrement ==
  ASSUME NEW S, IsFiniteSet(S), NEW f \in [S -> Nat], NEW s
  PROVE  /\ SumFunction(f) \in Nat
         /\ s \in S => SumFunction([f EXCEPT ![s] = @ + 1]) = SumFunction(f) + 1
  <1> DEFINE f1 == [f EXCEPT ![s] = @ + 1]
             g == CHOOSE h : SumRec(f, S, h)
             g1 == CHOOSE h : SumRec(f1, S, h)
             Bad == {T \in SUBSET S : ~ (g[T] \in Nat /\ g1[T] = g[T] + (IF s \in T THEN 1 ELSE 0))}
  <1>1. SumRec(f, S, g) /\ SumRec(f1, S, g1)
    BY SumExists
  <1>2. SumFunction(f) = g[S] /\ SumFunction(f1) = g1[S]
    <2>1. DOMAIN f = S /\ DOMAIN f1 = S
      OBVIOUS
    <2> QED
      BY <2>1, SumUnfold
  <1> HIDE DEF g, g1
  <1>3. ASSUME NEW T \in Bad, \A U \in Bad : U \subseteq T => U = T PROVE FALSE
    <2>1. T # {}
      BY <1>1 DEF SumRec
    <2> DEFINE p == Pick(T)
               U == T \ {p}
    <2>2. p \in T /\ U \in SUBSET S /\ U \subseteq T /\ U # T /\ p \in S
      BY <2>1, PickIn
    <2>3. g[T] = f[p] + g[U] /\ g1[T] = f1[p] + g1[U]
      BY <1>1, <2>1 DEF SumRec
    <2>4. g[U] \in Nat /\ g1[U] = g[U] + (IF s \in U THEN 1 ELSE 0)
      BY <1>3, <2>2
    <2>5. f[p] \in Nat /\ f1[p] = f[p] + (IF p = s THEN 1 ELSE 0)
      BY <2>2
    <2>6. (s \in U) <=> (s \in T /\ p # s)
      OBVIOUS
    <2>7. T \in SUBSET S /\ ~ (g[T] \in Nat /\ g1[T] = g[T] + (IF s \in T THEN 1 ELSE 0))
      OBVIOUS
    <2> HIDE DEF U, p, f1, Bad
    <2> QED
      BY <2>2, <2>3, <2>4, <2>5, <2>6, <2>7
  <1>4. Bad = {}
    <2>1. Bad \subseteq SUBSET S
      OBVIOUS
    <2> HIDE DEF Bad
    <2> QED
      BY <1>3, <2>1, MinimalSubset
  <1> QED
    BY <1>2, <1>4

\* Executions are only ever counted up, and only EffectExecutionStarted does.
LEMMA NextAttempts ==
  ASSUME TypeOK, [Next]_vars
  PROVE  \/ /\ UNCHANGED attempts
            /\ agentLoop' => agentLoop \/ ToolCalls <= MaxToolCalls
         \/ /\ \E s \in Steps : attempts' = [attempts EXCEPT ![s] = @ + 1]
            /\ agentLoop' => agentLoop /\ ToolCalls < MaxToolCalls
  <1> USE DEF stepVars, loopVars
  <1>1. CASE PlanningNext
    BY <1>1 DEF PlanningNext, AgentLoopConfigured, ModelCallLifecycleConfigured,
                ModelCallReserved, ModelCallBecameUnknown, ModelCallRejected,
                ModelCallAbandoned, PlanAccepted, CompletionCandidateRecorded, StepPlanned
  <1>2. ASSUME NEW s \in Steps, NEW e \in Effects, EffectNext(s, e), ~ EffectExecutionStarted(s, e)
        PROVE  UNCHANGED <<attempts, agentLoop>>
    BY <1>2 DEF EffectNext, EffectIntentCommitted, InvocationMaterialUnavailable,
                EffectSucceeded, EffectFailed, EffectBecameUnknown,
                ReconciliationStarted, ReconciliationResolved, ManualInterventionRequired,
                VerificationRecorded
  <1>3. ASSUME NEW s \in Steps, NEW e \in Effects, EffectExecutionStarted(s, e)
        PROVE  /\ attempts' = [attempts EXCEPT ![s] = @ + 1]
               /\ agentLoop' => agentLoop /\ ToolCalls < MaxToolCalls
    BY <1>3 DEF EffectExecutionStarted
  <1>4. ASSUME NEW s \in Steps, NEW to, LegacyVerification(s, to)
        PROVE  UNCHANGED <<attempts, agentLoop>>
    BY <1>4 DEF LegacyVerification
  <1>5. CASE UNCHANGED vars
    BY <1>5 DEF vars
  <1> QED
    BY <1>1, <1>2, <1>3, <1>4, <1>5 DEF Next

\* Every step keeps the budget.
LEMMA BudgetNext == TypeOK /\ ToolCallBudget /\ [Next]_vars => ToolCallBudget'
  <1> SUFFICES ASSUME TypeOK, ToolCallBudget, [Next]_vars PROVE ToolCallBudget'
    OBVIOUS
  <1>1. CASE UNCHANGED attempts /\ (agentLoop' => agentLoop \/ ToolCalls <= MaxToolCalls)
    BY <1>1 DEF ToolCallBudget, ToolCalls
  <1>2. ASSUME NEW s \in Steps, attempts' = [attempts EXCEPT ![s] = @ + 1],
               agentLoop' => agentLoop /\ ToolCalls < MaxToolCalls
        PROVE  ToolCallBudget'
    <2>1. attempts \in [Steps -> Nat]
      BY DEF TypeOK
    <2>2. ToolCalls \in Nat /\ ToolCalls' = ToolCalls + 1
      BY <1>2, <2>1, StepsAssumption, SumIncrement DEF ToolCalls
    <2> QED
      BY <1>2, <2>2, BudgetAssumption DEF ToolCallBudget
  <1> QED
    BY <1>1, <1>2, NextAttempts

\* max_tool_calls bounds the executions of a configured run, those from before
\* AgentLoopConfigured and every retry included, whatever the number of steps.
THEOREM ToolCallsBounded == Spec => []ToolCallBudget
  <1>1. Init => ToolCallBudget
    BY DEF Init, ToolCallBudget
  <1> QED
    BY <1>1, BudgetNext, TypeCorrect, PTL DEF Spec

-----------------------------------------------------------------------------
(* How an event changes the graph *)

\* One step joins the graph, depending on steps that were there before.
Joined(s, deps) ==
    /\ Known' = Known \cup {s}
    /\ dependsOn' = [dependsOn EXCEPT ![s] = deps]

GraphEdge ==
    \/ Known' = Known /\ dependsOn' = dependsOn
    \/ FrontierDerivable'
    \/ \E s \in Steps \ Known, deps \in SUBSET Known : Joined(s, deps)

\* Planning events and the step graph.
LEMMA PlanningGraph ==
  ASSUME TypeOK, PlanningNext PROVE GraphEdge
  <1> USE DEF stepVars, graphVars, GraphEdge, Known
  <1>1. CASE AgentLoopConfigured
    BY <1>1 DEF AgentLoopConfigured
  <1>2. CASE ModelCallLifecycleConfigured
    BY <1>2 DEF ModelCallLifecycleConfigured
  <1>3. ASSUME NEW r, ModelCallReserved(r) PROVE GraphEdge
    BY <1>3 DEF ModelCallReserved
  <1>4. ASSUME NEW c, ModelCallBecameUnknown(c) PROVE GraphEdge
    BY <1>4 DEF ModelCallBecameUnknown
  <1>5. ASSUME NEW c, NEW staleHead, ModelCallRejected(c, staleHead) PROVE GraphEdge
    BY <1>5 DEF ModelCallRejected
  <1>6. ASSUME NEW c, ModelCallAbandoned(c) PROVE GraphEdge
    BY <1>6 DEF ModelCallAbandoned
  <1>7. ASSUME NEW d, PlanAccepted(d) PROVE GraphEdge
    <2>0. PICK new \in SUBSET (Steps \ Known) :
            \E deps \in [new -> SUBSET Steps], inv \in [new -> Invocation] :
                AcceptPlan(new, deps, inv)
      BY <1>7 DEF PlanAccepted
    <2>1. PICK deps \in [new -> SUBSET Steps], inv \in [new -> Invocation] :
            AcceptPlan(new, deps, inv)
      BY <2>0
    <2>2. Known' = Known \cup new
      BY <2>1 DEF AcceptPlan, AddSteps
    <2>3. receipt' = receipt
      BY <1>7 DEF PlanAccepted, evidenceVars
    <2>4. FrontierOk(Known \cup new, dependsOn', status', receipt)
      BY <2>1 DEF AcceptPlan
    <2> HIDE DEF Known
    <2>5. FrontierDerivable'
      BY <2>2, <2>3, <2>4 DEF FrontierDerivable
    <2> QED
      BY <2>5
  <1>8. ASSUME NEW d, CompletionCandidateRecorded(d) PROVE GraphEdge
    BY <1>8 DEF CompletionCandidateRecorded
  <1>9. ASSUME NEW s \in Steps, NEW deps \in SUBSET Steps, StepPlanned(s, deps)
        PROVE  GraphEdge
    <2>1. s \in Steps \ Known /\ deps \in SUBSET Known
      BY <1>9 DEF StepPlanned
    <2>2. Known' = Known \cup {s}
      BY <1>9 DEF StepPlanned, AddSteps
    <2>3. dependsOn' = [dependsOn EXCEPT ![s] = deps]
      BY <1>9 DEF StepPlanned, AddSteps, TypeOK
    <2> QED
      BY <2>1, <2>2, <2>3 DEF Joined
  <1> QED
    BY <1>1, <1>2, <1>3, <1>4, <1>5, <1>6, <1>7, <1>8, <1>9 DEF PlanningNext

\* Effect events and the step graph.
LEMMA EffectGraph ==
  ASSUME TypeOK, NEW s \in Steps, NEW e \in Effects, EffectNext(s, e)
  PROVE  Known' = Known /\ dependsOn' = dependsOn
  <1> USE DEF graphVars, Known, Move, At, TypeOK
  <1>1. ASSUME NEW i, NEW issuedAt, EffectIntentCommitted(s, i, issuedAt)
        PROVE  Known' = Known /\ dependsOn' = dependsOn
    BY <1>1 DEF EffectIntentCommitted
  <1>2. CASE InvocationMaterialUnavailable(s, e)
    BY <1>2 DEF InvocationMaterialUnavailable
  <1>3. CASE EffectExecutionStarted(s, e)
    BY <1>3 DEF EffectExecutionStarted
  <1>4. ASSUME NEW out, EffectSucceeded(s, e, out)
        PROVE  Known' = Known /\ dependsOn' = dependsOn
    BY <1>4 DEF EffectSucceeded
  <1>5. CASE EffectFailed(s, e)
    BY <1>5 DEF EffectFailed
  <1>6. CASE EffectBecameUnknown(s, e)
    BY <1>6 DEF EffectBecameUnknown
  <1>7. CASE ReconciliationStarted(s, e)
    BY <1>7 DEF ReconciliationStarted
  <1>8. ASSUME NEW resolution \in {"Applied", "NotApplied", "Failed"},
               ReconciliationResolved(s, e, resolution)
        PROVE  Known' = Known /\ dependsOn' = dependsOn
    BY <1>8 DEF ReconciliationResolved
  <1>9. CASE ManualInterventionRequired(s, e)
    BY <1>9 DEF ManualInterventionRequired
  <1>10. ASSUME NEW disposition \in {"Passed", "Failed", "Inconclusive"},
                VerificationRecorded(s, e, disposition)
         PROVE  Known' = Known /\ dependsOn' = dependsOn
    BY <1>10 DEF VerificationRecorded
  <1> QED
    BY <1>1, <1>2, <1>3, <1>4, <1>5, <1>6, <1>7, <1>8, <1>9, <1>10 DEF EffectNext

\* A step of the reducer and the step graph.
LEMMA NextGraph == TypeOK /\ [Next]_vars => GraphEdge
  <1> SUFFICES ASSUME TypeOK, [Next]_vars PROVE GraphEdge
    OBVIOUS
  <1>1. CASE PlanningNext
    BY <1>1, PlanningGraph
  <1>2. ASSUME NEW s \in Steps, NEW e \in Effects, EffectNext(s, e) PROVE GraphEdge
    BY <1>2, EffectGraph DEF GraphEdge
  <1>3. ASSUME NEW s \in Steps, NEW to \in {"Completed", "Failed"}, LegacyVerification(s, to)
        PROVE  GraphEdge
    BY <1>3 DEF GraphEdge, Known, LegacyVerification, Move, TypeOK, graphVars
  <1>4. CASE UNCHANGED vars
    BY <1>4 DEF GraphEdge, Known, vars, stepVars, graphVars
  <1> QED
    BY <1>1, <1>2, <1>3, <1>4 DEF Next

-----------------------------------------------------------------------------
(* The frontier can be derived *)

\* Adding a step whose dependencies are already there closes no cycle.
LEMMA JoinedAcyclic ==
  ASSUME NEW S, NEW deps, NEW after, NEW s, s \notin S,
         WellFormed(S, deps), Acyclic(S, deps),
         \A t \in S : after[t] = deps[t],
         after[s] \subseteq S
  PROVE  WellFormed(S \cup {s}, after) /\ Acyclic(S \cup {s}, after)
  <1>1. WellFormed(S \cup {s}, after)
    BY DEF WellFormed
  <1>2. ASSUME NEW T \in SUBSET (S \cup {s}), T # {}
        PROVE  \E t \in T : after[t] \cap T = {}
    <2>1. CASE T \ {s} = {}
      BY <1>2, <2>1
    <2>2. CASE T \ {s} # {}
      <3>1. PICK t \in T \ {s} : deps[t] \cap (T \ {s}) = {}
        BY <2>2 DEF Acyclic
      <3>2. after[t] = deps[t] /\ s \notin deps[t]
        BY <3>1 DEF WellFormed
      <3> QED
        BY <3>1, <3>2
    <2> QED
      BY <2>1, <2>2
  <1> QED
    BY <1>1, <1>2 DEF Acyclic

\* What released a dependent keeps releasing it.
LEMMA ReleaseKept ==
  ASSUME TypeOK, [Next]_vars, Known \subseteq Known'
  PROVE  SatisfiedOutcome(Known, status, receipt) \subseteq
            SatisfiedOutcome(Known', status', receipt')
  <1> SUFFICES ASSUME NEW s \in Known, status[s] = "Completed", receipt[s]
      PROVE  status'[s] = "Completed" /\ receipt'[s]
    BY DEF SatisfiedOutcome, ReceiptReleasesDependency
  <1>1. StepEdge(s)
    BY NextEdge DEF Known
  <1> QED
    BY <1>1 DEF StepEdge, Kept, RecordKept, Admitted, Committed, Executed, Observed,
                Uncertain, Resolved, Verified

\* No event makes a step act ahead of its dependencies.
LEMMA BypassedKept ==
  ASSUME TypeOK, FrontierDerivable, [Next]_vars, Known \subseteq Known'
  PROVE  Bypassed(Known', dependsOn', status', receipt') = {}
  <1> SUFFICES ASSUME NEW s \in Steps, status'[s] \in Started
      PROVE  dependsOn'[s] \subseteq SatisfiedOutcome(Known', status', receipt')
    BY DEF Bypassed, Known
  <1>1. StepEdge(s)
    BY NextEdge
  <1>2. SatisfiedOutcome(Known, status, receipt) \subseteq
            SatisfiedOutcome(Known', status', receipt')
    BY ReleaseKept
  <1>3. CASE status[s] \in Started
    <2>1. dependsOn[s] \subseteq SatisfiedOutcome(Known, status, receipt)
      BY <1>3 DEF FrontierDerivable, FrontierOk, Bypassed, Known, Started, StepStatus
    <2>2. dependsOn'[s] = dependsOn[s]
      BY <1>1, <1>3 DEF Started, StepStatus, StepEdge, Kept, Admitted, Committed, Executed,
                        Observed, Uncertain, Resolved, Verified
    <2> QED
      BY <1>2, <2>1, <2>2
  <1>4. CASE status[s] \notin Started
    <2>1. Committed(s)
      BY <1>1, <1>4 DEF Started, StepStatus, StepEdge, Kept, Admitted, Executed, Observed,
                        Uncertain, Resolved, Verified
    <2> QED
      BY <1>2, <2>1 DEF Committed
  <1> QED
    BY <1>3, <1>4

\* There is no step in the first state.
LEMMA FrontierInit == Init => FrontierDerivable
  BY DEF Init, FrontierDerivable, FrontierOk, WellFormed, Acyclic, Bypassed, Known

\* Every step keeps the frontier's invariant.
LEMMA FrontierNext == TypeOK /\ FrontierDerivable /\ [Next]_vars => FrontierDerivable'
  <1> SUFFICES ASSUME TypeOK, FrontierDerivable, [Next]_vars PROVE FrontierDerivable'
    OBVIOUS
  <1>1. CASE Known' = Known /\ dependsOn' = dependsOn
    <2>1. Bypassed(Known', dependsOn', status', receipt') = {}
      BY <1>1, BypassedKept
    <2> QED
      BY <1>1, <2>1 DEF FrontierDerivable, FrontierOk
  <1>2. ASSUME NEW s \in Steps \ Known, NEW deps \in SUBSET Known, Joined(s, deps)
        PROVE  FrontierDerivable'
    <2>1. Bypassed(Known', dependsOn', status', receipt') = {}
      BY <1>2, BypassedKept DEF Joined
    <2>2. WellFormed(Known', dependsOn') /\ Acyclic(Known', dependsOn')
      <3>1. dependsOn'[s] = deps /\ \A t \in Known : dependsOn'[t] = dependsOn[t]
        BY <1>2 DEF Joined, TypeOK, Known
      <3>2. WellFormed(Known, dependsOn) /\ Acyclic(Known, dependsOn)
        BY DEF FrontierDerivable, FrontierOk
      <3>3. /\ WellFormed(Known \cup {s}, dependsOn')
            /\ Acyclic(Known \cup {s}, dependsOn')
        BY <3>1, <3>2, JoinedAcyclic
      <3> QED
        BY <1>2, <3>3 DEF Joined
    <2> QED
      BY <2>1, <2>2 DEF FrontierDerivable, FrontierOk
  <1> QED
    BY <1>1, <1>2, NextGraph DEF GraphEdge

\* derive_frontier succeeds on the projection of every journal the reducer
\* accepts: the graph is well formed and acyclic, and no step acted ahead of a
\* dependency that is not receipt-completed.
THEOREM FrontierAlwaysDerivable == Spec => []FrontierDerivable
  BY FrontierInit, FrontierNext, TypeCorrect, PTL DEF Spec

-----------------------------------------------------------------------------
(* Quiescence *)

\* In an acyclic graph a planned step that waits has something to wait for.
LEMMA QuiescenceStep == TypeOK /\ FrontierDerivable => QuiescenceExplained
  <1> SUFFICES ASSUME TypeOK, FrontierDerivable,
                      Actionable(Known, dependsOn, status, receipt) = {},
                      BlockRoots(Known, status, receipt) = {}
      PROVE  Known = {} \/ AllStepsReceiptCompleted(Known, status, receipt)
    BY DEF QuiescenceExplained
  <1> DEFINE P == {s \in Known : status[s] = "Planned"}
  <1>1. \A s \in Known : status[s] \in StepStatus \ InFlight
    BY DEF Actionable, TypeOK, Known
  <1>2. \A s \in Known \ P : s \in SatisfiedOutcome(Known, status, receipt)
    BY <1>1 DEF BlockRoots, SatisfiedOutcome, StepStatus, InFlight, Terminal
  <1>3. P = {}
    <2> SUFFICES ASSUME P # {} PROVE FALSE
      OBVIOUS
    <2>1. PICK s \in P : dependsOn[s] \cap P = {}
      BY DEF FrontierDerivable, FrontierOk, Acyclic
    <2>2. dependsOn[s] \subseteq Known
      BY DEF FrontierDerivable, FrontierOk, WellFormed
    <2>3. dependsOn[s] \subseteq SatisfiedOutcome(Known, status, receipt)
      BY <1>2, <2>1, <2>2
    <2> QED
      BY <2>3 DEF Actionable, Admissible
  <1>4. SatisfiedOutcome(Known, status, receipt) = Known
    BY <1>2, <1>3 DEF SatisfiedOutcome
  <1> QED
    BY <1>4 DEF AllStepsReceiptCompleted

\* A run never stops with planned work that waits for nothing: when the frontier
\* offers no action, the graph is empty or receipt-completed, or a terminal step
\* withholds its receipt (terminal_quiescence, agent_loop.rs).
THEOREM QuiescenceAlwaysExplained == Spec => []QuiescenceExplained
  BY QuiescenceStep, FrontierAlwaysDerivable, TypeCorrect, PTL

-----------------------------------------------------------------------------
(* THE EFFECT RUNTIME *)

(* The inductive invariant *)

\* Where a process is in its operation, against the step it drives: it holds
\* the lease, so nobody committed anything since it loaded the head, and what
\* the sink told it is still true of the world.
ProcInv(p) ==
    LET s == target[p] IN
    /\ pc[p] # "Down" => lease = p
    /\ pc[p] \notin {"Down", "Ready"} => s \in Steps /\ view[p] = sequence
    /\ pc[p] \in {"Calling", "Landed", "Returned"} => status[s] = "Executing"
    /\ pc[p] = "Calling" => applied[s] = 0 /\ ~orphan[s]
    /\ pc[p] = "Landed" => applied[s] = 1
    /\ pc[p] = "Returned" =>
        /\ obs[p] \in {"Succeeded", "SucceededWithOutput", "Failed", "Unknown"}
        /\ obs[p] \in {"Succeeded", "SucceededWithOutput"} => applied[s] = 1
        /\ obs[p] = "Failed" => applied[s] = 0 /\ ~orphan[s]
    /\ pc[p] \in {"Querying", "Resolved"} => status[s] = "Reconciling"
    /\ pc[p] = "Resolved" =>
        /\ obs[p] \in {"Applied", "NotApplied", "Failed", "Inconclusive"}
        /\ obs[p] = "Applied" => applied[s] = 1
        /\ obs[p] \in {"NotApplied", "Failed"} => applied[s] = 0

\* What the journal says of a step, against the world: before an execution and
\* after a proof of absence the effect did not take place, before and after
\* verification it did, and a call that may still take effect belongs to a step
\* that nobody will execute again.
StepInv(s) ==
    /\ applied[s] + (IF orphan[s] THEN 1 ELSE 0) <= 1
    /\ status[s] \in {"Absent", "Planned", "IntentCommitted"} => applied[s] = 0
    /\ status[s] \in {"Validating", "Completed"} => applied[s] = 1
    /\ orphan[s] => ~SupportsQuery(s) /\ status[s] \in {"Executing", "EffectUnknown", "ManualRequired"}
    /\ status[s] = "Reconciling" => SupportsQuery(s)

RInv == (\A p \in Procs : ProcInv(p)) /\ (\A s \in Steps : StepInv(s))

-----------------------------------------------------------------------------
(* The runtime appends to the journal of the reducer *)

\* The driver's step is a step of the graph.
LEMMA DrivesStep == ASSUME NEW p, NEW s, Drives(p, s) PROVE s \in Steps
  BY DEF Drives, NextActions, Actionable, Admissible, Known

\* An event that names the step's own effect names an effect.
LEMMA EffectOf ==
  ASSUME TypeOK, NEW s \in Steps, NEW from, At(s, intent[s].effect, from)
  PROVE  intent[s].effect \in Effects
  BY NoneAssumption DEF At, TypeOK, Intent

\* Every step of the runtime is an event of the reducer or leaves the journal
\* alone.
LEMMA RuntimeStep ==
  ASSUME RTypeOK, RInv, [RNext]_rvars PROVE [Next]_vars
  <1>0. TypeOK
    BY DEF RTypeOK
  <1>1. ASSUME NEW p \in Procs,
               StartExecution(p) \/ CommitOutcome(p) \/ CommitResolution(p)
        PROVE  Next
    <2> DEFINE s == target[p]
               e == intent[s].effect
    <2>0. s \in Steps
      BY <1>1 DEF StartExecution, CommitOutcome, CommitResolution, RInv, ProcInv
    <2>1. \/ EffectExecutionStarted(s, e) \/ \E out \in BOOLEAN : EffectSucceeded(s, e, out)
          \/ EffectFailed(s, e) \/ EffectBecameUnknown(s, e)
          \/ \E resolution \in {"Applied", "NotApplied", "Failed"} : ReconciliationResolved(s, e, resolution)
          \/ ManualInterventionRequired(s, e)
      BY <1>1 DEF StartExecution, CommitOutcome, CommitResolution, RInv, ProcInv
    <2>2. e \in Effects
      BY <1>0, <2>0, <2>1, EffectOf DEF EffectExecutionStarted, EffectSucceeded, EffectFailed,
            EffectBecameUnknown, ReconciliationResolved, ManualInterventionRequired
    <2>3. EffectNext(s, e)
      BY <2>1 DEF EffectNext
    <2> QED
      BY <2>0, <2>2, <2>3 DEF Next
  <1>2. ASSUME NEW p \in Procs, NEW s \in Steps, NEW disposition \in {"Passed", "Failed", "Inconclusive"},
               \/ MarkRecoveredExecutionUnknown(p, s) \/ GiveUp(p, s) \/ BeginReconciliation(p, s)
               \/ VerifyStep(p, s, disposition) \/ MarkMaterialUnavailable(p, s)
        PROVE  Next
    <2> DEFINE e == intent[s].effect
    <2>1. \/ InvocationMaterialUnavailable(s, e) \/ EffectBecameUnknown(s, e)
          \/ ManualInterventionRequired(s, e) \/ ReconciliationStarted(s, e)
          \/ VerificationRecorded(s, e, disposition)
      BY <1>2 DEF MarkRecoveredExecutionUnknown, GiveUp, BeginReconciliation, VerifyStep,
                  MarkMaterialUnavailable
    <2>2. e \in Effects
      BY <1>0, <2>1, EffectOf DEF InvocationMaterialUnavailable, EffectBecameUnknown,
            ManualInterventionRequired, ReconciliationStarted, VerificationRecorded
    <2>3. EffectNext(s, e)
      BY <2>1 DEF EffectNext
    <2> QED
      BY <2>2, <2>3 DEF Next
  <1>3. ASSUME NEW p \in Procs, NEW i \in Intents, AuthorizeAndCommit(p, i) PROVE Next
    <2>1. target[p] \in Steps /\ view[p] \in LoadedHeads
      BY <1>3 DEF AuthorizeAndCommit, RInv, ProcInv, LoadedHeads
    <2>2. PICK e \in Effects, a \in Actions, shape \in IntentShapes :
            i = [effect |-> e, action |-> a, shape |-> shape]
      BY DEF Intents
    <2>3. EffectNext(target[p], e)
      BY <1>3, <2>1, <2>2 DEF AuthorizeAndCommit, EffectNext
    <2> QED
      BY <2>1, <2>3 DEF Next
  <1>4. ASSUME NEW p \in Procs, NEW s \in Steps, NEW deps \in SUBSET Steps, PlanStep(p, s, deps)
        PROVE  Next
    BY <1>4 DEF PlanStep, Next, PlanningNext
  <1>4a. ASSUME NEW p \in Procs, ConfigureLoop(p) PROVE Next
    BY <1>4a DEF ConfigureLoop, Next, PlanningNext
  <1>5. ASSUME NEW p \in Procs,
               Acquire(p) \/ Stop(p) \/ StoreFails(p) \/ SinkApplies(p) \/ ResolutionRefused(p)
        PROVE  UNCHANGED vars
    BY <1>5 DEF Acquire, Stop, StoreFails, SinkApplies, ResolutionRefused
  <1>6. ASSUME NEW p \in Procs, NEW o, SinkReturns(p, o) \/ SinkAnswers(p, o) PROVE UNCHANGED vars
    BY <1>6 DEF SinkReturns, SinkAnswers
  <1>7. ASSUME NEW p \in Procs, NEW s \in Steps,
               \/ PrepareAdmission(p, s) \/ PrepareEffect(p, s) \/ ResumeReconciliation(p, s)
               \/ Refuse(p, s)
        PROVE  UNCHANGED vars
    BY <1>7 DEF PrepareAdmission, PrepareEffect, ResumeReconciliation, Refuse
  <1>8. ASSUME NEW s \in Steps, OrphanLands(s) PROVE UNCHANGED vars
    BY <1>8 DEF OrphanLands
  <1>9. CASE UNCHANGED rvars
    BY <1>9 DEF rvars
  <1> QED
    BY <1>1, <1>2, <1>3, <1>4, <1>4a, <1>5, <1>6, <1>7, <1>8, <1>9 DEF RNext, DriveNext

-----------------------------------------------------------------------------
(* Type correctness *)

\* The part of RTypeOK that is not the reducer's.
RuntimeType ==
    /\ lease \in Procs \cup {None}
    /\ pc \in [Procs -> {"Down", "Ready", "Approving", "Prepared", "Calling",
                         "Landed", "Returned", "Querying", "Resolved"}]
    /\ view \in [Procs -> Nat]
    /\ target \in [Procs -> Steps \cup {None}]
    /\ obs \in [Procs -> Observations]
    /\ applied \in [Steps -> Nat]
    /\ orphan \in [Steps -> BOOLEAN]
    /\ stops \in Nat

\* The operation ends in a state where a process has none.
LEMMA LeaveType ==
  ASSUME RuntimeType, NEW p \in Procs, NEW at \in {"Down", "Ready"}, Leave(p, at)
  PROVE  /\ pc' \in [Procs -> {"Down", "Ready", "Approving", "Prepared", "Calling",
                               "Landed", "Returned", "Querying", "Resolved"}]
         /\ view' \in [Procs -> Nat]
         /\ target' \in [Procs -> Steps \cup {None}]
         /\ obs' \in [Procs -> Observations]
  BY DEF RuntimeType, Leave, Observations

\* Entering a step leaves the locals of a process well typed.
LEMMA EnterType ==
  ASSUME RuntimeType, sequence' \in Nat, NEW p \in Procs, NEW s \in Steps,
         NEW at \in {"Approving", "Prepared", "Calling", "Querying"}, Enter(p, s, at)
  PROVE  /\ pc' \in [Procs -> {"Down", "Ready", "Approving", "Prepared", "Calling",
                               "Landed", "Returned", "Querying", "Resolved"}]
         /\ view' \in [Procs -> Nat]
         /\ target' \in [Procs -> Steps \cup {None}]
  BY DEF RuntimeType, Enter

\* Every step leaves the locals of the processes and the world well typed.
LEMMA RuntimeTypeNext ==
  ASSUME RTypeOK, RInv, [RNext]_rvars PROVE RuntimeType'
  <1>0. RuntimeType
    BY DEF RTypeOK, RuntimeType
  <1>1. sequence' \in Nat
    BY RuntimeStep, TypeNext DEF RTypeOK, TypeOK
  <1> USE <1>0 DEF procVars, worldVars
  <1>2. ASSUME NEW p \in Procs, Acquire(p) PROVE RuntimeType'
    BY <1>2 DEF Acquire, RuntimeType
  <1>3. ASSUME NEW p \in Procs, Stop(p) PROVE RuntimeType'
    <2>1. orphan' \in [Steps -> BOOLEAN]
      <3>1. CASE UNCHANGED orphan
        BY <3>1 DEF RuntimeType
      <3>2. CASE orphan' = [orphan EXCEPT ![target[p]] = TRUE]
        BY <3>2 DEF RuntimeType
      <3> QED
        BY <1>3, <3>1, <3>2 DEF Stop
    <2>2. lease' \in Procs \cup {None} /\ stops' \in Nat
      BY <1>3 DEF Stop, RuntimeType
    <2> QED
      BY <1>3, <2>1, <2>2, LeaveType DEF Stop, RuntimeType
  <1>4. ASSUME NEW p \in Procs, StoreFails(p) PROVE RuntimeType'
    <2>1. stops' \in Nat
      BY <1>4 DEF StoreFails, RuntimeType
    <2> QED
      BY <1>4, <2>1, LeaveType DEF StoreFails, RuntimeType
  <1>5. ASSUME NEW p \in Procs, SinkApplies(p) PROVE RuntimeType'
    <2>1. target[p] \in Steps
      BY <1>5 DEF SinkApplies, RInv, ProcInv
    <2>2. applied' \in [Steps -> Nat]
      BY <1>5, <2>1 DEF SinkApplies, RuntimeType
    <2> QED
      BY <1>5, <2>2 DEF SinkApplies, RuntimeType
  <1>6. ASSUME NEW s \in Steps, OrphanLands(s) PROVE RuntimeType'
    BY <1>6 DEF OrphanLands, RuntimeType
  <1>7. ASSUME NEW p \in Procs, NEW o \in {"Succeeded", "SucceededWithOutput", "Failed", "Unknown"},
               SinkReturns(p, o)
        PROVE  RuntimeType'
    <2>1. orphan' \in [Steps -> BOOLEAN]
      <3>1. CASE UNCHANGED orphan
        BY <3>1 DEF RuntimeType
      <3>2. CASE orphan' = [orphan EXCEPT ![target[p]] = TRUE]
        BY <3>2 DEF RuntimeType
      <3> QED
        BY <1>7, <3>1, <3>2 DEF SinkReturns
    <2> QED
      BY <1>7, <2>1 DEF SinkReturns, RuntimeType, Observations
  <1>8. ASSUME NEW p \in Procs, NEW o \in {"Applied", "NotApplied", "Failed", "Inconclusive"},
               SinkAnswers(p, o)
        PROVE  RuntimeType'
    BY <1>8 DEF SinkAnswers, RuntimeType, Observations
  <1>9. ASSUME NEW p \in Procs, CommitOutcome(p) \/ CommitResolution(p) \/ ResolutionRefused(p)
        PROVE  RuntimeType'
    BY <1>9, LeaveType DEF CommitOutcome, CommitResolution, ResolutionRefused, RuntimeType
  <1>10. ASSUME NEW p \in Procs, NEW i, AuthorizeAndCommit(p, i) PROVE RuntimeType'
    BY <1>10, LeaveType DEF AuthorizeAndCommit, RuntimeType
  <1>11. ASSUME NEW p \in Procs, StartExecution(p) PROVE RuntimeType'
    <2>1. target[p] \in Steps
      BY <1>11 DEF StartExecution, RInv, ProcInv
    <2> QED
      BY <1>1, <1>11, <2>1, EnterType DEF StartExecution, RuntimeType
  <1>12. ASSUME NEW p \in Procs, NEW s \in Steps,
                \/ PrepareAdmission(p, s) \/ PrepareEffect(p, s)
                \/ BeginReconciliation(p, s) \/ ResumeReconciliation(p, s)
         PROVE  RuntimeType'
    BY <1>1, <1>12, EnterType DEF PrepareAdmission, PrepareEffect, BeginReconciliation,
          ResumeReconciliation, RuntimeType
  <1>13. ASSUME NEW p \in Procs, NEW s, NEW disposition, NEW deps,
                \/ MarkRecoveredExecutionUnknown(p, s) \/ GiveUp(p, s) \/ PlanStep(p, s, deps)
                \/ VerifyStep(p, s, disposition) \/ MarkMaterialUnavailable(p, s)
         PROVE  RuntimeType'
    BY <1>13 DEF MarkRecoveredExecutionUnknown, GiveUp, VerifyStep, MarkMaterialUnavailable,
          PlanStep, RuntimeType
  <1>14. ASSUME NEW p \in Procs, NEW s, Refuse(p, s) PROVE RuntimeType'
    BY <1>14, LeaveType DEF Refuse, RuntimeType
  <1>15. ASSUME NEW p \in Procs, ConfigureLoop(p) PROVE RuntimeType'
    BY <1>15 DEF ConfigureLoop, RuntimeType
  <1>16. CASE UNCHANGED rvars
    BY <1>16 DEF rvars, RuntimeType
  <1> QED
    BY <1>2, <1>3, <1>4, <1>5, <1>6, <1>7, <1>8, <1>9, <1>10, <1>11, <1>12, <1>13, <1>14, <1>15,
       <1>16
       DEF RNext, DriveNext

-----------------------------------------------------------------------------
(* Preservation of the invariant *)

\* The lease excludes: next to a process that is up, every other one is down.
LEMMA OthersDown ==
  ASSUME RInv, NEW p \in Procs, pc[p] # "Down"
  PROVE  lease = p /\ \A q \in Procs : q # p => pc[q] = "Down"
  BY DEF RInv, ProcInv

\* A process that ends its operation knows nothing any more.
LEMMA ProcLeft ==
  ASSUME RTypeOK, RInv, NEW p \in Procs, pc[p] # "Down", NEW at \in {"Down", "Ready"},
         Leave(p, at), at = "Ready" => lease' = lease
  PROVE  \A q \in Procs : ProcInv(q)'
  <1>1. pc'[p] = at /\ \A q \in Procs : q # p => pc'[q] = "Down"
    BY OthersDown DEF Leave, RTypeOK
  <1>2. pc'[p] # "Down" => lease' = p
    BY <1>1, OthersDown
  <1> QED
    BY <1>1, <1>2 DEF ProcInv

\* A process between operations keeps the lease and depends on nothing else.
LEMMA ProcReady ==
  ASSUME RInv, NEW p \in Procs, pc[p] = "Ready", UNCHANGED <<pc, lease>>
  PROVE  \A q \in Procs : ProcInv(q)'
  BY OthersDown DEF ProcInv, RInv

\* A process that loads the head for an operation on s.
LEMMA ProcEntered ==
  ASSUME RTypeOK, RInv, NEW p \in Procs, pc[p] # "Down", UNCHANGED lease, NEW s \in Steps,
         NEW at \in {"Approving", "Prepared", "Calling", "Querying"}, Enter(p, s, at),
         at = "Calling" => status'[s] = "Executing" /\ applied'[s] = 0 /\ ~ orphan'[s],
         at = "Querying" => status'[s] = "Reconciling"
  PROVE  \A q \in Procs : ProcInv(q)'
  <1>1. pc'[p] = at /\ \A q \in Procs : q # p => pc'[q] = "Down"
    BY OthersDown DEF Enter, RTypeOK
  <1>2. view'[p] = sequence' /\ target'[p] = s /\ lease' = p
    BY OthersDown DEF Enter, RTypeOK
  <1> QED
    BY <1>1, <1>2 DEF ProcInv

\* The journal moves step s to a status the world agrees with.
LEMMA StepMoved ==
  ASSUME RTypeOK, RInv, NEW s \in Steps, NEW to, Move(s, to), UNCHANGED <<intent, applied, orphan>>,
         to \in {"Absent", "Planned", "IntentCommitted"} => applied[s] = 0,
         to \in {"Validating", "Completed"} => applied[s] = 1,
         orphan[s] => to \in {"Executing", "EffectUnknown", "ManualRequired"},
         to = "Reconciling" => SupportsQuery(s)
  PROVE  \A t \in Steps : StepInv(t)'
  <1> SUFFICES ASSUME NEW t \in Steps PROVE StepInv(t)'
    OBVIOUS
  <1>1. StepInv(t) /\ status'[s] = to /\ (t # s => status'[t] = status[t])
    BY DEF RInv, Move, RTypeOK, TypeOK
  <1> QED
    BY <1>1 DEF StepInv, SupportsQuery

\* Steps of which neither the journal nor the world changed.
LEMMA StepsKept ==
  ASSUME RInv, UNCHANGED <<status, intent, applied, orphan>>
  PROVE  \A t \in Steps : StepInv(t)'
  BY DEF RInv, StepInv, SupportsQuery

\* In the first state no process runs and no effect is under way.
LEMMA RInitInv == RInit => RTypeOK /\ RInv
  <1> SUFFICES ASSUME RInit PROVE RTypeOK /\ RInv
    OBVIOUS
  <1>1. TypeOK
    BY TypeInit DEF RInit
  <1>2. RTypeOK
    BY <1>1 DEF RInit, RTypeOK, Observations
  <1>3. RInv
    BY DEF RInit, Init, RInv, ProcInv, StepInv
  <1> QED
    BY <1>2, <1>3

\* Steps of the process and of the sink that leave the journal alone.
LEMMA QuietInv ==
  ASSUME RTypeOK, RInv, NEW p \in Procs,
         \/ Acquire(p) \/ StoreFails(p) \/ ResolutionRefused(p)
         \/ \E s \in Steps :
                \/ PrepareAdmission(p, s) \/ PrepareEffect(p, s) \/ ResumeReconciliation(p, s)
                \/ Refuse(p, s)
         \/ \E o \in {"Applied", "NotApplied", "Failed", "Inconclusive"} : SinkAnswers(p, o)
  PROVE  RInv'
  <1> USE DEF worldVars
  <1>0. UNCHANGED <<sequence, status, intent, applied, orphan>>
    BY DEF Acquire, StoreFails, ResolutionRefused, PrepareAdmission, PrepareEffect,
           ResumeReconciliation, Refuse, SinkAnswers, vars, stepVars, grantVars
  <1>1. \A t \in Steps : StepInv(t)'
    BY <1>0, StepsKept
  <1>2. CASE Acquire(p)
    <2>1. \A q \in Procs : pc[q] = "Down"
      BY <1>2, RuntimeAssumption DEF Acquire, RInv, ProcInv
    <2>2. lease' = p /\ pc'[p] = "Ready" /\ \A q \in Procs : q # p => pc'[q] = "Down"
      BY <1>2, <2>1 DEF Acquire, RTypeOK
    <2> QED
      BY <1>1, <2>2 DEF RInv, ProcInv
  <1>3. CASE StoreFails(p) \/ ResolutionRefused(p)
    BY <1>1, <1>3, ProcLeft DEF StoreFails, ResolutionRefused, RInv
  <1>3a. ASSUME NEW s \in Steps, Refuse(p, s) PROVE RInv'
    <2>1. pc[p] # "Down" /\ Leave(p, "Down")
      BY <1>3a DEF Refuse, Drives
    <2> QED
      BY <1>1, <2>1, ProcLeft DEF RInv
  <1>4. ASSUME NEW s \in Steps,
               PrepareAdmission(p, s) \/ PrepareEffect(p, s) \/ ResumeReconciliation(p, s)
        PROVE  RInv'
    BY <1>0, <1>1, <1>4, ProcEntered DEF PrepareAdmission, PrepareEffect, ResumeReconciliation,
          Drives, RInv
  <1>5. ASSUME NEW o \in {"Applied", "NotApplied", "Failed", "Inconclusive"}, SinkAnswers(p, o)
        PROVE  RInv'
    <2>1. /\ pc'[p] = "Resolved" /\ obs'[p] = o /\ target'[p] = target[p] /\ view'[p] = view[p]
          /\ lease' = lease /\ \A q \in Procs : q # p => pc'[q] = "Down"
      BY <1>5, OthersDown DEF SinkAnswers, RTypeOK
    <2>2. lease = p /\ target[p] \in Steps /\ view[p] = sequence /\ status[target[p]] = "Reconciling"
      BY <1>5 DEF SinkAnswers, RInv, ProcInv
    <2>3. o = "Applied" => applied[target[p]] = 1
      BY <1>5, <2>2 DEF SinkAnswers, RInv, StepInv, RTypeOK
    <2>4. o \in {"NotApplied", "Failed"} => applied[target[p]] = 0
      BY <1>5 DEF SinkAnswers
    <2> QED
      BY <1>0, <1>1, <2>1, <2>2, <2>3, <2>4 DEF RInv, ProcInv
  <1> QED
    BY <1>2, <1>3, <1>3a, <1>4, <1>5

\* The effect takes place, or its call is left to itself.
LEMMA WorldInv ==
  ASSUME RTypeOK, RInv, NEW p \in Procs,
         \/ SinkApplies(p) \/ Stop(p)
         \/ \E o \in {"Succeeded", "SucceededWithOutput", "Failed", "Unknown"} : SinkReturns(p, o)
  PROVE  RInv'
  <1> DEFINE s == target[p]
  <1>0. UNCHANGED <<sequence, status, intent>>
    BY DEF SinkApplies, Stop, SinkReturns, vars, stepVars, grantVars
  <1>1. pc[p] # "Down" /\ lease = p /\ \A q \in Procs : q # p => pc[q] = "Down"
    BY OthersDown DEF SinkApplies, Stop, SinkReturns
  <1>2. pc[p] \in {"Calling", "Landed"} => s \in Steps /\ view[p] = sequence /\ status[s] = "Executing"
    BY DEF RInv, ProcInv
  <1>3. pc[p] = "Calling" => applied[s] = 0 /\ ~ orphan[s]
    BY DEF RInv, ProcInv
  <1>4. pc[p] = "Landed" => applied[s] = 1 /\ ~ orphan[s]
    BY <1>2 DEF RInv, ProcInv, StepInv, RTypeOK
  <1>5. ASSUME UNCHANGED applied,
               \/ UNCHANGED orphan
               \/ /\ orphan' = [orphan EXCEPT ![s] = TRUE]
                  /\ pc[p] = "Calling" /\ ~ SupportsQuery(s)
        PROVE  \A t \in Steps : StepInv(t)'
    <2>1. CASE UNCHANGED orphan
      BY <1>0, <1>5, <2>1, StepsKept
    <2>2. CASE /\ orphan' = [orphan EXCEPT ![s] = TRUE]
               /\ pc[p] = "Calling" /\ ~ SupportsQuery(s)
      <3>1. \A t \in Steps : orphan'[t] <=> (orphan[t] \/ t = s)
        BY <1>2, <2>2 DEF RTypeOK
      <3> HIDE DEF s
      <3> QED
        BY <1>0, <1>2, <1>3, <1>5, <2>2, <3>1 DEF RInv, StepInv, SupportsQuery
    <2> QED
      BY <1>5, <2>1, <2>2
  <1>6. CASE SinkApplies(p)
    <2>1. pc[p] = "Calling" /\ UNCHANGED <<lease, view, target, obs, orphan>>
      BY <1>6 DEF SinkApplies
    <2>2. pc'[p] = "Landed" /\ \A q \in Procs : q # p => pc'[q] = "Down"
      BY <1>1, <1>6 DEF SinkApplies, RTypeOK
    <2>3. applied'[s] = 1 /\ \A t \in Steps : t # s => applied'[t] = applied[t]
      BY <1>2, <1>3, <1>6, <2>1 DEF SinkApplies, RTypeOK
    <2>4. \A t \in Steps : StepInv(t)'
      <3> HIDE DEF s
      <3> QED
        BY <1>0, <1>2, <1>3, <2>1, <2>3 DEF RInv, StepInv, SupportsQuery
    <2>5. \A q \in Procs : ProcInv(q)'
      BY <1>0, <1>1, <1>2, <2>1, <2>2, <2>3 DEF ProcInv
    <2> QED
      BY <2>4, <2>5 DEF RInv
  <1>7. CASE Stop(p)
    <2>1. \A t \in Steps : StepInv(t)'
      BY <1>5, <1>7 DEF Stop
    <2> QED
      BY <1>1, <1>7, <2>1, ProcLeft DEF Stop, RInv
  <1>8. ASSUME NEW o \in {"Succeeded", "SucceededWithOutput", "Failed", "Unknown"}, SinkReturns(p, o)
        PROVE  RInv'
    <2>1. \A t \in Steps : StepInv(t)'
      BY <1>5, <1>8 DEF SinkReturns
    <2>2. pc[p] \in {"Calling", "Landed"} /\ UNCHANGED <<lease, view, target, applied>>
      BY <1>8 DEF SinkReturns
    <2>3. pc'[p] = "Returned" /\ obs'[p] = o /\ \A q \in Procs : q # p => pc'[q] = "Down"
      BY <1>1, <1>8 DEF SinkReturns, RTypeOK
    <2>4. o \in {"Succeeded", "SucceededWithOutput"} => applied[s] = 1
      BY <1>4, <1>8 DEF SinkReturns
    <2>5. o = "Failed" => applied[s] = 0 /\ ~ orphan'[s]
      BY <1>3, <1>8 DEF SinkReturns
    <2> HIDE DEF s
    <2>6. \A q \in Procs : ProcInv(q)'
      BY <1>0, <1>1, <1>2, <2>2, <2>3, <2>4, <2>5 DEF ProcInv, s
    <2> QED
      BY <2>1, <2>6 DEF RInv
  <1> QED
    BY <1>6, <1>7, <1>8

\* A call nobody waits for takes effect: its step is not being executed again.
LEMMA OrphanInv ==
  ASSUME RTypeOK, RInv, NEW s \in Steps, OrphanLands(s) PROVE RInv'
  <1>0. UNCHANGED <<sequence, status, intent, lease, pc, view, target, obs>>
    BY DEF OrphanLands, vars, stepVars, grantVars, procVars
  <1>1. orphan[s] /\ applied[s] = 0
    BY DEF OrphanLands, RInv, StepInv, RTypeOK
  <1>2. /\ applied'[s] = 1 /\ ~ orphan'[s]
        /\ \A t \in Steps : t # s => applied'[t] = applied[t] /\ orphan'[t] = orphan[t]
    BY <1>1 DEF OrphanLands, RTypeOK
  <1>3. \A t \in Steps : StepInv(t)'
    BY <1>0, <1>1, <1>2 DEF RInv, StepInv, SupportsQuery
  <1>4. ASSUME NEW p \in Procs PROVE ProcInv(p)'
    <2>1. ProcInv(p) /\ StepInv(s)
      BY DEF RInv
    <2>2. CASE target[p] = s
      BY <1>0, <1>1, <1>2, <2>1, <2>2 DEF ProcInv, StepInv
    <2>3. CASE target[p] # s
      BY <1>0, <1>2, <2>1, <2>3 DEF ProcInv
    <2> QED
      BY <2>2, <2>3
  <1> QED
    BY <1>3, <1>4 DEF RInv

\* Events a process appends for the step it drives at the frontier.
LEMMA DriveInv ==
  ASSUME RTypeOK, RInv, NEW p \in Procs, NEW s \in Steps,
         \/ MarkMaterialUnavailable(p, s) \/ MarkRecoveredExecutionUnknown(p, s) \/ GiveUp(p, s)
         \/ BeginReconciliation(p, s)
         \/ \E disposition \in {"Passed", "Failed", "Inconclusive"} : VerifyStep(p, s, disposition)
  PROVE  RInv'
  <1> USE DEF worldVars, procVars, grantVars
  <1>0. pc[p] = "Ready" /\ lease = p /\ StepInv(s) /\ UNCHANGED <<lease, applied, orphan>>
    BY DEF MarkMaterialUnavailable, MarkRecoveredExecutionUnknown, GiveUp, BeginReconciliation,
           VerifyStep, Drives, RInv
  <1>1. CASE MarkMaterialUnavailable(p, s)
    <2>1. Move(s, "ManualRequired") /\ UNCHANGED <<intent, applied, orphan, pc>>
      BY <1>1 DEF MarkMaterialUnavailable, InvocationMaterialUnavailable
    <2> QED
      BY <1>0, <2>1, StepMoved, ProcReady DEF RInv
  <1>2. CASE MarkRecoveredExecutionUnknown(p, s)
    <2>1. Move(s, "EffectUnknown") /\ UNCHANGED <<intent, applied, orphan, pc>>
      BY <1>2 DEF MarkRecoveredExecutionUnknown, EffectBecameUnknown
    <2> QED
      BY <1>0, <2>1, StepMoved, ProcReady DEF RInv
  <1>3. CASE GiveUp(p, s)
    <2>1. Move(s, "ManualRequired") /\ UNCHANGED <<intent, applied, orphan, pc>>
      BY <1>3 DEF GiveUp, ManualInterventionRequired
    <2> QED
      BY <1>0, <2>1, StepMoved, ProcReady DEF RInv
  <1>4. CASE BeginReconciliation(p, s)
    <2>1. Move(s, "Reconciling") /\ UNCHANGED <<intent, applied, orphan>> /\ SupportsQuery(s)
      BY <1>4 DEF BeginReconciliation, ReconciliationStarted
    <2>2. ~ orphan[s] /\ status'[s] = "Reconciling"
      BY <1>0, <2>1 DEF StepInv, Move, RTypeOK, TypeOK
    <2>3. \A t \in Steps : StepInv(t)'
      BY <2>1, <2>2, StepMoved
    <2>4. \A q \in Procs : ProcInv(q)'
      BY <1>0, <1>4, <2>2, ProcEntered DEF BeginReconciliation
    <2> QED
      BY <2>3, <2>4 DEF RInv
  <1>5. ASSUME NEW disposition \in {"Passed", "Failed", "Inconclusive"}, VerifyStep(p, s, disposition)
        PROVE  RInv'
    <2>1. status[s] = "Validating" /\ UNCHANGED <<intent, applied, orphan, pc>>
      BY <1>5 DEF VerifyStep, VerificationRecorded, At
    <2>2. Move(s, "Completed") \/ Move(s, "Failed") \/ Move(s, "ManualRequired")
      BY <1>5 DEF VerifyStep, VerificationRecorded
    <2>3. applied[s] = 1 /\ ~ orphan[s]
      BY <1>0, <2>1 DEF StepInv
    <2>4. \A t \in Steps : StepInv(t)'
      BY <2>1, <2>2, <2>3, StepMoved
    <2> QED
      BY <1>0, <2>1, <2>4, ProcReady DEF RInv
  <1> QED
    BY <1>1, <1>2, <1>3, <1>4, <1>5

\* Events a process appends for the operation it prepared.
LEMMA CommitInv ==
  ASSUME RTypeOK, RInv, NEW p \in Procs, StartExecution(p) \/ CommitOutcome(p) \/ CommitResolution(p)
  PROVE  RInv'
  <1> DEFINE s == target[p]
  <1> USE DEF worldVars, grantVars
  <1>0. s \in Steps /\ StepInv(s) /\ ProcInv(p) /\ pc[p] # "Down"
    BY DEF StartExecution, CommitOutcome, CommitResolution, RInv, ProcInv
  <1>m. ASSUME NEW to, Move(s, to), UNCHANGED <<intent, applied, orphan>>,
               to \in {"Absent", "Planned", "IntentCommitted"} => applied[s] = 0,
               to \in {"Validating", "Completed"} => applied[s] = 1,
               orphan[s] => to \in {"Executing", "EffectUnknown", "ManualRequired"},
               to # "Reconciling"
        PROVE  \A t \in Steps : StepInv(t)'
    <2> HIDE DEF s
    <2> QED
      BY <1>0, <1>m, StepMoved
  <1>1. CASE StartExecution(p)
    <2>1. status[s] = "IntentCommitted" /\ Move(s, "Executing") /\ UNCHANGED <<intent, applied, orphan>>
      BY <1>1 DEF StartExecution, EffectExecutionStarted, At
    <2>2. applied[s] = 0 /\ ~ orphan[s] /\ status'[s] = "Executing"
      BY <1>0, <2>1 DEF StepInv, Move, RTypeOK, TypeOK
    <2>3. \A t \in Steps : StepInv(t)'
      BY <1>0, <2>1, <2>2, <1>m
    <2>4. \A q \in Procs : ProcInv(q)'
      BY <1>0, <1>1, <2>1, <2>2, ProcEntered DEF StartExecution
    <2> QED
      BY <2>3, <2>4 DEF RInv
  <1>2. CASE CommitOutcome(p)
    <2> DEFINE o == Classified(s, obs[p])
    <2>0. UNCHANGED <<intent, applied, orphan>>
      BY <1>2 DEF CommitOutcome, EffectSucceeded, EffectFailed, EffectBecameUnknown
    <2>1. ASSUME o \in {"Succeeded", "SucceededWithOutput"} /\ Move(s, "Validating")
          PROVE  \A t \in Steps : StepInv(t)'
      <3>1. obs[p] \in {"Succeeded", "SucceededWithOutput"}
        BY <1>0, <1>2, <2>1 DEF Classified, CommitOutcome, ProcInv
      <3>2. applied[s] = 1 /\ ~ orphan[s]
        BY <1>0, <1>2, <3>1 DEF CommitOutcome, ProcInv, StepInv
      <3> QED
        BY <1>0, <2>0, <2>1, <3>2, <1>m
    <2>2. ASSUME o = "Failed" /\ Move(s, "Failed")
          PROVE  \A t \in Steps : StepInv(t)'
      <3>1. obs[p] = "Failed"
        BY <1>0, <1>2, <2>2 DEF Classified, CommitOutcome, ProcInv
      <3>2. ~ orphan[s]
        BY <1>0, <1>2, <3>1 DEF CommitOutcome, ProcInv
      <3> QED
        BY <1>0, <2>0, <2>2, <3>2, <1>m
    <2>3. ASSUME Move(s, "EffectUnknown")
          PROVE  \A t \in Steps : StepInv(t)'
      BY <1>0, <2>0, <2>3, <1>m
    <2>4. \A t \in Steps : StepInv(t)'
      BY <1>2, <2>1, <2>2, <2>3 DEF CommitOutcome, EffectSucceeded, EffectFailed, EffectBecameUnknown
    <2> QED
      BY <1>0, <1>2, <2>4, ProcLeft DEF CommitOutcome, RInv
  <1>3. CASE CommitResolution(p)
    <2>0. UNCHANGED <<intent, applied, orphan>> /\ ~ orphan[s]
      BY <1>0, <1>3 DEF CommitResolution, ReconciliationResolved, ManualInterventionRequired,
            ProcInv, StepInv
    <2>1. ASSUME obs[p] = "Applied" /\ Move(s, "Validating")
          PROVE  \A t \in Steps : StepInv(t)'
      BY <1>0, <1>3, <2>0, <2>1, <1>m DEF CommitResolution, ProcInv
    <2>2. ASSUME obs[p] = "NotApplied" /\ Move(s, "IntentCommitted")
          PROVE  \A t \in Steps : StepInv(t)'
      BY <1>0, <1>3, <2>0, <2>2, <1>m DEF CommitResolution, ProcInv
    <2>3. ASSUME Move(s, "Failed")
          PROVE  \A t \in Steps : StepInv(t)'
      BY <1>0, <2>0, <2>3, <1>m
    <2>4. ASSUME Move(s, "ManualRequired")
          PROVE  \A t \in Steps : StepInv(t)'
      BY <1>0, <2>0, <2>4, <1>m
    <2>5. \/ obs[p] = "Applied" /\ Move(s, "Validating")
          \/ obs[p] = "NotApplied" /\ Move(s, "IntentCommitted")
          \/ Move(s, "Failed") \/ Move(s, "ManualRequired")
      <3>1. CASE ManualInterventionRequired(s, intent[s].effect)
        BY <3>1 DEF ManualInterventionRequired
      <3>2. CASE obs[p] \in {"Applied", "NotApplied", "Failed"}
                 /\ ReconciliationResolved(s, intent[s].effect, obs[p])
        BY <3>2 DEF ReconciliationResolved
      <3> QED
        BY <1>0, <1>3, <3>1, <3>2 DEF CommitResolution, ProcInv
    <2>6. \A t \in Steps : StepInv(t)'
      BY <2>1, <2>2, <2>3, <2>4, <2>5
    <2> QED
      BY <1>0, <1>3, <2>6, ProcLeft DEF CommitResolution, RInv
  <1> QED
    BY <1>1, <1>2, <1>3

\* The journal admits steps and intents while the effect has not taken place, and
\* a budget at any time.
LEMMA AdmitInv ==
  ASSUME RTypeOK, RInv, NEW p \in Procs,
         \/ \E i \in Intents : AuthorizeAndCommit(p, i)
         \/ \E s \in Steps, deps \in SUBSET Steps : PlanStep(p, s, deps)
         \/ ConfigureLoop(p)
  PROVE  RInv'
  <1> USE DEF worldVars, procVars
  <1>1. ASSUME NEW i \in Intents, AuthorizeAndCommit(p, i) PROVE RInv'
    <2> DEFINE s == target[p]
    <2>0. s \in Steps /\ pc[p] # "Down"
      BY <1>1 DEF AuthorizeAndCommit, RInv, ProcInv
    <2>1. status[s] = "Planned" /\ Move(s, "IntentCommitted") /\ UNCHANGED <<applied, orphan>>
          /\ intent' = [intent EXCEPT ![s] = i]
      BY <1>1 DEF AuthorizeAndCommit, EffectIntentCommitted
    <2>2. /\ status'[s] = "IntentCommitted"
          /\ \A t \in Steps : t # s => status'[t] = status[t] /\ intent'[t] = intent[t]
      BY <2>0, <2>1 DEF Move, RTypeOK, TypeOK
    <2>3. applied[s] = 0 /\ ~ orphan[s]
      BY <2>0, <2>1 DEF RInv, StepInv
    <2> HIDE DEF s
    <2>4. \A t \in Steps : StepInv(t)'
      BY <2>0, <2>1, <2>2, <2>3 DEF RInv, StepInv, SupportsQuery
    <2> QED
      BY <1>1, <2>0, <2>4, ProcLeft DEF AuthorizeAndCommit, RInv
  <1>2. ASSUME NEW s \in Steps, NEW deps \in SUBSET Steps, PlanStep(p, s, deps) PROVE RInv'
    <2>1. StepPlanned(s, deps) /\ UNCHANGED <<applied, orphan, pc, lease>> /\ pc[p] = "Ready"
      BY <1>2 DEF PlanStep
    <2>2. /\ UNCHANGED intent /\ status[s] = "Absent"
          /\ status' = [t \in Steps |-> IF t \in {s} THEN "Planned" ELSE status[t]]
      BY <2>1 DEF StepPlanned, AddSteps, Known, grantVars
    <2>3. status \in [Steps -> StepStatus \cup {"Absent"}]
      BY DEF RTypeOK, TypeOK
    <2>4. Move(s, "Planned")
      BY <2>2, <2>3 DEF Move
    <2>5. applied[s] = 0 /\ ~ orphan[s]
      BY <2>2 DEF RInv, StepInv
    <2> QED
      BY <2>1, <2>2, <2>4, <2>5, StepMoved, ProcReady DEF RInv
  <1>3. CASE ConfigureLoop(p)
    <2>1. UNCHANGED <<status, intent, applied, orphan, pc, lease>> /\ pc[p] = "Ready"
      BY <1>3 DEF ConfigureLoop, AgentLoopConfigured, stepVars, grantVars
    <2> QED
      BY <2>1, StepsKept, ProcReady DEF RInv
  <1> QED
    BY <1>1, <1>2, <1>3

\* Every step keeps the runtime's invariant.
LEMMA RInvNext ==
  ASSUME RTypeOK, RInv, [RNext]_rvars PROVE RInv'
  <1>1. CASE UNCHANGED rvars
    BY <1>1 DEF rvars, vars, stepVars, grantVars, procVars, worldVars, RInv, ProcInv, StepInv,
                SupportsQuery
  <1> QED
    BY <1>1, QuietInv, WorldInv, OrphanInv, DriveInv, CommitInv, AdmitInv DEF RNext, DriveNext

\* A step of the runtime is a step of the reducer, and keeps types and invariant.
LEMMA RuntimeNext ==
  RTypeOK /\ RInv /\ [RNext]_rvars => RTypeOK' /\ RInv' /\ [Next]_vars
  <1> SUFFICES ASSUME RTypeOK, RInv, [RNext]_rvars PROVE RTypeOK' /\ RInv' /\ [Next]_vars
    OBVIOUS
  <1>1. [Next]_vars /\ TypeOK
    BY RuntimeStep DEF RTypeOK
  <1>2. TypeOK'
    BY <1>1, TypeNext
  <1>3. RTypeOK'
    BY <1>2, RuntimeTypeNext DEF RTypeOK, RuntimeType
  <1> QED
    BY <1>1, <1>3, RInvNext

\* The runtime's state is always well typed.
THEOREM RuntimeTypeCorrect == RSpec => []RTypeOK
  BY RInitInv, RuntimeNext, PTL DEF RSpec

\* The runtime implements the reducer's specification: each append of the
\* effect runtime is an event apply_record accepts.
THEOREM RuntimeImplementsWorkGraph == RSpec => Spec
  <1>1. RInit => Init
    BY DEF RInit
  <1> QED
    BY <1>1, RInitInv, RuntimeNext, PTL DEF RSpec, Spec

\* Whatever process stops where, and whatever call outlives its caller, the
\* effect of a step takes place at most once (execute_intent, drive_step).
THEOREM EffectsAtMostOnce == RSpec => []AtMostOnce
  <1>1. RInv => AtMostOnce
    BY DEF RInv, StepInv, AtMostOnce
  <1> QED
    BY <1>1, RInitInv, RuntimeNext, PTL DEF RSpec

-----------------------------------------------------------------------------
(* The effect contract *)

\* The verdict the contract reads off the status.
LEMMA VerdictOf ==
  ASSUME NEW s
  PROVE  /\ status[s] = "Completed" => Verdict(s) = "Completed"
         /\ status[s] = "Failed" => Verdict(s) = "Failed"
         /\ status[s] = "ManualRequired" => Verdict(s) = "Manual"
         /\ status[s] \notin Terminal => Verdict(s) = "Open"
  BY DEF Verdict, Terminal

\* The verdict of the contract, in the state after a step.
LEMMA VerdictNext ==
  ASSUME NEW s
  PROVE  /\ status'[s] = "Completed" => Verdict(s)' = "Completed"
         /\ status'[s] = "Failed" => Verdict(s)' = "Failed"
         /\ status'[s] = "ManualRequired" => Verdict(s)' = "Manual"
         /\ status'[s] \notin Terminal => Verdict(s)' = "Open"
  BY DEF Verdict, Terminal

\* A runtime step that is not the sink's moves at most one step, which was not
\* terminal, and completes it only from Validating.
JournalStep ==
    /\ UNCHANGED applied
    /\ \/ UNCHANGED status
       \/ \E s \in Steps, to \in StepStatus :
            /\ Move(s, to) /\ status[s] \notin Terminal
            /\ to = "Completed" => status[s] = "Validating"

\* A step either only writes the journal or lands an effect.
LEMMA RuntimeJournal ==
  ASSUME RTypeOK, RInv, [RNext]_rvars
  PROVE  \/ JournalStep
         \/ \E p \in Procs : SinkApplies(p)
         \/ \E s \in Steps : OrphanLands(s)
  <1> USE DEF JournalStep, worldVars, Terminal, StepStatus, At
  <1>1. ASSUME NEW p \in Procs, StartExecution(p) PROVE JournalStep
    <2>1. target[p] \in Steps
      BY <1>1 DEF StartExecution, RInv, ProcInv
    <2> QED
      BY <1>1, <2>1 DEF StartExecution, EffectExecutionStarted
  <1>2. ASSUME NEW p \in Procs, CommitOutcome(p) PROVE JournalStep
    <2>1. target[p] \in Steps
      BY <1>2 DEF CommitOutcome, RInv, ProcInv
    <2> QED
      BY <1>2, <2>1 DEF CommitOutcome, EffectSucceeded, EffectFailed, EffectBecameUnknown
  <1>3. ASSUME NEW p \in Procs, CommitResolution(p) PROVE JournalStep
    <2> DEFINE s == target[p]
    <2>1. s \in Steps /\ UNCHANGED applied
      BY <1>3 DEF CommitResolution, RInv, ProcInv
    <2>2. CASE ManualInterventionRequired(s, intent[s].effect)
      BY <2>1, <2>2 DEF ManualInterventionRequired
    <2>3. CASE obs[p] \in {"Applied", "NotApplied", "Failed"}
               /\ ReconciliationResolved(s, intent[s].effect, obs[p])
      <3>1. Move(s, "Validating") \/ Move(s, "IntentCommitted") \/ Move(s, "Failed")
        BY <2>3 DEF ReconciliationResolved
      <3> QED
        BY <2>1, <2>3, <3>1 DEF ReconciliationResolved
    <2> QED
      BY <1>3, <2>2, <2>3 DEF CommitResolution, RInv, ProcInv
  <1>4. ASSUME NEW p \in Procs, NEW s \in Steps,
               \/ MarkMaterialUnavailable(p, s) \/ MarkRecoveredExecutionUnknown(p, s)
               \/ GiveUp(p, s) \/ BeginReconciliation(p, s)
        PROVE  JournalStep
    BY <1>4 DEF MarkMaterialUnavailable, InvocationMaterialUnavailable, MarkRecoveredExecutionUnknown,
          EffectBecameUnknown, GiveUp, ManualInterventionRequired, BeginReconciliation,
          ReconciliationStarted
  <1>5. ASSUME NEW p \in Procs, NEW s \in Steps, NEW disposition \in {"Passed", "Failed", "Inconclusive"},
               VerifyStep(p, s, disposition)
        PROVE  JournalStep
    <2>1. Move(s, "Completed") \/ Move(s, "Failed") \/ Move(s, "ManualRequired")
      BY <1>5 DEF VerifyStep, VerificationRecorded
    <2> QED
      BY <1>5, <2>1 DEF VerifyStep, VerificationRecorded
  <1>6. ASSUME NEW p \in Procs, NEW i, AuthorizeAndCommit(p, i) PROVE JournalStep
    <2>1. target[p] \in Steps
      BY <1>6 DEF AuthorizeAndCommit, RInv, ProcInv
    <2> QED
      BY <1>6, <2>1 DEF AuthorizeAndCommit, EffectIntentCommitted
  <1>7. ASSUME NEW p \in Procs, NEW s \in Steps, NEW deps \in SUBSET Steps, PlanStep(p, s, deps)
        PROVE  JournalStep
    <2>1. status[s] = "Absent" /\ Move(s, "Planned") /\ UNCHANGED applied
      BY <1>7 DEF PlanStep, StepPlanned, AddSteps, Known, Move, RTypeOK, TypeOK
    <2> QED
      BY <2>1
  <1>8. ASSUME NEW p \in Procs, Acquire(p) \/ Stop(p) \/ StoreFails(p) \/ ResolutionRefused(p)
        PROVE  JournalStep
    BY <1>8 DEF Acquire, Stop, StoreFails, ResolutionRefused, vars, stepVars
  <1>9. ASSUME NEW p \in Procs, NEW o, SinkReturns(p, o) \/ SinkAnswers(p, o) PROVE JournalStep
    BY <1>9 DEF SinkReturns, SinkAnswers, vars, stepVars
  <1>10. ASSUME NEW p \in Procs, NEW s,
                PrepareAdmission(p, s) \/ PrepareEffect(p, s) \/ ResumeReconciliation(p, s)
         PROVE  JournalStep
    BY <1>10 DEF PrepareAdmission, PrepareEffect, ResumeReconciliation, vars, stepVars
  <1>10a. ASSUME NEW p \in Procs, NEW s, Refuse(p, s) \/ ConfigureLoop(p) PROVE JournalStep
    BY <1>10a DEF Refuse, ConfigureLoop, AgentLoopConfigured, vars, stepVars
  <1>11. CASE UNCHANGED rvars
    BY <1>11 DEF rvars, vars, stepVars
  <1> QED
    BY <1>1, <1>2, <1>3, <1>4, <1>5, <1>6, <1>7, <1>8, <1>9, <1>10, <1>10a, <1>11
       DEF RNext, DriveNext

\* What the contract's verdict stands for.
verdict == [s \in Steps |-> Verdict(s)]

\* The effect of s takes place while its verdict is open or a person's.
LEMMA ContractApply ==
  ASSUME RTypeOK, RInv, NEW s \in Steps, applied[s] = 0, applied' = [applied EXCEPT ![s] = @ + 1],
         UNCHANGED status, status[s] \in {"Executing", "EffectUnknown", "ManualRequired"}
  PROVE  Contract!Next
  <1>1. verdict[s] \in {"Open", "Manual"}
    BY VerdictOf DEF Terminal, verdict
  <1>2. verdict' = verdict
    BY DEF verdict, Verdict
  <1>3. applied' = [applied EXCEPT ![s] = 1]
    BY DEF RTypeOK
  <1> QED
    BY <1>1, <1>2, <1>3 DEF Contract!Next, Contract!Apply, verdict

\* An event of the reducer concludes a step, or leaves its verdict open.
LEMMA ContractConclude ==
  ASSUME RTypeOK, RInv, JournalStep PROVE Contract!Next \/ UNCHANGED Contract!vars
  <1>1. CASE UNCHANGED status
    <2>1. verdict' = verdict
      BY <1>1 DEF verdict, Verdict
    <2> QED
      BY <2>1 DEF JournalStep, Contract!vars, verdict
  <1>2. ASSUME NEW s \in Steps, NEW to \in StepStatus, Move(s, to), status[s] \notin Terminal,
               to = "Completed" => status[s] = "Validating"
        PROVE  Contract!Next \/ UNCHANGED Contract!vars
    <2>1. status'[s] = to /\ \A t \in Steps : t # s => status'[t] = status[t]
      BY <1>2 DEF Move, RTypeOK, TypeOK
    <2>2. \A t \in Steps : t # s => Verdict(t)' = Verdict(t)
      BY <2>1 DEF Verdict
    <2>3. Verdict(s) = "Open" /\ verdict[s] = "Open"
      BY <1>2, VerdictOf DEF verdict
    <2> DEFINE v == Verdict(s)'
    <2>4. verdict' = [verdict EXCEPT ![s] = v]
      BY <2>2 DEF verdict
    <2>5. CASE to \notin Terminal
      <3>1. v = "Open"
        BY <2>1, <2>5, VerdictNext
      <3>2. verdict' = verdict
        BY <2>3, <2>4, <3>1 DEF verdict
      <3> QED
        BY <3>2 DEF JournalStep, Contract!vars, verdict
    <2>6. CASE to \in Terminal
      <3>1. v \in {"Completed", "Failed", "Manual"} /\ (v = "Completed" => to = "Completed")
        BY <2>1, <2>6, VerdictNext DEF Terminal
      <3>2. v = "Completed" => applied[s] = 1
        BY <1>2, <3>1 DEF RInv, StepInv
      <3>3. v \in Contract!Verdicts \ {"Open"}
        BY <3>1 DEF Contract!Verdicts
      <3> HIDE DEF v
      <3>4. UNCHANGED applied
        BY DEF JournalStep
      <3> QED
        BY <2>3, <2>4, <3>2, <3>3, <3>4 DEF Contract!Next, Contract!Conclude, verdict
    <2> QED
      BY <2>5, <2>6
  <1> QED
    BY <1>1, <1>2 DEF JournalStep

\* Every step of the runtime is a step of the contract, or none.
LEMMA ContractStep == RTypeOK /\ RInv /\ [RNext]_rvars => [Contract!Next]_(Contract!vars)
  <1> SUFFICES ASSUME RTypeOK, RInv, [RNext]_rvars PROVE [Contract!Next]_(Contract!vars)
    OBVIOUS
  <1>1. ASSUME NEW p \in Procs, SinkApplies(p) PROVE Contract!Next
    <2>1. /\ target[p] \in Steps /\ status[target[p]] = "Executing" /\ applied[target[p]] = 0
          /\ applied' = [applied EXCEPT ![target[p]] = @ + 1] /\ UNCHANGED status
      BY <1>1 DEF SinkApplies, RInv, ProcInv, vars, stepVars
    <2> QED
      BY <2>1, ContractApply
  <1>2. ASSUME NEW s \in Steps, OrphanLands(s) PROVE Contract!Next
    <2>1. /\ status[s] \in {"Executing", "EffectUnknown", "ManualRequired"} /\ applied[s] = 0
          /\ applied' = [applied EXCEPT ![s] = @ + 1] /\ UNCHANGED status
      BY <1>2 DEF OrphanLands, RInv, StepInv, RTypeOK, vars, stepVars
    <2> QED
      BY <2>1, ContractApply
  <1> QED
    BY <1>1, <1>2, RuntimeJournal, ContractConclude

\* The first state is one of the contract's.
LEMMA ContractInit == RInit => Contract!Init
  <1> SUFFICES ASSUME RInit PROVE Contract!Init
    OBVIOUS
  <1>1. \A s \in Steps : Verdict(s) = "Open"
    BY VerdictOf DEF RInit, Init, Terminal
  <1> QED
    BY <1>1 DEF RInit, Contract!Init

\* The effect runtime implements its contract: the world sees an effect at most
\* once, a step is Completed only after it, and nothing happens once the run
\* says Completed or Failed.
THEOREM RuntimeImplementsContract == RSpec => ImplementsContract
  BY RInitInv, RuntimeNext, ContractInit, ContractStep, PTL
     DEF RSpec, ImplementsContract, Contract!Spec

-----------------------------------------------------------------------------
(* THE AGENT LOOP *)

(* The loop appends to the journal of the reducer *)

\* What the host drives leaves the loop and its calls alone, and is an event of
\* the reducer.
LEMMA HostStep ==
  ASSUME HostDrives
  PROVE  Next /\ UNCHANGED <<loopVars, callVars>> /\ sequence' = sequence + 1
  <1>1. ASSUME NEW s, NEW e, EffectNext(s, e)
        PROVE  UNCHANGED <<loopVars, callVars>> /\ sequence' = sequence + 1
    BY <1>1 DEF EffectNext, EffectIntentCommitted, InvocationMaterialUnavailable,
                EffectExecutionStarted, EffectSucceeded, EffectFailed, EffectBecameUnknown,
                ReconciliationStarted, ReconciliationResolved, ManualInterventionRequired,
                VerificationRecorded, Record
  <1>2. ASSUME NEW s, NEW deps, StepPlanned(s, deps)
        PROVE  UNCHANGED <<loopVars, callVars>> /\ sequence' = sequence + 1
    BY <1>2 DEF StepPlanned, Record
  <1>3. NextActions(Known, dependsOn, status, receipt) \subseteq Steps
    BY DEF NextActions, Actionable, Admissible, Known
  <1> QED
    BY <1>1, <1>2, <1>3 DEF HostDrives, Next, PlanningNext

\* The decision a coordinator submits is one the reducer may be offered.
LEMMA DecisionOffered ==
  ASSUME LTypeOK, NEW p \in Coordinators, HeadHeld(p), DecisionAccepted(DecisionOf(p))
  PROVE  \E c \in 0..MaxModelCalls, turn \in 1..MaxModelTurns, context \in {sequence - 2, sequence - 1} :
            DecisionOf(p) = [call |-> c, turn |-> turn, context |-> context]
  <1>1. call[p] \in 0..MaxModelCalls
    BY BudgetAssumption DEF LTypeOK, Calls
  <1>2. base[p].turns + 1 \in 1..MaxModelTurns
    BY BudgetAssumption DEF DecisionAccepted, DecisionOf, LTypeOK, TypeOK
  <1>3. expected[p] - 1 = sequence - 1
    BY DEF HeadHeld
  <1> QED
    BY <1>1, <1>2, <1>3 DEF DecisionOf

\* Every step of the loop is an event of the reducer or leaves the journal alone.
LEMMA LoopStep ==
  ASSUME LTypeOK, CallInv, [LNext]_lvars PROVE [Next]_vars
  <1> USE DEF LTypeOK
  <1>1. ASSUME NEW p \in Coordinators, Configure(p) PROVE Next
    BY <1>1 DEF Configure, Next, PlanningNext
  <1>2. ASSUME NEW p \in Coordinators, ReserveCall(p) PROVE Next
    <2> DEFINE r == [index |-> reservedCalls + 1, turn |-> turns + 1, base |-> sequence]
    <2>1. ModelCallReserved(r)
      BY <1>2 DEF ReserveCall
    <2>2. reservedCalls + 1 \in 1..MaxModelCalls /\ turns + 1 \in 1..MaxModelTurns
          /\ sequence \in LoadedHeads
      BY <2>1, BudgetAssumption DEF ModelCallReserved, TypeOK, LoadedHeads
    <2> QED
      BY <2>1, <2>2 DEF Next, PlanningNext
  <1>3. ASSUME NEW p \in Coordinators, Report(p) PROVE Next
    <2>1. CASE PlanAccepted(DecisionOf(p)) \/ CompletionCandidateRecorded(DecisionOf(p))
      <3>1. HeadHeld(p) /\ DecisionAccepted(DecisionOf(p))
        BY <1>3, <2>1 DEF Report, PlanAccepted, CompletionCandidateRecorded
      <3> QED
        BY <2>1, <3>1, DecisionOffered DEF Next, PlanningNext
    <2>2. CASE ModelCallRejected(call[p], FALSE) \/ ModelCallBecameUnknown(call[p])
      <3>1. Active(call[p])
        BY <2>2 DEF ModelCallRejected, ModelCallBecameUnknown
      <3>2. call[p] \in 1..MaxModelCalls
        BY <3>1, BudgetAssumption DEF Active, CallInv, ModelCallAccounting, TypeOK, Calls
      <3> QED
        BY <2>2, <3>2 DEF Next, PlanningNext
    <2> QED
      BY <1>3, <2>1, <2>2 DEF Report
  <1>4. ASSUME NEW p \in Coordinators, ResolveConflict(p) PROVE Next
    <2>1. ModelCallRejected(call[p], TRUE) \/ ModelCallBecameUnknown(call[p])
      BY <1>4 DEF ResolveConflict
    <2>2. Active(call[p])
      BY <2>1 DEF ModelCallRejected, ModelCallBecameUnknown
    <2>3. call[p] \in 1..MaxModelCalls
      BY <2>2, BudgetAssumption DEF Active, CallInv, ModelCallAccounting, TypeOK, Calls
    <2> QED
      BY <2>1, <2>3 DEF Next, PlanningNext
  <1>5. ASSUME NEW p \in Coordinators, Abandon(p) PROVE Next
    <2>1. activeCall.index \in 1..MaxModelCalls /\ ModelCallAbandoned(activeCall.index)
      BY <1>5, BudgetAssumption DEF Abandon, CallInv, ModelCallAccounting, TypeOK, Calls
    <2> QED
      BY <2>1 DEF Next, PlanningNext
  <1>6. CASE HostDrives
    BY <1>6, HostStep
  <1>7. CASE UNCHANGED lvars
    BY <1>7 DEF lvars
  <1>8. ASSUME NEW p \in Coordinators, FindReservedCall(p) \/ BreakOff(p) \/ Send(p) \/ Conflict(p) \/ ResolveFails(p)
        PROVE  UNCHANGED vars
    BY <1>8 DEF FindReservedCall, BreakOff, Send, Conflict, ResolveFails
  <1>9. ASSUME NEW p \in Coordinators, NEW r, Answer(p, r) \/ PlannerFails(p, r) PROVE UNCHANGED vars
    BY <1>9 DEF Answer, PlannerFails
  <1> QED
    BY <1>1, <1>2, <1>3, <1>4, <1>5, <1>6, <1>7, <1>8, <1>9 DEF LNext, TickNext

-----------------------------------------------------------------------------
(* Type correctness *)

\* The context of a well-typed graph is a context.
LEMMA SnapshotType == TypeOK => Snapshot \in Context
  <1> SUFFICES ASSUME TypeOK PROVE Snapshot \in Context
    OBVIOUS
  <1>1. attempts \in [Steps -> Nat]
    BY DEF TypeOK
  <1>2. ToolCalls \in Nat
    BY <1>1, StepsAssumption, SumIncrement DEF ToolCalls
  <1> QED
    BY <1>2 DEF TypeOK, Snapshot, Context

\* The part of LTypeOK that is not the reducer's.
TickType ==
    /\ tick \in [Coordinators -> {"Idle", "Reserved", "Waiting", "Reporting", "Resolving"}]
    /\ expected \in [Coordinators -> Nat]
    /\ call \in [Coordinators -> Calls \cup {0}]
    /\ base \in [Coordinators -> Context \cup {None}]
    /\ report \in [Coordinators -> Reports \cup {"None"}]
    /\ sends \in [Calls -> Nat]
    /\ doubted \subseteq Calls
    /\ breaks \in Nat

\* Giving up a tick leaves its locals well typed.
LEMMA ReturnType ==
  ASSUME TickType, NEW p \in Coordinators, Return(p)
  PROVE  /\ tick' \in [Coordinators -> {"Idle", "Reserved", "Waiting", "Reporting", "Resolving"}]
         /\ expected' \in [Coordinators -> Nat]
         /\ call' \in [Coordinators -> Calls \cup {0}]
         /\ base' \in [Coordinators -> Context \cup {None}]
         /\ report' \in [Coordinators -> Reports \cup {"None"}]
  BY DEF TickType, Return, Reports

\* The call the reducer has open is one of Calls.
LEMMA ActiveInCalls ==
  ASSUME TypeOK, CallInv, activeCall # None PROVE activeCall.index \in Calls
  BY BudgetAssumption DEF TypeOK, CallInv, ModelCallAccounting, Calls

\* Every step leaves the locals of every tick well typed.
LEMMA TickTypeNext ==
  ASSUME LTypeOK, CallInv, [LNext]_lvars PROVE TickType'
  <1>0. TypeOK /\ TickType
    BY DEF LTypeOK, TickType
  <1> USE <1>0 DEF tickVars
  <1>1. ASSUME NEW p \in Coordinators, Configure(p) PROVE TickType'
    BY <1>1 DEF Configure, TickType
  <1>2. ASSUME NEW p \in Coordinators, ReserveCall(p) PROVE TickType'
    <2>1. reservedCalls + 1 \in Calls /\ sequence' \in Nat
      BY <1>2, BudgetAssumption DEF ReserveCall, ModelCallReserved, TypeOK, Calls, Record
    <2> QED
      BY <1>2, <2>1, SnapshotType DEF ReserveCall, TickType
  <1>3. ASSUME NEW p \in Coordinators, FindReservedCall(p) PROVE TickType'
    <2>1. activeCall.index \in Calls /\ sequence \in Nat
      BY <1>3, ActiveInCalls DEF FindReservedCall, TypeOK
    <2> QED
      BY <1>3, <2>1 DEF FindReservedCall, TickType, Reports
  <1>4. ASSUME NEW p \in Coordinators, Send(p) PROVE TickType'
    <2>1. sends \in [Calls -> Nat] /\ sends' = [sends EXCEPT ![call[p]] = @ + 1]
      BY <1>4 DEF Send, TickType
    <2>2. sends' \in [Calls -> Nat]
      <3>1. CASE call[p] \in Calls
        BY <2>1, <3>1
      <3>2. CASE call[p] \notin Calls
        BY <2>1, <3>2
      <3> QED
        BY <3>1, <3>2
    <2> QED
      BY <1>4, <2>2 DEF Send, TickType
  <1>5. ASSUME NEW p \in Coordinators, NEW r \in Reports, Answer(p, r) \/ PlannerFails(p, r) PROVE TickType'
    BY <1>5 DEF Answer, PlannerFails, TickType
  <1>6. ASSUME NEW p \in Coordinators, Report(p) \/ ResolveConflict(p) PROVE TickType'
    <2>1. UNCHANGED doubted \/ (Active(call[p]) /\ doubted' = doubted \cup {call[p]})
      BY <1>6 DEF Report, ResolveConflict, ModelCallBecameUnknown
    <2>2. doubted' \subseteq Calls
      BY <2>1, ActiveInCalls DEF Active, TickType
    <2> QED
      BY <1>6, <2>2, ReturnType DEF Report, ResolveConflict, TickType
  <1>7. ASSUME NEW p \in Coordinators, Conflict(p) PROVE TickType'
    <2>1. CASE Return(p)
      BY <1>7, <2>1, ReturnType DEF Conflict, TickType
    <2>2. CASE ~ Return(p)
      BY <1>7, <2>2 DEF Conflict, TickType, TypeOK
    <2> QED
      BY <2>1, <2>2
  <1>8. ASSUME NEW p \in Coordinators, ResolveFails(p) \/ BreakOff(p) PROVE TickType'
    BY <1>8, ReturnType DEF ResolveFails, BreakOff, TickType
  <1>9. ASSUME NEW p \in Coordinators, Abandon(p) PROVE TickType'
    BY <1>9, ActiveInCalls DEF Abandon, TickType
  <1>10. CASE HostDrives
    BY <1>10 DEF HostDrives, TickType
  <1>11. CASE UNCHANGED lvars
    BY <1>11 DEF lvars, TickType
  <1> QED
    BY <1>1, <1>2, <1>3, <1>4, <1>5, <1>6, <1>7, <1>8, <1>9, <1>10, <1>11
       DEF LNext, TickNext, Reports

\* The first state is well typed, with no model call in the ledger.
LEMMA LoopInit == LInit => LTypeOK /\ CallInv
  <1> SUFFICES ASSUME LInit PROVE LTypeOK
    BY CallInit DEF LInit
  <1>1. TypeOK
    BY TypeInit DEF LInit
  <1> QED
    BY <1>1 DEF LInit, LTypeOK

\* A step of the loops is a step of the reducer, and keeps the types and the call ledger.
LEMMA LoopNext == LTypeOK /\ CallInv /\ [LNext]_lvars => LTypeOK' /\ CallInv' /\ [Next]_vars
  <1> SUFFICES ASSUME LTypeOK, CallInv, [LNext]_lvars PROVE LTypeOK' /\ CallInv' /\ [Next]_vars
    OBVIOUS
  <1>1. [Next]_vars /\ TypeOK
    BY LoopStep DEF LTypeOK
  <1>2. TypeOK' /\ CallInv'
    BY <1>1, TypeNext, CallNext
  <1> QED
    BY <1>1, <1>2, TickTypeNext DEF LTypeOK, TickType

\* The state of the coordinators and of the journal is always well typed: a
\* tick never works on a call outside the budget.
THEOREM LoopTypeCorrect == LSpec => []LTypeOK
  BY LoopInit, LoopNext, PTL DEF LSpec

\* The coordinators implement the reducer's specification: each append is an
\* event apply_record accepts, so what is proved of a journal holds of theirs.
THEOREM LoopImplementsWorkGraph == LSpec => Spec
  <1>1. LInit => Init
    BY DEF LInit
  <1> QED
    BY <1>1, LoopInit, LoopNext, PTL DEF LSpec, Spec

-----------------------------------------------------------------------------
(* Requests and reservations *)

\* The coordinator has the answer, or waits for it.
Asked(p) ==
    tick[p] = "Waiting" \/ (tick[p] = "Reporting" /\ report[p] \in {"Plan", "Candidate"})

\* The reservations and the requests sent under them: a reservation that is held
\* unsent has one holder, and requests, doubts and ticks are about calls that
\* were reserved.
SendInv ==
    /\ ~lifecycle =>
        doubted = {} /\ (\A c \in Calls : sends[c] = 0) /\ \A p \in Coordinators : tick[p] = "Idle"
    /\ RequestsReserved
    /\ \A c \in doubted : c <= reservedCalls
    /\ activeCall # None /\ activeCall.status = "Reserved" => activeCall.index \notin doubted
    /\ \A p \in Coordinators : tick[p] # "Idle" => call[p] \in Calls /\ call[p] <= reservedCalls
    /\ \A p \in Coordinators : tick[p] = "Reserved" => sends[call[p]] = 0
    /\ \A p, q \in Coordinators : tick[p] = "Reserved" /\ tick[q] = "Reserved" /\ p # q => call[p] # call[q]
    /\ \A p \in Coordinators : Asked(p) => sends[call[p]] = 1

\* What a coordinator asked about is the graph, as long as its head is the head.
FreshInv ==
    \A p \in Coordinators : tick[p] = "Reserved" \/ Asked(p) =>
        expected[p] <= sequence /\ (expected[p] = sequence => base[p] = Snapshot)

\* Nothing has been asked in the first state.
LEMMA SendInit == LInit => SendInv /\ FreshInv
  <1> SUFFICES ASSUME LInit PROVE SendInv /\ FreshInv
    OBVIOUS
  <1> QED
    BY DEF LInit, Init, SendInv, FreshInv, Asked, RequestsReserved

\* Settling a call, or putting it in doubt, opens none.
LEMMA CallClosed ==
  ASSUME TypeOK, NEW c, NEW stale,
         ModelCallBecameUnknown(c) \/ ModelCallRejected(c, stale) \/ ModelCallAbandoned(c)
  PROVE  /\ UNCHANGED <<lifecycle, reservedCalls>> /\ lifecycle /\ turns' = turns
         /\ sequence' = sequence + 1
         /\ ~ (activeCall' # None /\ activeCall'.status = "Reserved")
  <1>1. CASE ModelCallBecameUnknown(c)
    BY <1>1, NoneAssumption DEF ModelCallBecameUnknown, Active, TypeOK, ModelCall, loopVars, Record
  <1>2. CASE ModelCallRejected(c, stale) \/ ModelCallAbandoned(c)
    BY <1>2 DEF ModelCallRejected, ModelCallAbandoned, Active, Settle, loopVars, Record
  <1> QED
    BY <1>1, <1>2

\* An accepted decision settles the call it answers.
LEMMA CallAnswered ==
  ASSUME TypeOK, NEW p \in Coordinators, call[p] \in Calls,
         PlanAccepted(DecisionOf(p)) \/ CompletionCandidateRecorded(DecisionOf(p))
  PROVE  /\ UNCHANGED <<lifecycle, reservedCalls>> /\ lifecycle
         /\ activeCall # None /\ activeCall.status = "Reserved" /\ activeCall.index = call[p]
         /\ activeCall' = None /\ sequence' = sequence + 1
  <1>1. AnswersReservedCall(DecisionOf(p)) /\ SettleSuccessfulCall /\ Record
    BY DEF PlanAccepted, CompletionCandidateRecorded, DecisionAccepted
  <1>2. DecisionOf(p).call = call[p] /\ call[p] # 0
    BY BudgetAssumption DEF DecisionOf, Calls
  <1>3. lifecycle
    BY <1>1, <1>2 DEF AnswersReservedCall
  <1> QED
    BY <1>1, <1>2, <1>3 DEF AnswersReservedCall, SettleSuccessfulCall, Settle, Record

\* A tick that returns is nobody's business any more.
LEMMA SendReturn ==
  ASSUME LTypeOK, SendInv, NEW p \in Coordinators, Return(p), UNCHANGED <<sends, lifecycle, reservedCalls>>,
         doubted' \subseteq Calls, \A c \in doubted' : c <= reservedCalls,
         ~ lifecycle => doubted' = {},
         activeCall' # None /\ activeCall'.status = "Reserved" => activeCall'.index \notin doubted'
  PROVE  SendInv'
  <1>1. \A q \in Coordinators : tick'[q] # "Idle" =>
            tick'[q] = tick[q] /\ call'[q] = call[q] /\ report'[q] = report[q]
    BY DEF Return, LTypeOK
  <1> QED
    BY <1>1 DEF SendInv, RequestsReserved, Asked, LTypeOK, Return

\* Every step keeps a request in flight reserved and sent once.
LEMMA SendNext ==
  ASSUME LTypeOK, CallInv, SendInv, [LNext]_lvars PROVE SendInv'
  <1>0. TypeOK /\ TickType
    BY DEF LTypeOK, TickType
  <1> USE <1>0 DEF tickVars
  <1>1. ASSUME NEW p \in Coordinators, Configure(p) PROVE SendInv'
    <2>1. CASE AgentLoopConfigured
      BY <1>1, <2>1 DEF Configure, AgentLoopConfigured, SendInv, RequestsReserved, Asked, callVars
    <2>2. CASE ModelCallLifecycleConfigured
      BY <1>1, <2>2 DEF Configure, ModelCallLifecycleConfigured, SendInv, RequestsReserved, Asked
    <2> QED
      BY <1>1, <2>1, <2>2 DEF Configure
  <1>2. ASSUME NEW p \in Coordinators, ReserveCall(p) PROVE SendInv'
    <2> DEFINE c == reservedCalls + 1
    <2>1. /\ c \in Calls /\ reservedCalls' = c /\ lifecycle /\ lifecycle'
          /\ activeCall' # None => activeCall'.index = c
          /\ UNCHANGED <<sends, doubted, report>>
      BY <1>2, BudgetAssumption DEF ReserveCall, ModelCallReserved, TypeOK, Calls
    <2>2. tick' = [tick EXCEPT ![p] = "Reserved"] /\ call' = [call EXCEPT ![p] = c]
      BY <1>2 DEF ReserveCall
    <2>3. sends[c] = 0 /\ c \notin doubted /\ \A q \in Coordinators : tick[q] # "Idle" => call[q] # c
      BY <2>1 DEF SendInv, RequestsReserved, TypeOK, TickType, Calls
    <2>4. \A d \in Nat : d <= reservedCalls => d <= reservedCalls'
      BY <2>1 DEF TypeOK
    <2>5. Calls \subseteq Nat
      BY DEF Calls
    <2>6. \A q \in Coordinators : q # p => tick'[q] = tick[q] /\ call'[q] = call[q] /\ report'[q] = report[q]
      BY <2>1, <2>2 DEF TickType
    <2>7. tick'[p] = "Reserved" /\ call'[p] = c
      BY <2>2 DEF TickType
    <2> HIDE DEF c
    <2>8. RequestsReserved' /\ \A d \in doubted' : d <= reservedCalls'
      BY <2>1, <2>4, <2>5 DEF SendInv, RequestsReserved, TickType
    <2>9. \A q \in Coordinators : tick'[q] # "Idle" => call'[q] \in Calls /\ call'[q] <= reservedCalls'
      <3>1. c <= reservedCalls' /\ c \in Nat
        BY <2>1, <2>5
      <3> QED
        BY <2>1, <2>4, <2>5, <2>6, <2>7, <3>1 DEF SendInv
    <2>10. \A q \in Coordinators : Asked(q)' => sends'[call'[q]] = 1
      BY <2>1, <2>3, <2>6, <2>7 DEF SendInv, Asked
    <2>11. \A q \in Coordinators : tick'[q] = "Reserved" => sends'[call'[q]] = 0
      BY <2>1, <2>3, <2>6, <2>7 DEF SendInv
    <2>12. \A q, r \in Coordinators :
                tick'[q] = "Reserved" /\ tick'[r] = "Reserved" /\ q # r => call'[q] # call'[r]
      BY <2>3, <2>6, <2>7 DEF SendInv
    <2>13. lifecycle' /\ (activeCall' # None => activeCall'.index \notin doubted')
      BY <2>1, <2>3
    <2> QED
      BY <2>8, <2>9, <2>10, <2>11, <2>12, <2>13 DEF SendInv
  <1>3. ASSUME NEW p \in Coordinators, FindReservedCall(p) PROVE SendInv'
    <2>1. activeCall.index \in Calls /\ activeCall.index <= reservedCalls
      BY <1>3, ActiveInCalls DEF FindReservedCall, CallInv, ModelCallAccounting, TypeOK
    <2> QED
      BY <1>3, <2>1 DEF FindReservedCall, SendInv, RequestsReserved, Asked, TickType, vars, callVars
  <1>4. ASSUME NEW p \in Coordinators, Send(p) PROVE SendInv'
    <2>1. call[p] \in Calls /\ call[p] <= reservedCalls /\ sends[call[p]] = 0 /\ lifecycle
      BY <1>4 DEF Send, SendInv
    <2>2. sends' = [sends EXCEPT ![call[p]] = 1] /\ sends \in [Calls -> Nat]
      BY <1>4, <2>1 DEF Send, TickType
    <2>3. UNCHANGED <<lifecycle, reservedCalls, activeCall, call, doubted, report>>
      BY <1>4 DEF Send, vars, callVars
    <2>4. tick' = [tick EXCEPT ![p] = "Waiting"]
      BY <1>4 DEF Send
    <2> QED
      BY <1>4, <2>1, <2>2, <2>3, <2>4 DEF Send, SendInv, RequestsReserved, Asked, TickType
  <1>5. ASSUME NEW p \in Coordinators, NEW r \in Reports, Answer(p, r) \/ PlannerFails(p, r) PROVE SendInv'
    BY <1>5 DEF Answer, PlannerFails, SendInv, RequestsReserved, Asked, TickType, vars, callVars
  <1>6. ASSUME NEW p \in Coordinators, Report(p) PROVE SendInv'
    <2>0. call[p] \in Calls /\ call[p] <= reservedCalls /\ lifecycle
      BY <1>6 DEF Report, SendInv
    <2>1. CASE PlanAccepted(DecisionOf(p)) \/ CompletionCandidateRecorded(DecisionOf(p))
      <3>1. UNCHANGED <<lifecycle, reservedCalls>> /\ activeCall' = None
        BY <2>0, <2>1, CallAnswered
      <3>2. doubted' \subseteq doubted \cup {call[p]} /\ UNCHANGED sends
        BY <1>6 DEF Report
      <3> QED
        BY <1>6, <2>0, <3>1, <3>2, SendReturn DEF Report, SendInv, TickType
    <2>2. CASE ModelCallRejected(call[p], FALSE) \/ ModelCallBecameUnknown(call[p])
      <3>1. /\ UNCHANGED <<lifecycle, reservedCalls>>
            /\ ~ (activeCall' # None /\ activeCall'.status = "Reserved")
        BY <2>2, CallClosed
      <3>2. doubted' \subseteq doubted \cup {call[p]} /\ UNCHANGED sends
        BY <1>6 DEF Report
      <3> QED
        BY <1>6, <2>0, <3>1, <3>2, SendReturn DEF Report, SendInv, TickType
    <2> QED
      BY <1>6, <2>1, <2>2 DEF Report
  <1>7. ASSUME NEW p \in Coordinators, ResolveConflict(p) PROVE SendInv'
    <2>0. call[p] \in Calls /\ call[p] <= reservedCalls /\ lifecycle
      BY <1>7 DEF ResolveConflict, SendInv
    <2>1. /\ UNCHANGED <<lifecycle, reservedCalls>>
          /\ ~ (activeCall' # None /\ activeCall'.status = "Reserved")
      BY <1>7, CallClosed DEF ResolveConflict
    <2>2. doubted' \subseteq doubted \cup {call[p]} /\ UNCHANGED sends
      BY <1>7 DEF ResolveConflict
    <2> QED
      BY <1>7, <2>0, <2>1, <2>2, SendReturn DEF ResolveConflict, SendInv, TickType
  <1>8. ASSUME NEW p \in Coordinators, Conflict(p) PROVE SendInv'
    <2>1. CASE Return(p)
      BY <1>8, <2>1, SendReturn DEF Conflict, SendInv, TickType, vars, callVars
    <2>2. CASE ~ Return(p)
      BY <1>8, <2>2 DEF Conflict, SendInv, RequestsReserved, Asked, TickType, vars, callVars
    <2> QED
      BY <2>1, <2>2
  <1>9. ASSUME NEW p \in Coordinators, ResolveFails(p) \/ BreakOff(p) PROVE SendInv'
    BY <1>9, SendReturn DEF ResolveFails, BreakOff, SendInv, TickType, vars, callVars
  <1>10. ASSUME NEW p \in Coordinators, Abandon(p) PROVE SendInv'
    <2>1. activeCall.index \in Calls /\ activeCall.index <= reservedCalls
      BY <1>10, ActiveInCalls DEF Abandon, CallInv, ModelCallAccounting, TypeOK
    <2>2. /\ UNCHANGED <<lifecycle, reservedCalls>> /\ lifecycle
          /\ ~ (activeCall' # None /\ activeCall'.status = "Reserved")
      BY <1>10, CallClosed DEF Abandon
    <2>3. doubted' = doubted \cup {activeCall.index} /\ UNCHANGED <<tick, call, report, sends>>
      BY <1>10 DEF Abandon
    <2> QED
      BY <2>1, <2>2, <2>3 DEF SendInv, RequestsReserved, Asked, TickType
  <1>11. CASE HostDrives
    BY <1>11, HostStep DEF HostDrives, SendInv, RequestsReserved, Asked, callVars
  <1>12. CASE UNCHANGED lvars
    BY <1>12 DEF lvars, SendInv, RequestsReserved, Asked, vars, callVars
  <1> QED
    BY <1>1, <1>2, <1>3, <1>4, <1>5, <1>6, <1>7, <1>8, <1>9, <1>10, <1>11, <1>12
       DEF LNext, TickNext, Reports

\* A provider request is sent at most once under a reservation, and only under
\* one that was committed before (AgentLoop::tick), for every number of
\* coordinators, crashes and calls.
THEOREM RequestsAlwaysReserved == LSpec => []RequestsReserved
  <1>1. SendInv => RequestsReserved
    BY DEF SendInv
  <1> QED
    BY <1>1, LoopInit, LoopNext, SendInit, SendNext, PTL DEF LSpec

-----------------------------------------------------------------------------
(* Answers and the graph they are about *)

\* Every event advances the head, so a head identifies the graph.
LEMMA HeadMoves == [Next]_vars => UNCHANGED vars \/ sequence' = sequence + 1
  <1> USE DEF Record
  <1>1. PlanningNext => sequence' = sequence + 1
    BY DEF PlanningNext, AgentLoopConfigured, ModelCallLifecycleConfigured,
           ModelCallReserved, ModelCallBecameUnknown, ModelCallRejected,
           ModelCallAbandoned, PlanAccepted, CompletionCandidateRecorded, StepPlanned
  <1>2. ASSUME NEW s, NEW e, EffectNext(s, e) PROVE sequence' = sequence + 1
    BY <1>2 DEF EffectNext, EffectIntentCommitted, InvocationMaterialUnavailable,
                EffectExecutionStarted, EffectSucceeded, EffectFailed, EffectBecameUnknown,
                ReconciliationStarted, ReconciliationResolved, ManualInterventionRequired,
                VerificationRecorded
  <1>3. ASSUME NEW s, NEW to, LegacyVerification(s, to) PROVE sequence' = sequence + 1
    BY <1>3 DEF LegacyVerification
  <1> QED
    BY <1>1, <1>2, <1>3 DEF Next

\* The tick of p is where it was.
TickKept(p) ==
    tick'[p] = tick[p] /\ expected'[p] = expected[p] /\ base'[p] = base[p] /\ report'[p] = report[p]

\* A context stays fresh as long as no event is committed.
LEMMA FreshKept ==
  ASSUME LTypeOK, FreshInv, [Next]_vars, NEW p \in Coordinators, TickKept(p),
         tick[p] = "Reserved" \/ Asked(p)
  PROVE  expected'[p] <= sequence' /\ (expected'[p] = sequence' => base'[p] = Snapshot')
  <1>1. expected[p] <= sequence /\ (expected[p] = sequence => base[p] = Snapshot)
    BY DEF FreshInv
  <1>2. expected[p] \in Nat /\ sequence \in Nat
    BY DEF LTypeOK, TypeOK
  <1>3. CASE UNCHANGED vars
    <2>1. Snapshot' = Snapshot /\ sequence' = sequence
      BY <1>3 DEF Snapshot, ToolCalls, vars, stepVars, evidenceVars, graphVars, loopVars
    <2> QED
      BY <1>1, <2>1 DEF TickKept
  <1>4. CASE sequence' = sequence + 1
    BY <1>1, <1>2, <1>4 DEF TickKept
  <1> QED
    BY <1>3, <1>4, HeadMoves

\* Every step keeps a tick's snapshot that of the head it was taken at.
LEMMA FreshNext ==
  ASSUME LTypeOK, CallInv, FreshInv, [LNext]_lvars PROVE FreshInv'
  <1>0. TypeOK /\ TickType /\ [Next]_vars
    BY LoopStep DEF LTypeOK, TickType
  <1> USE <1>0 DEF tickVars
  <1> SUFFICES ASSUME NEW q \in Coordinators, tick'[q] = "Reserved" \/ Asked(q)'
               PROVE  expected'[q] <= sequence' /\ (expected'[q] = sequence' => base'[q] = Snapshot')
    BY DEF FreshInv
  <1>1. CASE TickKept(q)
    BY <1>1, FreshKept DEF TickKept, Asked
  <1> SUFFICES ASSUME ~ TickKept(q)
               PROVE  expected'[q] <= sequence' /\ (expected'[q] = sequence' => base'[q] = Snapshot')
    BY <1>1
  <1>2. ASSUME NEW p \in Coordinators, Return(p) PROVE FALSE
    BY <1>2 DEF Return, TickType, TickKept, Asked
  <1>3. ASSUME NEW p \in Coordinators, ReserveCall(p)
        PROVE  expected'[q] <= sequence' /\ (expected'[q] = sequence' => base'[q] = Snapshot')
    <2>1. q = p /\ expected'[p] = sequence' /\ base'[p] = Snapshot
      BY <1>3 DEF ReserveCall, TickType, TickKept
    <2>2. Snapshot' = Snapshot
      BY <1>3 DEF ReserveCall, ModelCallReserved, Snapshot, ToolCalls, stepVars, evidenceVars,
                  graphVars, loopVars
    <2>3. sequence' \in Nat
      BY <1>3 DEF ReserveCall, ModelCallReserved, Record, TypeOK
    <2> QED
      BY <2>1, <2>2, <2>3
  <1>4. ASSUME NEW p \in Coordinators, NEW r, Send(p) \/ Answer(p, r) \/ PlannerFails(p, r)
        PROVE  expected'[q] <= sequence' /\ (expected'[q] = sequence' => base'[q] = Snapshot')
    <2>1. q = p /\ (tick[p] = "Reserved" \/ tick[p] = "Waiting") /\ UNCHANGED <<vars, expected, base>>
      BY <1>4 DEF Send, Answer, PlannerFails, TickType, TickKept
    <2>2. Snapshot' = Snapshot /\ sequence' = sequence
      BY <2>1 DEF Snapshot, ToolCalls, vars, stepVars, evidenceVars, graphVars, loopVars
    <2> QED
      BY <2>1, <2>2 DEF FreshInv, Asked
  <1>5. ASSUME NEW p \in Coordinators, FindReservedCall(p) \/ (Conflict(p) /\ ~ Return(p)) PROVE FALSE
    BY <1>5 DEF FindReservedCall, Conflict, TickType, TickKept, Asked
  <1>6. ASSUME NEW p \in Coordinators, Configure(p) \/ Abandon(p) PROVE FALSE
    BY <1>6 DEF Configure, Abandon, TickKept
  <1>7. CASE HostDrives \/ UNCHANGED lvars
    BY <1>7 DEF HostDrives, lvars, TickKept
  <1> QED
    BY <1>2, <1>3, <1>4, <1>5, <1>6, <1>7
       DEF LNext, TickNext, Report, ResolveConflict, ResolveFails, BreakOff

\* Only the report of a plan or a completion accepts a turn.
LEMMA TurnAccepted ==
  ASSUME LTypeOK, CallInv, [LNext]_lvars, turns' # turns
  PROVE  \E p \in Coordinators :
            /\ tick[p] = "Reporting" /\ HeadHeld(p) /\ report[p] \in {"Plan", "Candidate"}
            /\ PlanAccepted(DecisionOf(p)) \/ CompletionCandidateRecorded(DecisionOf(p))
  <1>0. TypeOK
    BY DEF LTypeOK
  <1> USE <1>0 DEF loopVars
  <1>1. ASSUME NEW p \in Coordinators, Report(p),
               ~ (/\ report[p] \in {"Plan", "Candidate"}
                  /\ PlanAccepted(DecisionOf(p)) \/ CompletionCandidateRecorded(DecisionOf(p)))
        PROVE  FALSE
    <2>1. ModelCallRejected(call[p], FALSE) \/ ModelCallBecameUnknown(call[p])
      BY <1>1 DEF Report
    <2> QED
      BY <2>1, CallClosed
  <1>2. ASSUME NEW p \in Coordinators, ResolveConflict(p) \/ Abandon(p) PROVE FALSE
    BY <1>2, CallClosed DEF ResolveConflict, Abandon
  <1>3. ASSUME NEW p \in Coordinators, Configure(p) \/ ReserveCall(p) PROVE FALSE
    BY <1>3 DEF Configure, AgentLoopConfigured, ModelCallLifecycleConfigured, ReserveCall,
                ModelCallReserved
  <1>4. ASSUME NEW p \in Coordinators, FindReservedCall(p) \/ BreakOff(p) \/ Send(p) \/ Conflict(p) \/ ResolveFails(p)
        PROVE  FALSE
    BY <1>4 DEF FindReservedCall, BreakOff, Send, Conflict, ResolveFails, vars
  <1>5. ASSUME NEW p \in Coordinators, NEW r, Answer(p, r) \/ PlannerFails(p, r) PROVE FALSE
    BY <1>5 DEF Answer, PlannerFails, vars
  <1>6. CASE HostDrives \/ UNCHANGED lvars
    BY <1>6, HostStep DEF lvars, vars
  <1> QED
    BY <1>1, <1>2, <1>3, <1>4, <1>5, <1>6 DEF LNext, TickNext, Report

\* A turn is accepted only from a tick whose snapshot is still current.
LEMMA AnswerFresh ==
  ASSUME LTypeOK, CallInv, SendInv, FreshInv, [LNext]_lvars, lifecycle, turns' # turns
  PROVE  \E p \in Coordinators : base[p] = Snapshot /\ call[p] \notin doubted /\ sends[call[p]] = 1
  <1>1. PICK p \in Coordinators :
            /\ tick[p] = "Reporting" /\ HeadHeld(p) /\ report[p] \in {"Plan", "Candidate"}
            /\ PlanAccepted(DecisionOf(p)) \/ CompletionCandidateRecorded(DecisionOf(p))
    BY TurnAccepted
  <1>2. call[p] \in Calls /\ sends[call[p]] = 1
    BY <1>1 DEF SendInv, Asked
  <1>3. base[p] = Snapshot
    BY <1>1 DEF FreshInv, Asked, HeadHeld
  <1>4. activeCall # None /\ activeCall.status = "Reserved" /\ activeCall.index = call[p]
    BY <1>1, <1>2, CallAnswered DEF LTypeOK
  <1> QED
    BY <1>2, <1>3, <1>4 DEF SendInv

\* An answer is committed only on the graph its context was built from, by the
\* coordinator that sent the one request, and never for a call that was in doubt
\* (validate_model_call_success and the head check of every append).
THEOREM AcceptedAnswersAreFresh == LSpec => AcceptedAnswerIsFresh
  <1>1. LTypeOK /\ CallInv /\ SendInv /\ FreshInv /\ [LNext]_lvars =>
            [lifecycle /\ turns' # turns =>
                \E p \in Coordinators :
                    base[p] = Snapshot /\ call[p] \notin doubted /\ sends[call[p]] = 1]_lvars
    BY AnswerFresh
  <1> QED
    BY <1>1, LoopInit, LoopNext, SendInit, SendNext, FreshNext, PTL DEF LSpec, AcceptedAnswerIsFresh
=============================================================================
