------------------------------ MODULE Admission -------------------------------
(***************************************************************************)
(* The path of an invocation through the core: planned, prepared against a *)
(* policy decision, authorized and committed (xgeny-runtime/src/           *)
(* admission.rs), its material recovered after a restart (material.rs),    *)
(* handed to an adapter (executor.rs) and verified (verification.rs).      *)
(*                                                                         *)
(* Everything the path rests on may change between two of its steps: the   *)
(* host restarts with another definition or other instances, a name        *)
(* resolves to another resource, the material provider answers with other  *)
(* arguments, another step appends to the journal.  Digests are the values *)
(* they commit to.  Execution's durable points are in EffectRuntime;       *)
(* here an adapter call and its observation are one step.                  *)
(***************************************************************************)
EXTENDS Capability

CONSTANTS Steps, Args,     \* step ids; argument values, each a function
          Catalogs,        \* what a host may register: [def, insts, adapters]
          Worlds,          \* what the resource resolver may answer
          Routes, Policies,\* route requests; policy layers of a decision
          Reports,         \* what a verifier may report
          LegacyActions    \* argument values planned by an earlier version

\* The types of what a host registers, a policy decides and a verifier reports.
ASSUME AdmissionAssumption ==
    /\ \A c \in Catalogs :
        /\ {"api", "class", "critical", "selectors", "rules"} \subseteq DOMAIN c.def
        /\ c.def.rules \in Seq([strategy : STRING, required : BOOLEAN])
    /\ \A layers \in Policies :
        /\ ToSet(layers) # None
        /\ \A layer \in ToSet(layers) : layer.verdict \in {"Allow", "Ask", "Deny"}
    /\ \A report \in Reports : report.results \in Seq({"Passed", "Failed", "Inconclusive"})

VARIABLES def, insts,      \* CapabilityRegistry
          adapters,        \* bindings with an adapter and a verifier
          world,           \* the resolver
          head,            \* journal sequence
          step,            \* RunState: status, planned, intent, receipt
          pending,         \* PendingInvocation, or None
          material,        \* InvocationMaterial, or None
          approved,        \* history: what the policy layers allowed, per step
          calls            \* history: adapter calls

vars == <<def, insts, adapters, world, head, step, pending, material, approved, calls>>

registry == <<def, insts, adapters>>

\* register_schema_validated_definition and register_schema_validated_instance:
\* the host fills its registry before it does anything else.
Registrable(c) ==
    /\ DefinitionValid(c.def)
    /\ \A i \in c.insts : InstanceValid(i, c.def)
    /\ \A i, j \in c.insts : i.id = j.id => i = j

Init ==
    /\ \E c \in Catalogs : Registrable(c) /\ def = c.def /\ insts = c.insts /\ adapters = c.adapters
    /\ world \in Worlds
    /\ head = 0
    /\ step = [s \in Steps |->
                [status |-> "Absent", planned |-> None, intent |-> None, receipt |-> None]]
    /\ pending = None /\ material = None
    /\ approved = [s \in Steps |-> None]
    /\ calls = {}

-----------------------------------------------------------------------------
(* The host and its surroundings *)

\* The process ends and another starts with what its host registers then; what
\* was not durable is gone.
Restart(c) ==
    /\ Registrable(c)
    /\ def' = c.def /\ insts' = c.insts /\ adapters' = c.adapters
    /\ pending' = None /\ material' = None
    /\ UNCHANGED <<world, head, step, approved, calls>>

ResolverChanges ==
    /\ world' \in Worlds \ {world}
    /\ UNCHANGED <<registry, head, step, pending, material, approved, calls>>

-----------------------------------------------------------------------------
(* Planning and preparation *)

Supported == {"ReadOnly", "Idempotent", "NonIdempotent"}

\* validate_arguments against the input schema, on both sides of normalization.
Conforms(a) ==
    /\ a \in def.accepts
    /\ ResolutionOk(world, def, a)
    /\ Normalized(world, def, a) \in def.accepts

\* prepare_invocation_facts: a mutating definition offers an idempotency key, and
\* the arguments conform before and after they are normalized.
FactsOk(a) ==
    /\ def.class \in Supported
    /\ def.class # "ReadOnly" => def.key
    /\ Conforms(a)

SemanticAction(a) ==
    [contract |-> Contract(def), args |-> Normalized(world, def, a),
     resources |-> Resources(world, def, a)]

\* An occurrence profile binds the action to its step; a legacy profile and an
\* unplanned invocation keep the semantic identity.
ActionDigest(s, planned, semantic) ==
    [step |-> IF planned # None /\ planned.occurrence THEN s ELSE None,
     semantic |-> semantic]

\* Every action digest a planned step or an intent holds.
ActionsOf(s) ==
    {x.action : x \in {step[s].planned, step[s].intent} \ {None}}

\* existing_action_owners: no plan is accepted once two steps share an action.
OwnersUnique ==
    \A s, t \in Steps : s # t => ActionsOf(s) \cap ActionsOf(t) = {}

\* A plan is accepted with the invocation it was prepared for.
Plan(s, a, occurrence) ==
    /\ step[s].status = "Absent"
    /\ FactsOk(a)
    /\ LET planned == [occurrence |-> occurrence, readOnly |-> def.class = "ReadOnly",
                       contract |-> Contract(def), input |-> Normalized(world, def, a),
                       action |-> ActionDigest(s, [occurrence |-> occurrence],
                                               SemanticAction(a))]
       IN /\ OwnersUnique
          /\ \A t \in Steps : planned.action \notin ActionsOf(t)
          /\ step' = [step EXCEPT ![s].status = "Planned", ![s].planned = planned]
    /\ head' = head + 1
    /\ UNCHANGED <<registry, world, pending, material, approved, calls>>

\* A step planned without an invocation: the host supplies the arguments later.
PlanUnbound(s) ==
    /\ step[s].status = "Absent"
    /\ step' = [step EXCEPT ![s].status = "Planned"]
    /\ head' = head + 1
    /\ UNCHANGED <<registry, world, pending, material, approved, calls>>

\* verify_planned_route_binding
RouteHonoursPlan(s, q) ==
    /\ q.style = "Sync"
    /\ ("Key" \in q.features) = (step[s].planned = None \/ ~step[s].planned.readOnly)

\* verify_unplanned_read_only_boundary, verify_planned_definition_binding
DefinitionHonoursPlan(s) ==
    LET planned == step[s].planned
    IN IF planned = None
       THEN def.class # "ReadOnly"
       ELSE /\ planned.contract = Contract(def)
            /\ def.class \in Supported
            /\ planned.readOnly = (def.class = "ReadOnly")

\* verify_planned_admission_binding
FactsHonourPlan(s, a) ==
    LET planned == step[s].planned
    IN planned # None =>
        /\ planned.contract = Contract(def)
        /\ planned.action = ActionDigest(s, planned, SemanticAction(a))
        /\ planned.input = Normalized(world, def, a)

\* prepare, and prepare_planned_admission with the arguments a that the material
\* provider answered: a planned invocation keeps its durable reference.
Prepare(s, q, a) ==
    /\ pending = None
    /\ step[s].status = "Planned"
    /\ RouteHonoursPlan(s, q)
    /\ DefinitionHonoursPlan(s)
    /\ FactsOk(a)
    /\ FactsHonourPlan(s, a)
    /\ pending' = [step |-> s, route |-> q, head |-> head,
                   args |-> Normalized(world, def, a),
                   request |-> PermissionRequest(world, def, a, s),
                   contract |-> Contract(def),
                   action |-> ActionDigest(s, step[s].planned, SemanticAction(a)),
                   retention |-> IF step[s].planned = None THEN "Ephemeral" ELSE "Reference"]
    /\ UNCHANGED <<registry, world, head, step, material, approved, calls>>

\* with_reconstructable_material: only an unplanned invocation chooses its reference.
WithReconstructableMaterial ==
    /\ pending # None
    /\ pending.retention = "Ephemeral"
    /\ pending' = [pending EXCEPT !.retention = "Reference"]
    /\ UNCHANGED <<registry, world, head, step, material, approved, calls>>

-----------------------------------------------------------------------------
(* Authorization *)

\* What authorize_and_commit requires before it decides anything.
StillPrepared ==
    /\ pending.head = head
    /\ step[pending.step].status = "Planned"
    /\ Contract(def) = pending.contract

\* The whole decision: an instance, or an outcome that commits nothing.
Decide(inputs) ==
    LET policy == Evaluate(pending.request, inputs)
    IN IF ~StillPrepared \/ inputs.managed \/ policy = "Error" THEN Outcome("Error")
       ELSE Route(insts, def, pending.route, pending.request, policy)

\* durable output, and with it the receipt profile, as build_receipt_provenance
\* fixes it.
OutputProfile(d) == d.class = "ReadOnly" \/ (d.class \in Supported /\ d.durable)

\* issue_once_effect: the effect and the grant are functions of the action.
IssuedIntent(i) ==
    [action |-> pending.action, contract |-> pending.contract, class |-> def.class,
     instance |-> i.id, binding |-> Binding(i),
     material |-> pending.args, retention |-> pending.retention,
     output |-> OutputProfile(def), rules |-> def.rules, issuedAt |-> head]

\* Slip: the use budget of the grant is not looked at.
GrantIgnored(action) == \A t \in Steps : action = action

\* The reducer takes an intent whose grant was not used: one use per action.
GrantUnused(action) ==
    \A t \in Steps : step[t].intent # None => step[t].intent.action # action

\* The pending invocation is consumed whatever the outcome.  An ephemeral
\* invocation keeps its arguments in memory, the only copy of them.
AuthorizeAndCommit(inputs) ==
    /\ pending # None
    /\ LET decision == Decide(inputs)
           i == decision.instance
           s == pending.step
       IN IF /\ decision.kind = "Selected"
             /\ i.placement = "Local"
             /\ GrantUnused(pending.action)
          THEN /\ step' = [step EXCEPT ![s].status = "IntentCommitted",
                                       ![s].intent = IssuedIntent(i)]
               /\ approved' = [approved EXCEPT ![s] = ToSet(inputs.layers)]
               /\ head' = head + 1
               /\ material' = IF pending.retention = "Ephemeral"
                              THEN [step |-> s, args |-> pending.args] ELSE material
          ELSE UNCHANGED <<step, approved, head, material>>
    /\ pending' = None
    /\ UNCHANGED <<registry, world, calls>>

-----------------------------------------------------------------------------
(* Material, execution, verification *)

\* Slip: an instance is recognised by its id alone.
InstanceById(s) ==
    {i \in insts : i.id = step[s].intent.instance}

\* The checks executor, recovery and verification make of the current registry.
CurrentInstance(s) ==
    {i \in insts : /\ i.id = step[s].intent.instance
                   /\ Binding(i) = step[s].intent.binding
                   /\ Contract(def) = step[s].intent.contract}

\* InvocationMaterialRecovery::recover with the provider's answer a.
Recover(s, a) ==
    /\ material = None
    /\ step[s].status = "IntentCommitted"
    /\ step[s].intent.retention = "Reference"
    /\ CurrentInstance(s) # {}
    /\ Conforms(a)
    /\ Normalized(world, def, a) = step[s].intent.material
    /\ ActionDigest(s, step[s].planned, SemanticAction(a)) = step[s].intent.action
    /\ material' = [step |-> s, args |-> Normalized(world, def, a)]
    /\ UNCHANGED <<registry, world, head, step, pending, approved, calls>>

\* mark_unavailable: ephemeral arguments that a restart took cannot come back.
MarkUnavailable(s) ==
    /\ step[s].status = "IntentCommitted"
    /\ step' = [step EXCEPT ![s].status = "ManualRequired"]
    /\ head' = head + 1
    /\ UNCHANGED <<registry, world, pending, material, approved, calls>>

\* verify_dynamic_execution_gate
ExecutionGate(i) ==
    /\ i.placement = "Local"
    /\ i.health = "Available"
    /\ i.auth = "NotRequired" /\ ~i.authRef

\* DirectSink::execute: an output the profile asks for and does not get, or gets
\* in a form its schema refuses, proves nothing about the effect.
Observation(s, answer) ==
    CASE answer = "Failed" -> "Failed"
      [] answer = "Succeeded" /\ ~step[s].intent.output -> "Validating"
      [] answer = "SucceededWithOutput" /\ step[s].intent.output -> "Validating"
      [] OTHER -> "EffectUnknown"

\* DirectExecutor::drive_step on an authorized step.
Execute(s, answer) ==
    /\ step[s].status = "IntentCommitted"
    /\ material # None /\ material.step = s
    /\ material.args = step[s].intent.material
    /\ \E i \in CurrentInstance(s) :
        /\ def.rules = step[s].intent.rules
        /\ ExecutionGate(i)
        /\ i.ref \in adapters
        /\ calls' = calls \cup {[step |-> s, instance |-> i, def |-> def,
                                 args |-> material.args]}
    /\ step' = [step EXCEPT ![s].status = Observation(s, answer)]
    /\ head' = head + 2
    /\ material' = None
    /\ UNCHANGED <<registry, world, pending, approved>>

\* Slip: one passed rule is enough.
EvaluateLoosely(rules, results) ==
    LET Required(r) == \E n \in DOMAIN rules : rules[n].required /\ results[n] = r
    IN IF Required("Failed") THEN "Failed"
       ELSE IF \A n \in DOMAIN results : results[n] # "Passed" THEN "Inconclusive"
       ELSE "Passed"

\* evaluate_core_verification_v1 over the results, one per rule.
EvaluateVerification(rules, results) ==
    LET Required(r) == \E n \in DOMAIN rules : rules[n].required /\ results[n] = r
    IN IF Required("Failed") THEN "Failed"
       ELSE IF Required("Inconclusive") THEN "Inconclusive"
       ELSE IF \A n \in DOMAIN results : results[n] # "Passed" THEN "Inconclusive"
       ELSE "Passed"

\* verify_report and verify_report_profile: one result per rule of the plan, an
\* output digest equal to the recorded output, artifacts exactly with the output
\* profile.
ReportMatches(s, report) ==
    /\ Len(report.results) = Len(step[s].intent.rules)
    /\ report.artifacts = step[s].intent.output
    /\ report.output = (IF step[s].intent.output THEN "Recorded" ELSE "Own")

\* build_execution_receipt: what a completed effect is later shown to have been.
Receipt(s, report) ==
    [action |-> step[s].intent.action, contract |-> step[s].intent.contract,
     instance |-> step[s].intent.instance, input |-> step[s].intent.material,
     results |-> report.results, output |-> report.output]

\* VerificationRunner::drive_step; the receipt is part of the terminal record.
Verify(s, report) ==
    /\ step[s].status = "Validating"
    /\ \E i \in CurrentInstance(s) : i.ref \in adapters
    /\ def.rules = step[s].intent.rules
    /\ ReportMatches(s, report)
    /\ LET outcome == EvaluateVerification(step[s].intent.rules, report.results)
       IN step' = [step EXCEPT ![s].status = CASE outcome = "Passed" -> "Completed"
                                               [] outcome = "Failed" -> "Failed"
                                               [] OTHER -> "ManualRequired",
                               ![s].receipt = Receipt(s, report)]
    /\ head' = head + 1
    /\ UNCHANGED <<registry, world, pending, material, approved, calls>>

-----------------------------------------------------------------------------
\* A decision is made for the pending request, or for that of another step.
InputsFor(request) ==
    {[request |-> [request EXCEPT !.step = s], managed |-> Len(layers) = 3, layers |-> layers] :
        s \in Steps, layers \in Policies}

Next ==
    \/ \E c \in Catalogs : Restart(c)
    \/ ResolverChanges
    \/ \E s \in Steps, a \in Args : Plan(s, a, TRUE)
    \/ \E s \in Steps, a \in LegacyActions : Plan(s, a, FALSE)
    \/ \E s \in Steps : PlanUnbound(s)
    \/ \E s \in Steps, q \in Routes, a \in Args : Prepare(s, q, a)
    \/ WithReconstructableMaterial
    \/ pending # None /\ \E inputs \in InputsFor(pending.request) : AuthorizeAndCommit(inputs)
    \/ \E s \in Steps, a \in Args : Recover(s, a)
    \/ \E s \in Steps : MarkUnavailable(s)
    \/ \E s \in Steps, answer \in {"Succeeded", "SucceededWithOutput", "Failed", "Unknown"} :
        Execute(s, answer)
    \/ \E s \in Steps, report \in Reports : Verify(s, report)

Spec == Init /\ [][Next]_vars

-----------------------------------------------------------------------------
(* Properties *)

\* What an adapter is called with is what every policy layer allowed and what
\* the plan bound: however definitions, instances, names and the provider's
\* answers changed between planning, the decision, a restart and the call, the
\* resources the arguments name were allowed by each layer, the arguments and
\* the contract are those of the plan, and the instance is the local, healthy
\* one the router chose then.  A decision made stale by any of these changes
\* never reaches an adapter.
CallsAreAuthorized ==
    \A c \in calls :
        LET planned == step[c.step].planned
            named == {[scope |-> sel.scope, resource |-> c.args[sel.pointer]] :
                        sel \in c.def.selectors}
        IN /\ approved[c.step] # None
           /\ \A layer \in approved[c.step] :
                layer.verdict = "Allow" /\ named \subseteq layer.resources
           /\ Contract(c.def) = step[c.step].intent.contract
           /\ Binding(c.instance) = step[c.step].intent.binding
           /\ c.instance.placement = "Local" /\ c.instance.health = "Available"
           /\ c.def.critical = <<>>
           /\ planned # None => /\ c.args = planned.input
                                /\ Contract(c.def) = planned.contract

\* Two steps never hold intents with the same effect, so a tool that is asked for
\* twice has two effects and one grant is used once; and two planned steps never
\* share an action, so existing_action_owners refuses a plan only when an
\* unplanned invocation took the action of a plan of an earlier version.
EffectsAreDistinct ==
    \A s, t \in Steps : s # t =>
        /\ (step[s].intent # None /\ step[t].intent # None)
            => step[s].intent.action # step[t].intent.action
        /\ (step[s].planned # None /\ step[t].planned # None)
            => ActionsOf(s) \cap ActionsOf(t) = {}

\* A completed step was judged by the rules of the contract that was authorized,
\* every required rule passed and some rule did, and its receipt names the
\* arguments and the contract of a call that was made.
CompletedIsVerified ==
    \A s \in Steps : step[s].status = "Completed" =>
        LET rules == step[s].intent.rules
            results == step[s].receipt.results
        IN /\ rules = step[s].intent.contract.rules
           /\ \A n \in DOMAIN rules : rules[n].required => results[n] = "Passed"
           /\ \E n \in DOMAIN rules : results[n] = "Passed"
           /\ \E c \in calls : /\ c.step = s /\ c.args = step[s].receipt.input
                               /\ Contract(c.def) = step[s].receipt.contract
=============================================================================
