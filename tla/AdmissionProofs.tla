--------------------------- MODULE AdmissionProofs ---------------------------
(***************************************************************************)
(* Theorems about the path of an invocation, for any steps, catalogs,      *)
(* resolvers, routes and policies: an adapter is only ever called with     *)
(* what was planned and allowed, effects are distinct, and a completed     *)
(* step was verified by the rules it was authorized with.                  *)
(***************************************************************************)
EXTENDS Admission, SequenceTheorems, TLAPS

-----------------------------------------------------------------------------
(* The inductive invariant *)

Statuses == {"Absent", "Planned", "IntentCommitted", "Validating", "Completed", "Failed",
             "EffectUnknown", "ManualRequired"}
Early == {"Absent", "Planned"}

Rules == Seq([strategy : STRING, required : BOOLEAN])

\* The resources that arguments name under a contract.
Named(contract, args) ==
    {[scope |-> sel.scope, resource |-> args[sel.pointer]] : sel \in contract.selectors}

Shape ==
    /\ DOMAIN step = Steps /\ DOMAIN approved = Steps
    /\ \A s \in Steps : /\ DOMAIN step[s] = {"status", "planned", "intent", "receipt"}
                        /\ step[s].status \in Statuses
    /\ \E c \in Catalogs : def = c.def

\* What a plan fixed is what comes out of it.
HonoursPlan(x, args, planned) ==
    planned # None => /\ args = planned.input
                      /\ x.contract = planned.contract
                      /\ x.action = planned.action

\* A prepared invocation asks for exactly the resources its normalized arguments
\* name, and is the invocation that was planned.
PendingInv ==
    pending # None =>
        /\ DOMAIN pending = {"step", "route", "head", "args", "request", "contract", "action",
                             "retention"}
        /\ pending.step \in Steps /\ step[pending.step].status # "Absent"
        /\ pending.request.resources = Named(pending.contract, pending.args)
        /\ HonoursPlan(pending, pending.args, step[pending.step].planned)

\* An issued intent is what every layer allowed, and what was planned.
IntentOk(s) ==
    /\ approved[s] # None
    /\ \A layer \in approved[s] :
        /\ layer.verdict = "Allow"
        /\ Named(step[s].intent.contract, step[s].intent.material) \subseteq layer.resources
    /\ step[s].intent.contract.critical = <<>>
    /\ step[s].intent.rules = step[s].intent.contract.rules
    /\ step[s].intent.rules \in Rules
    /\ HonoursPlan(step[s].intent, step[s].intent.material, step[s].planned)

IntentInv ==
    /\ \A s \in Steps : step[s].status \in Early => step[s].intent = None
    /\ \A s \in Steps : step[s].status \notin Early => IntentOk(s)

\* A call was made with the intent's material, under its contract and binding.
CallOk(c) ==
    /\ c.step \in Steps /\ step[c.step].status \notin Early
    /\ Contract(c.def) = step[c.step].intent.contract
    /\ c.def.selectors = step[c.step].intent.contract.selectors
    /\ c.def.critical = step[c.step].intent.contract.critical
    /\ c.args = step[c.step].intent.material
    /\ Binding(c.instance) = step[c.step].intent.binding
    /\ c.instance.placement = "Local" /\ c.instance.health = "Available"

CallInv ==
    /\ \A c \in calls : CallOk(c)
    /\ \A s \in Steps : step[s].status \in {"Validating", "Completed"} => \E c \in calls : c.step = s

Inv == Shape /\ PendingInv /\ IntentInv /\ CallInv

-----------------------------------------------------------------------------
(* The pure decisions *)

\* A contract digest keeps what a definition says but for its API version.
LEMMA ContractKeeps ==
  ASSUME NEW d, {"api", "class", "critical", "selectors", "rules"} \subseteq DOMAIN d
  PROVE  /\ Contract(d).selectors = d.selectors
         /\ Contract(d).critical = d.critical
         /\ Contract(d).rules = d.rules
  BY DEF Contract

\* Where a resolution is accepted, the resources of the request are those the
\* normalized arguments name: two selectors of one pointer agree.
LEMMA ResolutionNames ==
  ASSUME NEW w, NEW d, NEW a, ResolutionOk(w, d, a)
  PROVE  Resources(w, d, a) = Named(d, Normalized(w, d, a))
  <1>1. ASSUME NEW sel \in d.selectors
        PROVE  Normalized(w, d, a)[sel.pointer] = Canonical(w, sel, a)
    <2> DEFINE x == CHOOSE y \in d.selectors : y.pointer = sel.pointer
    <2>1. x \in d.selectors /\ x.pointer = sel.pointer
      OBVIOUS
    <2>2. Canonical(w, x, a) = Canonical(w, sel, a)
      BY <2>1 DEF ResolutionOk
    <2>3. sel.pointer \in DOMAIN a
      BY DEF ResolutionOk, SelectorResolves
    <2>4. Normalized(w, d, a)[sel.pointer] = Canonical(w, x, a)
      <3> HIDE DEF x
      <3>1. Normalized(w, d, a)[sel.pointer] =
              IF \E y \in d.selectors : y.pointer = sel.pointer
              THEN Canonical(w, CHOOSE y \in d.selectors : y.pointer = sel.pointer, a)
              ELSE a[sel.pointer]
        BY <2>3, Zenon DEF Normalized
      <3> QED
        BY <3>1 DEF x
    <2> QED
      BY <2>2, <2>4
  <1> QED
    BY <1>1 DEF Resources, Resource, Named

\* A decision that selects an instance was allowed by every layer, for all the
\* resources of the request, and its definition has no critical action.
LEMMA SelectedAllowed ==
  ASSUME NEW inputs, inputs.layers \in Policies, Decide(inputs).kind = "Selected"
  PROVE  /\ StillPrepared
         /\ def.critical = <<>>
         /\ ToSet(inputs.layers) # None
         /\ \A layer \in ToSet(inputs.layers) :
              layer.verdict = "Allow" /\ pending.request.resources \subseteq layer.resources
  <1> DEFINE policy == Evaluate(pending.request, inputs)
  <1>1. \A k : k # "Selected" => Outcome(k).kind # "Selected"
    BY DEF Outcome
  <1>2. StillPrepared /\ policy # "Error"
    BY <1>1 DEF Decide
  <1>3. Route(insts, def, pending.route, pending.request, policy).kind = "Selected"
    BY <1>1 DEF Decide
  <1> HIDE DEF policy
  <1>4. ApplyPolicy(insts, def, pending.route, policy).kind = "Selected"
    BY <1>1, <1>3 DEF Route
  <1>5. policy \notin {"Deny", "Ask"} /\ def.critical = <<>>
    BY <1>1, <1>4 DEF ApplyPolicy
  <1>6. \A layer \in ToSet(inputs.layers) : ~Denies(layer, pending.request) /\ layer.verdict # "Ask"
    BY <1>2, <1>5 DEF policy, Evaluate
  <1>7. /\ ToSet(inputs.layers) # None
        /\ \A layer \in ToSet(inputs.layers) : layer.verdict \in {"Allow", "Ask", "Deny"}
    BY AdmissionAssumption
  <1> QED
    BY <1>2, <1>5, <1>6, <1>7 DEF Denies, Covers

\* Evaluation passes only with every required rule, and with some rule.
LEMMA PassedRules ==
  ASSUME NEW rules \in Rules, NEW results \in Seq({"Passed", "Failed", "Inconclusive"}),
         Len(results) = Len(rules), EvaluateVerification(rules, results) = "Passed"
  PROVE  /\ \A n \in DOMAIN rules : rules[n].required => results[n] = "Passed"
         /\ \E n \in DOMAIN rules : results[n] = "Passed"
  <1>1. DOMAIN results = DOMAIN rules
    BY DEF Rules
  <1>2. \A n \in DOMAIN results : results[n] \in {"Passed", "Failed", "Inconclusive"}
    OBVIOUS
  <1>3. \A r \in {"Failed", "Inconclusive"} : ~ \E n \in DOMAIN rules : rules[n].required /\ results[n] = r
    BY DEF EvaluateVerification
  <1>4. \E n \in DOMAIN results : results[n] = "Passed"
    BY DEF EvaluateVerification
  <1> QED
    BY <1>1, <1>2, <1>3, <1>4

-----------------------------------------------------------------------------
(* Every step keeps the invariant *)

\* Nothing is planned, issued or called in the first state.
LEMMA InvInit == Init => Inv
  <1> SUFFICES ASSUME Init PROVE Inv
    OBVIOUS
  <1>1. \A s \in Steps : step[s] = [status |-> "Absent", planned |-> None, intent |-> None, receipt |-> None]
    BY DEF Init
  <1>2. Shape
    BY <1>1 DEF Init, Shape, Statuses
  <1>3. IntentInv /\ CallInv
    BY <1>1 DEF Init, IntentInv, CallInv, Early
  <1>4. PendingInv
    BY DEF Init, PendingInv
  <1> QED
    BY <1>2, <1>3, <1>4 DEF Inv

\* One step changes its status and keeps what was planned and issued for it.
Moves(s, status) ==
    /\ DOMAIN step' = Steps /\ \A t \in Steps : t # s => step'[t] = step[t]
    /\ DOMAIN step'[s] = DOMAIN step[s]
    /\ step'[s].status = status
    /\ step'[s].planned = step[s].planned /\ step'[s].intent = step[s].intent
    /\ approved' = approved /\ def' = def

\* Such a move keeps the invariant, with the calls made on the way.
LEMMA MovesKeeps ==
  ASSUME Inv, NEW s \in Steps, NEW status \in Statuses \ Early, step[s].status \notin Early,
         Moves(s, status), pending' = pending, calls \subseteq calls',
         \A c \in calls' \ calls : CallOk(c),
         status \in {"Validating", "Completed"} => \E c \in calls' : c.step = s
  PROVE  Inv'
  <1>1. \A t \in Steps : /\ step'[t].planned = step[t].planned
                         /\ step'[t].intent = step[t].intent
                         /\ DOMAIN step'[t] = DOMAIN step[t]
                         /\ step'[t].status = IF t = s THEN status ELSE step[t].status
    BY DEF Moves, Inv, Shape
  <1>2. Shape'
    BY <1>1 DEF Moves, Inv, Shape
  <1>3. PendingInv'
    BY <1>1 DEF Moves, Inv, PendingInv, HonoursPlan, Early
  <1>4. IntentInv'
    <2>1. \A t \in Steps : IntentOk(t) => IntentOk(t)'
      BY <1>1 DEF Moves, IntentOk, HonoursPlan
    <2> QED
      BY <1>1, <2>1 DEF Inv, IntentInv
  <1>5. CallInv'
    <2>1. \A c : CallOk(c) => CallOk(c)'
      BY <1>1 DEF CallOk, Early
    <2>2. \A c \in calls' : CallOk(c)
      BY DEF Inv, CallInv
    <2> QED
      BY <1>1, <2>1, <2>2 DEF Inv, CallInv
  <1> QED
    BY <1>2, <1>3, <1>4, <1>5 DEF Inv

\* Planning touches only a step that was not there.
LEMMA PlanKeeps ==
  ASSUME Inv, NEW s \in Steps,
         PlanUnbound(s) \/ \E a, occurrence : Plan(s, a, occurrence)
  PROVE  Inv'
  <1>1. /\ step[s].status = "Absent"
        /\ DOMAIN step' = Steps
        /\ \A t \in Steps : t # s => step'[t] = step[t]
        /\ step'[s].status = "Planned" /\ step'[s].intent = step[s].intent
        /\ DOMAIN step'[s] = DOMAIN step[s]
    <2>1. CASE PlanUnbound(s)
      BY <2>1 DEF PlanUnbound, Inv, Shape
    <2>2. ASSUME NEW a, NEW occurrence, Plan(s, a, occurrence)
          PROVE  \E x : step' = [step EXCEPT ![s].status = "Planned", ![s].planned = x]
      BY <2>2, Zenon DEF Plan
    <2>3. ASSUME NEW a, NEW occurrence, Plan(s, a, occurrence) PROVE step[s].status = "Absent"
      BY <2>3 DEF Plan
    <2>4. ASSUME NEW x, step' = [step EXCEPT ![s].status = "Planned", ![s].planned = x]
          PROVE  /\ DOMAIN step' = Steps
                 /\ \A t \in Steps : t # s => step'[t] = step[t]
                 /\ step'[s].status = "Planned" /\ step'[s].intent = step[s].intent
                 /\ DOMAIN step'[s] = DOMAIN step[s]
      BY <2>4 DEF Inv, Shape
    <2> QED
      BY <2>1, <2>2, <2>3, <2>4
  <1>2. UNCHANGED <<approved, def, pending, calls>>
    BY DEF PlanUnbound, Plan, registry
  <1>3. Shape'
    BY <1>1, <1>2 DEF Inv, Shape, Statuses
  <1>4. PendingInv'
    BY <1>1, <1>2 DEF Inv, PendingInv, HonoursPlan
  <1>5. IntentInv'
    <2>1. \A t \in Steps : t # s => (IntentOk(t) => IntentOk(t)')
      BY <1>1, <1>2 DEF IntentOk, HonoursPlan
    <2> QED
      BY <1>1, <2>1 DEF Inv, IntentInv, Early
  <1>6. CallInv'
    <2>1. \A c : CallOk(c) => CallOk(c)'
      BY <1>1 DEF CallOk, Early
    <2> QED
      BY <1>1, <1>2, <2>1 DEF Inv, CallInv
  <1> QED
    BY <1>3, <1>4, <1>5, <1>6 DEF Inv

\* A step that leaves the journal and the pending invocation alone.
LEMMA QuietKeeps ==
  ASSUME Inv, UNCHANGED <<step, approved, calls>>,
         pending' \in {pending, None}, \E c \in Catalogs : def' = c.def
  PROVE  Inv'
  <1>1. Shape'
    BY DEF Inv, Shape
  <1>2. PendingInv'
    BY DEF Inv, PendingInv, HonoursPlan
  <1>3. IntentInv'
    BY DEF Inv, IntentInv, IntentOk, HonoursPlan
  <1>4. CallInv'
    BY DEF Inv, CallInv, CallOk
  <1> QED
    BY <1>1, <1>2, <1>3, <1>4 DEF Inv

\* A prepared invocation is the planned one and asks for what it names.
LEMMA PrepareKeeps ==
  ASSUME Inv, NEW s \in Steps, NEW q, NEW a, Prepare(s, q, a)
  PROVE  Inv'
  <1>1. UNCHANGED <<step, approved, calls, def>>
    BY DEF Prepare, registry
  <1>2. ResolutionOk(world, def, a)
    BY DEF Prepare, FactsOk, Conforms
  <1>3. Resources(world, def, a) = Named(def, Normalized(world, def, a))
    BY <1>2, ResolutionNames
  <1>4. Contract(def).selectors = def.selectors
    BY ContractKeeps, AdmissionAssumption DEF Inv, Shape
  <1>5. /\ pending'.step = s /\ pending'.args = Normalized(world, def, a)
        /\ pending'.contract = Contract(def)
        /\ pending'.action = ActionDigest(s, step[s].planned, SemanticAction(a))
        /\ pending'.request.resources = Resources(world, def, a)
        /\ DOMAIN pending' = {"step", "route", "head", "args", "request", "contract", "action", "retention"}
        /\ step[s].status = "Planned"
    BY DEF Prepare, PermissionRequest
  <1>6. HonoursPlan(pending', pending'.args, step[s].planned)
    BY <1>5 DEF Prepare, FactsHonourPlan, HonoursPlan
  <1>7. PendingInv'
    BY <1>1, <1>3, <1>4, <1>5, <1>6 DEF PendingInv, Named, HonoursPlan
  <1>8. Shape' /\ IntentInv' /\ CallInv'
    <2>1. Shape'
      BY <1>1 DEF Inv, Shape
    <2>2. IntentInv'
      BY <1>1 DEF Inv, IntentInv, IntentOk, HonoursPlan
    <2>3. CallInv'
      BY <1>1 DEF Inv, CallInv, CallOk
    <2> QED
      BY <2>1, <2>2, <2>3
  <1> QED
    BY <1>7, <1>8 DEF Inv

\* What authorize_and_commit issues is what the layers allowed, under the
\* contract the invocation was prepared with.
LEMMA CommitKeeps ==
  ASSUME Inv, pending # None, NEW inputs \in InputsFor(pending.request), AuthorizeAndCommit(inputs)
  PROVE  Inv'
  <1> DEFINE i == Decide(inputs).instance
  <1>0. PICK s \in Steps : s = pending.step
    BY DEF Inv, PendingInv
  <1>1. UNCHANGED <<def, calls>> /\ pending' = None
    BY DEF AuthorizeAndCommit, registry
  <1>2. CASE UNCHANGED <<step, approved>>
    BY <1>1, <1>2, QuietKeeps DEF Inv, Shape
  <1>3. CASE /\ Decide(inputs).kind = "Selected"
             /\ step' = [step EXCEPT ![s].status = "IntentCommitted", ![s].intent = IssuedIntent(i)]
             /\ approved' = [approved EXCEPT ![s] = ToSet(inputs.layers)]
    <2>1. inputs.layers \in Policies
      BY DEF InputsFor
    <2>2. /\ StillPrepared /\ def.critical = <<>> /\ ToSet(inputs.layers) # None
          /\ \A layer \in ToSet(inputs.layers) :
               layer.verdict = "Allow" /\ pending.request.resources \subseteq layer.resources
      BY <1>3, <2>1, SelectedAllowed
    <2>3. step[s].status = "Planned" /\ pending.contract = Contract(def)
      BY <1>0, <2>2 DEF StillPrepared
    <2>4. PICK new : /\ new = IssuedIntent(i)
                     /\ step' = [step EXCEPT ![s].status = "IntentCommitted", ![s].intent = new]
      BY <1>3
    <2>5. /\ new.action = pending.action /\ new.contract = pending.contract
          /\ new.material = pending.args /\ new.rules = def.rules
      BY <2>4 DEF IssuedIntent
    <2>6. /\ Contract(def).critical = def.critical /\ Contract(def).rules = def.rules
          /\ def.rules \in Rules
      BY ContractKeeps, AdmissionAssumption DEF Inv, Shape, Rules
    <2> HIDE DEF i
    <2>7. /\ DOMAIN step' = Steps /\ DOMAIN approved' = Steps
          /\ \A t \in Steps : t # s => step'[t] = step[t] /\ approved'[t] = approved[t]
          /\ step'[s].status = "IntentCommitted" /\ step'[s].intent = new
          /\ step'[s].planned = step[s].planned
          /\ DOMAIN step'[s] = DOMAIN step[s]
          /\ approved'[s] = ToSet(inputs.layers)
      BY <1>3, <2>3, <2>4 DEF Inv, Shape
    <2>8. Shape'
      BY <1>1, <2>3, <2>7 DEF Inv, Shape, Statuses
    <2>9. PendingInv'
      BY <1>1 DEF PendingInv
    <2>10. IntentOk(s)'
      <3>1. pending.request.resources = Named(new.contract, new.material)
        BY <2>5 DEF Inv, PendingInv
      <3>2. HonoursPlan(new, new.material, step[s].planned)
        BY <1>0, <2>5 DEF Inv, PendingInv, HonoursPlan
      <3> QED
        BY <2>2, <2>3, <2>5, <2>6, <2>7, <3>1, <3>2 DEF IntentOk, HonoursPlan
    <2>11. IntentInv'
      <3>1. \A t \in Steps : t # s => (IntentOk(t) => IntentOk(t)')
        BY <2>7 DEF IntentOk, HonoursPlan
      <3> QED
        BY <2>7, <2>10, <3>1 DEF Inv, IntentInv, Early
    <2>12. CallInv'
      <3>1. \A c : CallOk(c) => CallOk(c)'
        BY <2>3, <2>7 DEF CallOk, Early
      <3> QED
        BY <1>1, <2>7, <3>1 DEF Inv, CallInv
    <2> QED
      BY <2>8, <2>9, <2>11, <2>12 DEF Inv
  <1> QED
    BY <1>0, <1>2, <1>3 DEF AuthorizeAndCommit

\* A call goes to the instance and the contract of the intent, with its material.
LEMMA ExecuteKeeps ==
  ASSUME Inv, NEW s \in Steps, NEW answer, Execute(s, answer)
  PROVE  Inv'
  <1>1. /\ step[s].status = "IntentCommitted" /\ material.args = step[s].intent.material
        /\ Moves(s, Observation(s, answer)) /\ pending' = pending
    BY DEF Execute, Moves, registry, Inv, Shape
  <1>2. PICK i \in CurrentInstance(s) :
          /\ ExecutionGate(i)
          /\ calls' = calls \cup {[step |-> s, instance |-> i, def |-> def, args |-> material.args]}
    BY DEF Execute
  <1>3. Observation(s, answer) \in {"Failed", "Validating", "EffectUnknown"}
    BY Zenon DEF Observation
  <1>4. Contract(def).selectors = def.selectors /\ Contract(def).critical = def.critical
    BY ContractKeeps, AdmissionAssumption DEF Inv, Shape
  <1>5. \A c \in calls' \ calls : CallOk(c)
    BY <1>1, <1>2, <1>4 DEF CallOk, CurrentInstance, ExecutionGate, Early
  <1>6. \E c \in calls' : c.step = s
    <2> DEFINE c == [step |-> s, instance |-> i, def |-> def, args |-> material.args]
    <2>1. c \in calls' /\ c.step = s
      BY <1>2
    <2> QED
      BY <2>1
  <1> QED
    BY <1>1, <1>2, <1>3, <1>5, <1>6, MovesKeeps DEF Early, Statuses

\* Verification moves a step on.
LEMMA VerifyKeeps ==
  ASSUME Inv, NEW s \in Steps, NEW report, Verify(s, report)
  PROVE  Inv'
  <1> DEFINE outcome == EvaluateVerification(step[s].intent.rules, report.results)
  <1>1. PICK status \in {"Completed", "Failed", "ManualRequired"} :
          step' = [step EXCEPT ![s].status = status, ![s].receipt = Receipt(s, report)]
    <2> DEFINE x == CASE outcome = "Passed" -> "Completed"
                      [] outcome = "Failed" -> "Failed"
                      [] OTHER -> "ManualRequired"
    <2>1. step' = [step EXCEPT ![s].status = x, ![s].receipt = Receipt(s, report)]
      BY Zenon DEF Verify
    <2>2. x \in {"Completed", "Failed", "ManualRequired"}
      BY Zenon
    <2> QED
      BY <2>1, <2>2
  <1>2. Moves(s, status) /\ UNCHANGED <<pending, calls>> /\ step[s].status = "Validating"
    BY <1>1 DEF Verify, Moves, registry, Inv, Shape
  <1>3. \E c \in calls : c.step = s
    BY <1>2 DEF Inv, CallInv
  <1> QED
    BY <1>2, <1>3, MovesKeeps DEF Early, Statuses

\* So does mark_unavailable.
LEMMA UnavailableKeeps ==
  ASSUME Inv, NEW s \in Steps, MarkUnavailable(s)
  PROVE  Inv'
  <1>1. Moves(s, "ManualRequired") /\ UNCHANGED <<pending, calls>> /\ step[s].status = "IntentCommitted"
    BY DEF MarkUnavailable, Moves, registry, Inv, Shape
  <1> QED
    BY <1>1, MovesKeeps DEF Early, Statuses

\* with_reconstructable_material changes only the retention.
LEMMA RetentionKeeps ==
  ASSUME Inv, WithReconstructableMaterial
  PROVE  Inv'
  <1>1. UNCHANGED <<step, approved, calls, def>>
    BY DEF WithReconstructableMaterial, registry
  <1>2. /\ DOMAIN pending' = DOMAIN pending
        /\ pending'.step = pending.step /\ pending'.args = pending.args
        /\ pending'.request = pending.request /\ pending'.contract = pending.contract
        /\ pending'.action = pending.action
    BY DEF WithReconstructableMaterial, Inv, PendingInv
  <1>3. PendingInv'
    BY <1>1, <1>2 DEF WithReconstructableMaterial, Inv, PendingInv, HonoursPlan
  <1>4. Shape'
    BY <1>1 DEF Inv, Shape
  <1>5. IntentInv'
    BY <1>1 DEF Inv, IntentInv, IntentOk, HonoursPlan
  <1>6. CallInv'
    BY <1>1 DEF Inv, CallInv, CallOk
  <1> QED
    BY <1>3, <1>4, <1>5, <1>6 DEF Inv

\* Every step keeps the invariant.
LEMMA InvNext == Inv /\ [Next]_vars => Inv'
  <1> SUFFICES ASSUME Inv, [Next]_vars PROVE Inv'
    OBVIOUS
  <1>1. CASE UNCHANGED vars
    BY <1>1, QuietKeeps DEF vars, Inv, Shape
  <1>2. ASSUME NEW c \in Catalogs, Restart(c) PROVE Inv'
    BY <1>2, QuietKeeps DEF Restart
  <1>3. CASE ResolverChanges
    BY <1>3, QuietKeeps DEF ResolverChanges, registry, Inv, Shape
  <1>4. ASSUME NEW s \in Steps, NEW a, Recover(s, a) PROVE Inv'
    BY <1>4, QuietKeeps DEF Recover, registry, Inv, Shape
  <1> QED
    BY <1>1, <1>2, <1>3, <1>4, PlanKeeps, PrepareKeeps, RetentionKeeps, CommitKeeps, UnavailableKeeps,
       ExecuteKeeps, VerifyKeeps DEF Next

\* The invariant holds in every behaviour.
LEMMA InvAlways == Spec => []Inv
  BY InvInit, InvNext, PTL DEF Spec

-----------------------------------------------------------------------------
(* The theorems *)

\* An adapter is called only with what was planned and what every policy layer
\* allowed, whatever was registered, resolved or answered in between and however
\* often the host restarted: the direct executor's gate is sufficient.
THEOREM CallsAlwaysAuthorized == Spec => []CallsAreAuthorized
  <1>1. ASSUME Inv PROVE CallsAreAuthorized
    <2> SUFFICES ASSUME NEW c \in calls
                 PROVE  /\ approved[c.step] # None
                        /\ \A layer \in approved[c.step] :
                             /\ layer.verdict = "Allow"
                             /\ {[scope |-> sel.scope, resource |-> c.args[sel.pointer]] :
                                   sel \in c.def.selectors} \subseteq layer.resources
                        /\ Contract(c.def) = step[c.step].intent.contract
                        /\ Binding(c.instance) = step[c.step].intent.binding
                        /\ c.instance.placement = "Local" /\ c.instance.health = "Available"
                        /\ c.def.critical = <<>>
                        /\ step[c.step].planned # None =>
                             /\ c.args = step[c.step].planned.input
                             /\ Contract(c.def) = step[c.step].planned.contract
      BY Zenon DEF CallsAreAuthorized
    <2>1. CallOk(c) /\ IntentOk(c.step)
      BY <1>1 DEF Inv, CallInv, IntentInv, CallOk
    <2> QED
      BY <2>1 DEF CallOk, IntentOk, Named, HonoursPlan
  <1> QED
    BY <1>1, InvAlways, PTL

\* What a step of the system may do to plans and intents: nothing, plan one step
\* with an action that is nobody's, or issue one intent whose grant is unused.
LEMMA ActionEdges ==
  ASSUME Inv, [Next]_vars
  PROVE  \/ \A t \in Steps : step'[t].planned = step[t].planned /\ step'[t].intent = step[t].intent
         \/ \E s \in Steps :
              /\ \A t \in Steps : t # s => step'[t] = step[t]
              /\ \/ /\ step'[s].intent = step[s].intent
                    /\ \A t \in Steps : step'[s].planned.action \notin ActionsOf(t)
                 \/ /\ step'[s].planned = step[s].planned
                    /\ GrantUnused(step'[s].intent.action)
  <1> DEFINE Same == \A t \in Steps : step'[t].planned = step[t].planned /\ step'[t].intent = step[t].intent
             Goal == \/ Same
                     \/ \E s \in Steps :
                          /\ \A t \in Steps : t # s => step'[t] = step[t]
                          /\ \/ /\ step'[s].intent = step[s].intent
                                /\ \A t \in Steps : step'[s].planned.action \notin ActionsOf(t)
                             \/ /\ step'[s].planned = step[s].planned
                                /\ GrantUnused(step'[s].intent.action)
  <1> SUFFICES Goal
    OBVIOUS
  <1>1. ASSUME NEW s \in Steps, NEW a, NEW occurrence, Plan(s, a, occurrence) PROVE Goal
    <2>1. PICK x : /\ \A t \in Steps : x.action \notin ActionsOf(t)
                   /\ step' = [step EXCEPT ![s].status = "Planned", ![s].planned = x]
      BY <1>1, Zenon DEF Plan
    <2>2. /\ \A t \in Steps : t # s => step'[t] = step[t]
          /\ step'[s].intent = step[s].intent /\ step'[s].planned = x
      BY <2>1 DEF Inv, Shape
    <2> QED
      BY <2>1, <2>2
  <1>2. ASSUME NEW s \in Steps, PlanUnbound(s) PROVE Same
    BY <1>2 DEF PlanUnbound, Inv, Shape
  <1>3. ASSUME pending # None, NEW inputs \in InputsFor(pending.request), AuthorizeAndCommit(inputs)
        PROVE  Goal
    <2>1. CASE step' = step
      BY <2>1
    <2>2. CASE step' # step
      <3>1. PICK s \in Steps : s = pending.step
        BY <1>3 DEF Inv, PendingInv
      <3>2. PICK x : /\ x.action = pending.action
                     /\ GrantUnused(pending.action)
                     /\ step' = [step EXCEPT ![s].status = "IntentCommitted", ![s].intent = x]
        <4> DEFINE x == IssuedIntent(Decide(inputs).instance)
        <4>1. x.action = pending.action
          BY DEF IssuedIntent
        <4>2. /\ GrantUnused(pending.action)
              /\ step' = [step EXCEPT ![s].status = "IntentCommitted", ![s].intent = x]
          BY <1>3, <2>2, <3>1 DEF AuthorizeAndCommit
        <4> QED
          BY <4>1, <4>2
      <3>3. /\ \A t \in Steps : t # s => step'[t] = step[t]
            /\ step'[s].planned = step[s].planned /\ step'[s].intent = x
        BY <3>2 DEF Inv, Shape
      <3> QED
        BY <3>2, <3>3
    <2> QED
      BY <2>1, <2>2
  <1>4. ASSUME NEW s \in Steps, MarkUnavailable(s) PROVE Same
    BY <1>4 DEF MarkUnavailable, Inv, Shape
  <1>5. ASSUME NEW s \in Steps, NEW answer, Execute(s, answer) PROVE Same
    BY <1>5 DEF Execute, Inv, Shape
  <1>6. ASSUME NEW s \in Steps, NEW report, Verify(s, report) PROVE Same
    <2>1. PICK x : step' = [step EXCEPT ![s].status = x, ![s].receipt = Receipt(s, report)]
      BY <1>6, Zenon DEF Verify
    <2> QED
      BY <2>1 DEF Inv, Shape
  <1>7. CASE step' = step
    BY <1>7
  <1>8. CASE step' # step
    <2> HIDE DEF Goal, Same
    <2>1. Same => Goal
      BY DEF Goal
    <2> QED
      BY <1>1, <1>2, <1>3, <1>4, <1>5, <1>6, <1>8, <2>1
         DEF Next, vars, Restart, ResolverChanges, Prepare, WithReconstructableMaterial, Recover
  <1> QED
    BY <1>7, <1>8

\* Two steps never hold intents of the same action, so no grant is used twice,
\* and two planned steps never share one.
THEOREM EffectsAlwaysDistinct == Spec => []EffectsAreDistinct
  <1>1. ASSUME Init PROVE EffectsAreDistinct
    BY <1>1 DEF Init, EffectsAreDistinct, ActionsOf
  <1>2. ASSUME Inv, EffectsAreDistinct, [Next]_vars PROVE EffectsAreDistinct'
    <2>1. \A s \in Steps : /\ step[s].planned # None => step[s].planned.action \in ActionsOf(s)
                           /\ step[s].intent # None => step[s].intent.action \in ActionsOf(s)
      BY DEF ActionsOf
    <2>2. \A s, t \in Steps : s # t =>
            /\ step'[s].intent # None /\ step'[t].intent # None
                => step'[s].intent.action # step'[t].intent.action
            /\ step'[s].planned # None /\ step'[t].planned # None
                => step'[s].planned.action # step'[t].planned.action
      <3>1. \A s, t \in Steps : s # t =>
            /\ step[s].intent # None /\ step[t].intent # None
                => step[s].intent.action # step[t].intent.action
            /\ step[s].planned # None /\ step[t].planned # None
                => step[s].planned.action # step[t].planned.action
        BY <1>2, <2>1 DEF EffectsAreDistinct
      <3> QED
        BY <1>2, <2>1, <3>1, ActionEdges DEF GrantUnused
    <2>3. Inv'
      BY <1>2, InvNext
    <2>4. \A s \in Steps : step'[s].planned # None /\ step'[s].intent # None
            => step'[s].intent.action = step'[s].planned.action
      BY <2>3 DEF Inv, IntentInv, IntentOk, HonoursPlan
    <2>5. \A s \in Steps : step'[s].planned # None =>
            \A x \in ActionsOf(s)' : x = step'[s].planned.action
      BY <2>4 DEF ActionsOf
    <2> QED
      BY <2>2, <2>5 DEF EffectsAreDistinct
  <1> QED
    BY <1>1, <1>2, InvAlways, PTL DEF Spec

\* What CompletedIsVerified says of one step.
VerifiedStep(s) ==
    LET rules == step[s].intent.rules
        results == step[s].receipt.results
    IN /\ rules = step[s].intent.contract.rules
       /\ \A n \in DOMAIN rules : rules[n].required => results[n] = "Passed"
       /\ \E n \in DOMAIN rules : results[n] = "Passed"
       /\ \E c \in calls : /\ c.step = s /\ c.args = step[s].receipt.input
                           /\ Contract(c.def) = step[s].receipt.contract

\* The only way to completion is a verification.
LEMMA CompletedEdges ==
  ASSUME Inv, [Next]_vars, NEW s \in Steps, step'[s].status = "Completed"
  PROVE  \/ step'[s] = step[s] /\ calls \subseteq calls'
         \/ \E report \in Reports : Verify(s, report)
  <1> DEFINE Same == step'[s] = step[s] /\ calls \subseteq calls'
  <1>1. ASSUME NEW t \in Steps, NEW a, NEW occurrence, Plan(t, a, occurrence) PROVE Same
    <2>1. PICK x : step' = [step EXCEPT ![t].status = "Planned", ![t].planned = x]
      BY <1>1, Zenon DEF Plan
    <2> QED
      BY <1>1, <2>1 DEF Plan, Inv, Shape
  <1>2. ASSUME NEW t \in Steps, PlanUnbound(t) PROVE Same
    BY <1>2 DEF PlanUnbound, Inv, Shape
  <1>3. ASSUME pending # None, NEW inputs \in InputsFor(pending.request), AuthorizeAndCommit(inputs)
        PROVE  Same
    <2>1. PICK t \in Steps : t = pending.step
      BY <1>3 DEF Inv, PendingInv
    <2>2. calls' = calls
      BY <1>3 DEF AuthorizeAndCommit
    <2>3. \/ step' = step
          \/ \E x : step' = [step EXCEPT ![t].status = "IntentCommitted", ![t].intent = x]
      BY <1>3, <2>1 DEF AuthorizeAndCommit
    <2> QED
      BY <2>2, <2>3 DEF Inv, Shape
  <1>4. ASSUME NEW t \in Steps, MarkUnavailable(t) PROVE Same
    BY <1>4 DEF MarkUnavailable, Inv, Shape
  <1>5. ASSUME NEW t \in Steps, NEW answer, Execute(t, answer) PROVE Same
    <2>1. Observation(t, answer) \in {"Failed", "Validating", "EffectUnknown"}
      BY Zenon DEF Observation
    <2>2. step' = [step EXCEPT ![t].status = Observation(t, answer)] /\ calls \subseteq calls'
      BY <1>5 DEF Execute
    <2> QED
      BY <2>1, <2>2 DEF Inv, Shape
  <1>6. ASSUME NEW t \in Steps, NEW report \in Reports, Verify(t, report)
        PROVE  Same \/ Verify(s, report)
    <2>1. PICK x : step' = [step EXCEPT ![t].status = x, ![t].receipt = Receipt(t, report)]
      BY <1>6, Zenon DEF Verify
    <2>2. calls' = calls
      BY <1>6 DEF Verify
    <2> QED
      BY <1>6, <2>1, <2>2 DEF Inv, Shape
  <1>7. CASE UNCHANGED <<step, calls>>
    BY <1>7
  <1> HIDE DEF Same
  <1>8. Same => step'[s] = step[s] /\ calls \subseteq calls'
    BY DEF Same
  <1> QED
    BY <1>1, <1>2, <1>3, <1>4, <1>5, <1>6, <1>7, <1>8
       DEF Next, vars, Restart, ResolverChanges, Prepare, WithReconstructableMaterial, Recover

\* A verification completes a step only when its rules passed, with the receipt
\* of the intent its call was made for.
LEMMA VerifyCompletes ==
  ASSUME Inv, NEW s \in Steps, NEW report \in Reports, Verify(s, report), step'[s].status = "Completed"
  PROVE  VerifiedStep(s)'
  <1> DEFINE outcome == EvaluateVerification(step[s].intent.rules, report.results)
             x == CASE outcome = "Passed" -> "Completed"
                    [] outcome = "Failed" -> "Failed"
                    [] OTHER -> "ManualRequired"
  <1>1. step' = [step EXCEPT ![s].status = x, ![s].receipt = Receipt(s, report)]
    BY Zenon DEF Verify
  <1>2. outcome = "Passed"
    <2>1. x = "Completed"
      <3> HIDE DEF x
      <3> QED
        BY <1>1 DEF Inv, Shape
    <2>2. CASE outcome = "Failed"
      <3>1. x = "Failed"
        BY <2>2, Zenon
      <3> QED
        BY <2>1, <3>1, Zenon
    <2>3. CASE outcome \notin {"Passed", "Failed"}
      <3>1. x = "ManualRequired"
        BY <2>3, Zenon
      <3> QED
        BY <2>1, <3>1, Zenon
    <2> QED
      BY <2>2, <2>3, Zenon
  <1>3. /\ step[s].status = "Validating" /\ calls' = calls
        /\ Len(report.results) = Len(step[s].intent.rules)
    BY DEF Verify, ReportMatches
  <1> HIDE DEF x
  <1>4. step'[s].intent = step[s].intent /\ step'[s].receipt = Receipt(s, report)
    BY <1>1 DEF Inv, Shape
  <1>5. IntentOk(s) /\ \E c \in calls : c.step = s /\ CallOk(c)
    BY <1>3 DEF Inv, IntentInv, CallInv, Early
  <1>6. report.results \in Seq({"Passed", "Failed", "Inconclusive"}) /\ step[s].intent.rules \in Rules
    BY <1>5, AdmissionAssumption DEF IntentOk
  <1>7. /\ \A n \in DOMAIN step[s].intent.rules :
             step[s].intent.rules[n].required => report.results[n] = "Passed"
        /\ \E n \in DOMAIN step[s].intent.rules : report.results[n] = "Passed"
    <2> HIDE DEF outcome
    <2>1. EvaluateVerification(step[s].intent.rules, report.results) = "Passed"
      BY <1>2 DEF outcome
    <2> QED
      BY <1>3, <1>6, <2>1, PassedRules
  <1>8. /\ step'[s].receipt.results = report.results
        /\ step'[s].receipt.input = step[s].intent.material
        /\ step'[s].receipt.contract = step[s].intent.contract
    BY <1>4 DEF Receipt
  <1> QED
    BY <1>3, <1>4, <1>5, <1>7, <1>8 DEF VerifiedStep, IntentOk, CallOk

\* A completed step had every required rule of its contract pass, and some rule,
\* and its receipt is that of a call that was made.
THEOREM CompletedAlwaysVerified == Spec => []CompletedIsVerified
  <1>1. ASSUME Init PROVE CompletedIsVerified
    BY <1>1 DEF Init, CompletedIsVerified
  <1>2. ASSUME Inv, CompletedIsVerified, [Next]_vars PROVE CompletedIsVerified'
    <2> SUFFICES ASSUME NEW s \in Steps, step'[s].status = "Completed"
                 PROVE  VerifiedStep(s)'
      BY DEF CompletedIsVerified, VerifiedStep
    <2>1. CASE step'[s] = step[s] /\ calls \subseteq calls'
      <3>1. VerifiedStep(s)
        BY <1>2, <2>1 DEF CompletedIsVerified, VerifiedStep
      <3> QED
        BY <2>1, <3>1 DEF VerifiedStep
    <2>2. ASSUME NEW report \in Reports, Verify(s, report) PROVE VerifiedStep(s)'
      BY <1>2, <2>2, VerifyCompletes
    <2> QED
      BY <1>2, <2>1, <2>2, CompletedEdges
  <1> QED
    BY <1>1, <1>2, InvAlways, PTL DEF Spec
=============================================================================
