----------------------------- MODULE PlanProposal -----------------------------
(***************************************************************************)
(* What the loop accepts of a proposed plan (xgeny-runtime, prepare_plan   *)
(* and what it calls) before anything is materialized.  A proposed step    *)
(* has a key, the capability cap, the resource path, shape (its arguments  *)
(* satisfy the input schema) and dependencies; the graph g maps step ids   *)
(* to their status, receipt and deps.                                      *)
(***************************************************************************)
EXTENDS LocalAuthority, Frontier

MaxAcceptedPlanSteps == 32
MaxAcceptedPlanEdges == 128

Statuses(g) == [s \in DOMAIN g |-> g[s].status]
Receipts(g) == [s \in DOMAIN g |-> g[s].receipt]
Dependencies(g) == [s \in DOMAIN g |-> g[s].deps]

\* The step set, dependencies, status and receipts of a graph, as Frontier wants
\* them.
NextSteps(g) == NextActions(DOMAIN g, Dependencies(g), Statuses(g), Receipts(g))
BlockedSteps(g) == Blocked(DOMAIN g, Dependencies(g), Statuses(g), Receipts(g))
WaitingSteps(g) == Waiting(DOMAIN g, Dependencies(g), Statuses(g), Receipts(g))
AllReceipted(g) == AllStepsReceiptCompleted(DOMAIN g, Statuses(g), Receipts(g))
WithStatus(g, status) == {s \in DOMAIN g : g[s].status = status}

\* Edges of the proposal among its own steps, as a function on their keys.
ProposedEdges(steps) ==
    [k \in {steps[i].key : i \in DOMAIN steps} |->
        {d.key : d \in {e \in UNION {ToSet(steps[i].deps) : i \in {j \in DOMAIN steps : steps[j].key = k}} :
                        e.kind = "proposed"}}]

\* An existing step a proposal may still depend on: one the context shows that
\* is not at an end without a receipt and not blocked.
Dependable(g, id) ==
    /\ id \in DOMAIN g
    /\ ~(g[id].status \in {"Failed", "ManualRequired"})
    /\ g[id].status = "Completed" => g[id].receipt
    /\ id \notin BlockedSteps(g)

\* validate_proposal_structure
StructureOk(g, steps) ==
    LET keys == {steps[i].key : i \in DOMAIN steps} IN
    /\ Cardinality(keys) = Len(steps)
    /\ MapThenSumSet(LAMBDA i : Len(steps[i].deps), DOMAIN steps) <= MaxAcceptedPlanEdges
    /\ \A i \in DOMAIN steps :
        /\ IsInjective(steps[i].deps)
        /\ \A k \in DOMAIN steps[i].deps :
            LET d == steps[i].deps[k] IN
            \/ d.kind = "existing" /\ Dependable(g, d.step)
            \/ d.kind = "proposed" /\ d.key \in keys \ {steps[i].key}
    /\ Acyclic(keys, ProposedEdges(steps))

\* prepare_invocation_facts for a built-in contract: it is registered, the
\* arguments match its schema, and the resolver knows the resource.  The file
\* resolver accepts every well-formed path, the process resolver only the names
\* of its catalog.
InvocationOk(c, s) ==
    /\ s.cap \in Product(c)
    /\ s.shape
    /\ s.cap = "process" => AuthorizesProcess(c, s.path)

\* Two steps of one plan may not be the same action.
ActionsDistinct(steps) ==
    \A i, j \in DOMAIN steps :
        i # j => <<steps[i].cap, steps[i].path>> # <<steps[j].cap, steps[j].path>>

\* prepare_plan; which of several defects is named is left open.
PlanOk(c, budget, g, steps) ==
    /\ steps # <<>> /\ Len(steps) <= MaxAcceptedPlanSteps
    /\ Cardinality(DOMAIN g) + Len(steps) <= budget.steps
    /\ StructureOk(g, steps)
    /\ \A i \in DOMAIN steps : InvocationOk(c, steps[i])
    /\ ActionsDistinct(steps)

\* derive_step_ids and materialize_plan: the steps PlanAccepted adds, each with
\* an id of its own and the profile of its effect class.
StepId(turn, key) == <<turn, key>>

PlannedStep(turn, s) ==
    [id |-> StepId(turn, s.key), cap |-> s.cap, path |-> s.path, shape |-> s.shape,
     once |-> EffectClass(s.cap) # "ReadOnly",
     deps |-> {IF d.kind = "existing" THEN d.step ELSE StepId(turn, d.key) : d \in ToSet(s.deps)},
     status |-> "Planned", attempts |-> 0, receipt |-> FALSE]

PlannedSteps(turn, steps) ==
    [id \in {StepId(turn, steps[i].key) : i \in DOMAIN steps} |->
        PlannedStep(turn, steps[CHOOSE i \in DOMAIN steps : StepId(turn, steps[i].key) = id])]
=============================================================================
