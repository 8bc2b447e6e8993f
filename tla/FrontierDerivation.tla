------------------------- MODULE FrontierDerivation -------------------------
(***************************************************************************)
(* derive_frontier as the code computes it: validation of the graph, then  *)
(* Kahn's traversal with a work set of steps whose dependencies have all   *)
(* been visited, each visit classifying one step from the outcomes of its  *)
(* dependencies.  The code pops the least step id; an id is a digest, so   *)
(* the model visits the work set in any order.  The properties say that    *)
(* the traversal computes the definitions of module Frontier.              *)
(***************************************************************************)
EXTENDS Frontier

CONSTANTS
    Steps,         \* step identifiers
    Statuses       \* the statuses the initial graphs draw from

ASSUME GraphAssumption == IsFiniteSet(Steps) /\ Statuses \subseteq StepStatus

VARIABLES
    S, deps, st, rc,     \* the run state: steps, dependencies, status, receipt
    remaining,           \* remaining_dependencies
    zeroIndegree,        \* zero_indegree
    outcome,             \* FrontierAssembly.outcomes; "None" before the visit
    actionable, waiting, blocked,
    processed,
    result               \* what derive_frontier returns

graph == <<S, deps, st, rc>>
assembly == <<outcome, actionable, waiting, blocked, processed>>
vars == <<graph, remaining, zeroIndegree, assembly, result>>

Results ==
    {"Ok", "InvalidDependency", "DependencyCycle", "ActiveDependencyNotReleased"}

TypeOK ==
    /\ S \subseteq Steps
    /\ deps \in [Steps -> SUBSET Steps]
    /\ st \in [Steps -> StepStatus]
    /\ rc \in [Steps -> BOOLEAN]
    /\ remaining \in [Steps -> Nat]
    /\ zeroIndegree \subseteq S
    /\ outcome \in [Steps -> {"None", "Satisfied", "Pending", "Blocked"}]
    /\ actionable \subseteq S /\ waiting \subseteq S /\ blocked \subseteq S
    /\ processed \in Nat
    /\ result \in Results \cup {"Validating", "Traversing"}

\* Any graph, well-formed or not; fields of an id outside S are never read.
Init ==
    /\ S \in SUBSET Steps
    /\ deps \in {f \in [Steps -> SUBSET Steps] : \A s \in Steps \ S : f[s] = {}}
    /\ st \in {f \in [Steps -> Statuses] : \A s, t \in Steps \ S : f[s] = f[t]}
    /\ rc \in {f \in [Steps -> BOOLEAN] : \A s \in Steps : f[s] => s \in S /\ st[s] = "Completed"}
    /\ remaining = [s \in Steps |-> 0]
    /\ zeroIndegree = {}
    /\ outcome = [s \in Steps |-> "None"]
    /\ actionable = {} /\ waiting = {} /\ blocked = {}
    /\ processed = 0
    /\ result = "Validating"

\* validate_frontier_graph
Validate ==
    /\ result = "Validating"
    /\ IF WellFormed(S, deps)
       THEN /\ remaining' = [s \in Steps |-> Cardinality(deps[s])]
            /\ zeroIndegree' = {s \in S : deps[s] = {}}
            /\ result' = "Traversing"
       ELSE /\ result' = "InvalidDependency"
            /\ UNCHANGED <<remaining, zeroIndegree>>
    /\ UNCHANGED <<graph, assembly>>

\* The steps that name s as a dependency.
Dependents(s) == {t \in S : s \in deps[t]}

\* partition_dependencies
With(s, o) == {d \in deps[s] : outcome[d] = o}
Released(s) == With(s, "Pending") = {} /\ With(s, "Blocked") = {}

\* Slip: Completed satisfies its dependents with or without a receipt.
ClassifyUnverified(s) ==
    CASE st[s] = "Planned"   -> IF With(s, "Blocked") # {} THEN "Blocked" ELSE "Pending"
      [] st[s] \in InFlight  -> "Pending"
      [] st[s] = "Completed" -> "Satisfied"
      [] OTHER               -> "Blocked"

\* record_status: the outcome a visited step has for its dependents.
Classify(s) ==
    CASE st[s] = "Planned"                       -> IF With(s, "Blocked") # {} THEN "Blocked"
                                                                               ELSE "Pending"
      [] st[s] \in InFlight                      -> "Pending"
      [] ReceiptReleasesDependency(s, st, rc)    -> "Satisfied"
      [] OTHER                                   -> "Blocked"

\* record_step, refused for a step that was started without its dependencies.
VisitBypassed(s) ==
    /\ result = "Traversing" /\ s \in zeroIndegree
    /\ st[s] # "Planned" /\ ~Released(s)
    /\ processed' = processed + 1
    /\ zeroIndegree' = zeroIndegree \ {s}
    /\ result' = "ActiveDependencyNotReleased"
    /\ UNCHANGED <<graph, remaining, outcome, actionable, waiting, blocked>>

\* The lists record_status fills.
Listed(s) ==
    /\ blocked' = IF st[s] = "Planned" /\ With(s, "Blocked") # {}
                  THEN blocked \cup {s} ELSE blocked
    /\ waiting' = IF st[s] = "Planned" /\ With(s, "Blocked") = {} /\ ~Released(s)
                  THEN waiting \cup {s} ELSE waiting
    /\ actionable' = IF st[s] \in InFlight \/ (st[s] = "Planned" /\ Released(s))
                     THEN actionable \cup {s} ELSE actionable

\* Slip: only planned steps are counted as processed.
VisitUncounted(s) ==
    /\ result = "Traversing" /\ s \in zeroIndegree
    /\ st[s] = "Planned" \/ Released(s)
    /\ processed' = IF st[s] = "Planned" THEN processed + 1 ELSE processed
    /\ outcome' = [outcome EXCEPT ![s] = Classify(s)]
    /\ Listed(s)
    /\ remaining' = [t \in Steps |->
            IF t \in Dependents(s) THEN remaining[t] - 1 ELSE remaining[t]]
    /\ zeroIndegree' = (zeroIndegree \ {s}) \cup {t \in Dependents(s) : remaining'[t] = 0}
    /\ UNCHANGED <<graph, result>>

\* One turn of the loop: classify s, then release its dependents.
Visit(s) ==
    /\ result = "Traversing" /\ s \in zeroIndegree
    /\ st[s] = "Planned" \/ Released(s)
    /\ processed' = processed + 1
    /\ outcome' = [outcome EXCEPT ![s] = Classify(s)]
    /\ Listed(s)
    /\ remaining' = [t \in Steps |->
            IF t \in Dependents(s) THEN remaining[t] - 1 ELSE remaining[t]]
    /\ zeroIndegree' = (zeroIndegree \ {s}) \cup {t \in Dependents(s) : remaining'[t] = 0}
    /\ UNCHANGED <<graph, result>>

\* Slip: the loop waits for every step, also for those on a cycle.
FinishWhole ==
    /\ result = "Traversing" /\ zeroIndegree = {} /\ processed = Cardinality(S)
    /\ result' = "Ok"
    /\ UNCHANGED <<graph, remaining, zeroIndegree, assembly>>

\* The work set is empty: every step was visited, or the rest lie on a cycle.
Finish ==
    /\ result = "Traversing" /\ zeroIndegree = {}
    /\ result' = IF processed = Cardinality(S) THEN "Ok" ELSE "DependencyCycle"
    /\ UNCHANGED <<graph, remaining, zeroIndegree, assembly>>

Next ==
    \/ Validate
    \/ \E s \in Steps : Visit(s) \/ VisitBypassed(s)
    \/ Finish

\* The loop is sequential code that runs to its end.
Spec == Init /\ [][Next]_vars /\ WF_vars(Next)

-----------------------------------------------------------------------------
(* Properties *)

\* A counter is the number of dependencies not yet visited, and the work set
\* holds the unvisited steps whose counter is 0.  So neither expect of the loop
\* is ever reached: when a step is popped every dependency has its outcome
\* ("topological traversal processes dependencies first") and the counter of
\* no dependent is at zero ("dependency count cannot underflow").
CountersExact ==
    result = "Traversing" =>
        /\ \A s \in S : remaining[s] = Cardinality({d \in deps[s] : outcome[d] = "None"})
        /\ zeroIndegree = {s \in S : outcome[s] = "None" /\ remaining[s] = 0}
        /\ processed = Cardinality({s \in S : outcome[s] # "None"})

\* Ok carries the frontier of module Frontier, and a cycle or a bypassed
\* dependency is reported only for a graph that has one.
ResultCorrect ==
    /\ result = "Ok" =>
        /\ FrontierOk(S, deps, st, rc)
        /\ blocked = Blocked(S, deps, st, rc)
        /\ waiting = Waiting(S, deps, st, rc)
        /\ actionable = Actionable(S, deps, st, rc)
    /\ result = "InvalidDependency" => ~WellFormed(S, deps)
    /\ result = "DependencyCycle" => ~Acyclic(S, deps)
    /\ result = "ActiveDependencyNotReleased" => Bypassed(S, deps, st, rc) # {}

\* derive_frontier always returns.
Terminates == <>(result \in Results)
=============================================================================
