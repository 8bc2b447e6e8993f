----------------------- MODULE FrontierDerivationProofs -----------------------
(***************************************************************************)
(* Kahn's traversal computes the frontier, for every finite graph: the     *)
(* counters are exact, so neither expect of the loop is ever reached, and  *)
(* what derive_frontier returns is what module Frontier defines.           *)
(***************************************************************************)
EXTENDS FrontierDerivation, FiniteSetTheorems, TLAPS

-----------------------------------------------------------------------------
(* The inductive invariant *)

Visited == {s \in S : outcome[s] # "None"}

\* What was visited was visited after its dependencies.
Ordered ==
    /\ \A s \in Visited : deps[s] \subseteq Visited
    /\ Acyclic(Visited, deps)

\* The outcome of a visited step follows from its status, its receipt and the
\* outcomes of its dependencies, and only planned steps were let past a
\* dependency that is not released.
Classified ==
    \A s \in Visited :
        /\ outcome[s] = "Satisfied" <=> ReceiptReleasesDependency(s, st, rc)
        /\ outcome[s] = "Blocked" <=>
             s \in BlockRoots(S, st, rc) \/ (st[s] = "Planned" /\ With(s, "Blocked") # {})
        /\ st[s] = "Planned" \/ Released(s)

\* The three lists hold the visited steps record_status put there.
ListsExact ==
    /\ blocked = {s \in Visited : st[s] = "Planned" /\ With(s, "Blocked") # {}}
    /\ waiting = {s \in Visited : st[s] = "Planned" /\ With(s, "Blocked") = {} /\ ~Released(s)}
    /\ actionable = {s \in Visited : st[s] \in InFlight \/ (st[s] = "Planned" /\ Released(s))}

TraversalInv ==
    /\ result = "Validating" =>
         /\ Visited = {} /\ processed = 0
         /\ blocked = {} /\ waiting = {} /\ actionable = {}
    /\ result = "Traversing" => WellFormed(S, deps) /\ Ordered /\ Classified /\ ListsExact

-----------------------------------------------------------------------------
(* One visit *)

\* The four cases of record_status.
LEMMA ClassifyCases ==
  ASSUME TypeOK, NEW s \in Steps
  PROVE  /\ Classify(s) \in {"Satisfied", "Pending", "Blocked"}
         /\ Classify(s) = "Satisfied" <=> ReceiptReleasesDependency(s, st, rc)
         /\ Classify(s) = "Blocked" <=>
              \/ st[s] \in Terminal /\ ~ReceiptReleasesDependency(s, st, rc)
              \/ st[s] = "Planned" /\ With(s, "Blocked") # {}
  <1>1. st[s] \in StepStatus
    BY DEF TypeOK
  <1>2. CASE st[s] = "Planned"
    <2>1. st[s] \notin InFlight /\ ~ReceiptReleasesDependency(s, st, rc)
      BY <1>2 DEF InFlight, ReceiptReleasesDependency
    <2>2. Classify(s) = IF With(s, "Blocked") # {} THEN "Blocked" ELSE "Pending"
      BY <1>2, <2>1, Zenon DEF Classify
    <2> QED
      BY <1>2, <2>2 DEF ReceiptReleasesDependency, Terminal
  <1>3. CASE st[s] \in InFlight
    <2>1. st[s] # "Planned" /\ ~ReceiptReleasesDependency(s, st, rc) /\ st[s] \notin Terminal
      BY <1>3 DEF InFlight, ReceiptReleasesDependency, Terminal
    <2>2. Classify(s) = "Pending"
      BY <1>3, <2>1, Zenon DEF Classify
    <2> QED
      BY <2>1, <2>2
  <1>4. CASE ReceiptReleasesDependency(s, st, rc)
    <2>1. st[s] # "Planned" /\ st[s] \notin InFlight
      BY <1>4 DEF InFlight, ReceiptReleasesDependency
    <2>2. Classify(s) = "Satisfied"
      BY <1>4, <2>1, Zenon DEF Classify
    <2> QED
      BY <1>4, <2>1, <2>2
  <1>5. CASE st[s] \in Terminal /\ ~ReceiptReleasesDependency(s, st, rc)
    <2>1. st[s] # "Planned" /\ st[s] \notin InFlight
      BY <1>5 DEF InFlight, Terminal
    <2>2. Classify(s) = "Blocked"
      BY <1>5, <2>1, Zenon DEF Classify
    <2> QED
      BY <1>5, <2>1, <2>2
  <1>6. st[s] = "Planned" \/ st[s] \in InFlight \/ st[s] \in Terminal
    BY <1>1 DEF StepStatus, InFlight, Terminal
  <1> QED
    BY <1>2, <1>3, <1>4, <1>5, <1>6

\* The dependencies of t that have no outcome yet.
Unvisited(t) == {d \in deps[t] : outcome[d] = "None"}

\* Sets of steps are finite.
LEMMA FiniteSteps ==
  ASSUME NEW T, T \subseteq Steps
  PROVE  IsFiniteSet(T) /\ Cardinality(T) \in Nat
  BY GraphAssumption, FS_Subset, FS_CardinalityType

\* A step is taken from the work set when all its dependencies have an outcome:
\* the first expect of the loop holds.
LEMMA DependenciesFirst ==
  ASSUME TypeOK, TraversalInv, CountersExact, result = "Traversing", NEW s \in zeroIndegree
  PROVE  /\ s \in S /\ s \in Steps /\ outcome[s] = "None"
         /\ deps[s] \subseteq Visited /\ s \notin deps[s]
  <1>1. s \in S /\ s \in Steps /\ outcome[s] = "None" /\ remaining[s] = 0
    BY DEF CountersExact, TypeOK
  <1>2. Cardinality(Unvisited(s)) = 0
    BY <1>1 DEF CountersExact, Unvisited
  <1>3. Unvisited(s) \subseteq Steps
    BY <1>1 DEF Unvisited, TypeOK
  <1>4. Unvisited(s) = {}
    BY <1>2, <1>3, FiniteSteps, FS_EmptySet
  <1>5. deps[s] \subseteq S \ {s}
    BY <1>1 DEF TraversalInv, WellFormed
  <1> QED
    BY <1>1, <1>4, <1>5 DEF Unvisited, Visited

\* The counter of a dependent is above zero: the second expect holds.
LEMMA NoUnderflow ==
  ASSUME TypeOK, TraversalInv, CountersExact, result = "Traversing", NEW s \in zeroIndegree,
         NEW t \in Dependents(s)
  PROVE  /\ remaining[t] \in Nat \ {0}
         /\ Cardinality(Unvisited(t) \ {s}) = remaining[t] - 1
         /\ outcome[t] = "None" /\ t # s
  <1>1. s \in S /\ outcome[s] = "None" /\ s \in Steps /\ s \notin deps[s]
    BY DependenciesFirst
  <1>2. t \in S /\ t \in Steps /\ s \in deps[t]
    BY DEF Dependents, TypeOK
  <1>3. s \in Unvisited(t)
    BY <1>1, <1>2 DEF Unvisited
  <1>4. IsFiniteSet(Unvisited(t)) /\ Cardinality(Unvisited(t)) \in Nat
    BY <1>2, FiniteSteps DEF Unvisited, TypeOK
  <1>5. remaining[t] = Cardinality(Unvisited(t))
    BY <1>2 DEF CountersExact, Unvisited
  <1>6. Cardinality(Unvisited(t)) # 0
    BY <1>3, <1>4, FS_EmptySet
  <1>7. Cardinality(Unvisited(t) \ {s}) = Cardinality(Unvisited(t)) - 1
    BY <1>3, <1>4, FS_RemoveElement
  <1>8. outcome[t] = "None"
    <2>1. t \in Visited => s \in Visited
      BY <1>2 DEF TraversalInv, Ordered
    <2> QED
      BY <1>1, <1>2, <2>1 DEF Visited
  <1> QED
    BY <1>1, <1>2, <1>4, <1>5, <1>6, <1>7, <1>8

\* What a visit does to the classification.
LEMMA VisitOutcome ==
  ASSUME TypeOK, TraversalInv, CountersExact, NEW s \in Steps, Visit(s)
  PROVE  /\ result = "Traversing" /\ s \in zeroIndegree /\ UNCHANGED <<graph, result>>
         /\ outcome' = [outcome EXCEPT ![s] = Classify(s)]
         /\ outcome'[s] = Classify(s) /\ outcome'[s] # "None"
         /\ \A d \in Steps : d # s => outcome'[d] = outcome[d]
         /\ Visited' = Visited \cup {s} /\ s \notin Visited
         /\ deps[s] \subseteq Visited /\ s \notin deps[s] /\ s \in S
  <1>1. /\ result = "Traversing" /\ s \in zeroIndegree /\ UNCHANGED <<graph, result>>
        /\ outcome' = [outcome EXCEPT ![s] = Classify(s)]
    BY DEF Visit
  <1>2. s \in S /\ outcome[s] = "None" /\ deps[s] \subseteq Visited /\ s \notin deps[s]
    BY <1>1, DependenciesFirst
  <1>3. /\ outcome'[s] = Classify(s) /\ \A d \in Steps : d # s => outcome'[d] = outcome[d]
    BY <1>1 DEF TypeOK
  <1>4. outcome'[s] # "None"
    BY <1>3, ClassifyCases
  <1>5. UNCHANGED S /\ S \subseteq Steps
    BY <1>1 DEF graph, TypeOK
  <1>6. Visited' = Visited \cup {s} /\ s \notin Visited
    BY <1>2, <1>3, <1>4, <1>5 DEF Visited
  <1> QED
    BY <1>1, <1>2, <1>3, <1>4, <1>6

-----------------------------------------------------------------------------
(* The counters *)

\* Nothing has been visited in the first state.
LEMMA TraversalInit == ASSUME Init PROVE TypeOK /\ TraversalInv /\ CountersExact
  BY GraphAssumption DEF Init, TypeOK, TraversalInv, CountersExact, Visited, Results

\* A visit keeps the counters exact.
LEMMA VisitCounts ==
  ASSUME TypeOK, TraversalInv, CountersExact, NEW s \in Steps, Visit(s)
  PROVE  TypeOK' /\ CountersExact'
  <1>1. /\ result = "Traversing" /\ s \in zeroIndegree /\ UNCHANGED <<graph, result>>
        /\ outcome' = [outcome EXCEPT ![s] = Classify(s)] /\ outcome'[s] # "None"
        /\ \A d \in Steps : d # s => outcome'[d] = outcome[d]
        /\ Visited' = Visited \cup {s} /\ s \notin Visited /\ s \in S /\ s \notin deps[s]
    BY VisitOutcome
  <1>2. UNCHANGED <<S, deps, st, rc>> /\ S \subseteq Steps /\ deps \in [Steps -> SUBSET Steps]
    BY <1>1 DEF graph, TypeOK
  <1>3. \A t \in Steps : remaining'[t] = IF t \in Dependents(s) THEN remaining[t] - 1 ELSE remaining[t]
    BY DEF Visit
  <1>4. \A t \in Steps : Unvisited(t)' = Unvisited(t) \ {s}
    BY <1>1, <1>2 DEF Unvisited
  <1>5. ASSUME NEW t \in S PROVE remaining'[t] = Cardinality(Unvisited(t)')
    <2>1. CASE t \in Dependents(s)
      BY <1>1, <1>2, <1>3, <1>4, <2>1, NoUnderflow
    <2>2. CASE t \notin Dependents(s)
      <3>1. Unvisited(t)' = Unvisited(t)
        BY <1>2, <1>4, <2>2 DEF Dependents, Unvisited
      <3> QED
        BY <1>1, <1>2, <1>3, <2>2, <3>1 DEF CountersExact, Unvisited
    <2> QED
      BY <2>1, <2>2
  <1>6. zeroIndegree' = {t \in S : outcome'[t] = "None" /\ remaining'[t] = 0}
    <2>1. zeroIndegree' = (zeroIndegree \ {s}) \cup {t \in Dependents(s) : remaining'[t] = 0}
      BY DEF Visit
    <2>2. zeroIndegree = {t \in S : outcome[t] = "None" /\ remaining[t] = 0}
      BY <1>1 DEF CountersExact
    <2>3. \A t \in Dependents(s) : t \in S /\ t # s /\ outcome[t] = "None" /\ remaining[t] # 0
      BY <1>1, NoUnderflow DEF Dependents
    <2> QED
      BY <1>1, <1>2, <1>3, <2>1, <2>2, <2>3
  <1>7. processed' = Cardinality(Visited')
    <2>1. processed' = processed + 1 /\ processed = Cardinality(Visited)
      BY <1>1 DEF Visit, CountersExact, Visited
    <2>2. IsFiniteSet(Visited)
      BY <1>2, FiniteSteps DEF Visited
    <2> QED
      BY <1>1, <2>1, <2>2, FS_AddElement
  <1>8. CountersExact'
    BY <1>1, <1>2, <1>5, <1>6, <1>7 DEF CountersExact, Unvisited, Visited
  <1>9. TypeOK'
    <2>1. remaining' \in [Steps -> Nat]
      <3>1. remaining' = [t \in Steps |-> IF t \in Dependents(s) THEN remaining[t] - 1 ELSE remaining[t]]
        BY DEF Visit
      <3>2. \A t \in Dependents(s) : remaining[t] \in Nat \ {0}
        BY <1>1, NoUnderflow
      <3> QED
        BY <3>1, <3>2 DEF TypeOK
    <2>2. outcome' \in [Steps -> {"None", "Satisfied", "Pending", "Blocked"}]
      BY <1>1, ClassifyCases DEF TypeOK
    <2>3. zeroIndegree' \subseteq S
      BY <1>6
    <2>4. actionable' \subseteq S /\ waiting' \subseteq S /\ blocked' \subseteq S
      BY <1>1 DEF Visit, Listed, TypeOK
    <2>5. processed' \in Nat
      BY DEF Visit, TypeOK
    <2> QED
      BY <1>1, <1>2, <2>1, <2>2, <2>3, <2>4, <2>5 DEF TypeOK
  <1> QED
    BY <1>8, <1>9

\* Every step keeps the counters exact.
LEMMA CountersNext ==
  ASSUME TypeOK, TraversalInv, CountersExact, [Next]_vars
  PROVE  TypeOK' /\ CountersExact'
  <1>1. CASE Validate
    <2>1. UNCHANGED <<graph, assembly>> /\ UNCHANGED <<S, deps, st, rc, outcome, actionable, waiting, blocked, processed>>
      BY <1>1 DEF Validate, graph, assembly
    <2>2. CASE ~WellFormed(S, deps)
      BY <1>1, <2>1, <2>2 DEF Validate, TypeOK, CountersExact, Results
    <2>3. CASE WellFormed(S, deps)
      <3>1. /\ remaining' = [s \in Steps |-> Cardinality(deps[s])]
            /\ zeroIndegree' = {s \in S : deps[s] = {}} /\ result' = "Traversing"
        BY <1>1, <2>3 DEF Validate
      <3>2. Visited = {} /\ processed = 0
        BY <1>1 DEF Validate, TraversalInv
      <3>3. \A s \in Steps : IsFiniteSet(deps[s]) /\ Cardinality(deps[s]) \in Nat
        BY FiniteSteps DEF TypeOK
      <3>4. ASSUME NEW s \in S PROVE {d \in deps[s] : outcome[d] = "None"} = deps[s]
        <4>1. deps[s] \subseteq S
          BY <2>3 DEF WellFormed
        <4> QED
          BY <3>2, <4>1 DEF Visited
      <3>5. \A s \in S : remaining'[s] = Cardinality(deps[s]) /\ (remaining'[s] = 0 <=> deps[s] = {})
        BY <3>1, <3>3, FS_EmptySet DEF TypeOK
      <3>6. zeroIndegree' = {s \in S : outcome[s] = "None" /\ remaining'[s] = 0}
        BY <3>1, <3>2, <3>5 DEF Visited
      <3>7. processed = Cardinality({s \in S : outcome[s] # "None"})
        BY <3>2, FS_EmptySet DEF Visited
      <3>8. CountersExact'
        BY <2>1, <3>4, <3>5, <3>6, <3>7 DEF CountersExact
      <3>9. TypeOK'
        BY <2>1, <3>1, <3>3 DEF TypeOK
      <3> QED
        BY <3>8, <3>9
    <2> QED
      BY <2>2, <2>3
  <1>2. ASSUME NEW s \in Steps, Visit(s) PROVE TypeOK' /\ CountersExact'
    BY <1>2, VisitCounts
  <1>3. ASSUME NEW s \in Steps, VisitBypassed(s) PROVE TypeOK' /\ CountersExact'
    <2>1. result' = "ActiveDependencyNotReleased"
      BY <1>3 DEF VisitBypassed
    <2> QED
      BY <1>3, <2>1 DEF VisitBypassed, TypeOK, CountersExact, Results, graph
  <1>4. CASE Finish
    <2>1. result' \in {"Ok", "DependencyCycle"}
      BY <1>4 DEF Finish
    <2> QED
      BY <1>4, <2>1 DEF Finish, TypeOK, CountersExact, Results, graph, assembly
  <1>5. CASE UNCHANGED vars
    BY <1>5 DEF vars, graph, assembly, TypeOK, CountersExact
  <1> QED
    BY <1>1, <1>2, <1>3, <1>4, <1>5 DEF Next

-----------------------------------------------------------------------------
(* The outcomes *)

\* What depends on visited steps only is not changed by another visit.
LEMMA VisitKeeps ==
  ASSUME TypeOK, TraversalInv, CountersExact, NEW s \in Steps, Visit(s),
         NEW t \in Steps, deps[t] \subseteq Visited
  PROVE  /\ With(t, "Blocked")' = With(t, "Blocked")
         /\ Released(t)' = Released(t)
  <1>1. /\ UNCHANGED <<graph, result>> /\ s \notin Visited
        /\ \A d \in Steps : d # s => outcome'[d] = outcome[d]
    BY VisitOutcome
  <1>2. \A d \in deps[t] : outcome'[d] = outcome[d] /\ deps' = deps
    BY <1>1 DEF graph, TypeOK
  <1>3. UNCHANGED deps
    BY <1>1 DEF graph
  <1>4. With(t, "Blocked")' = With(t, "Blocked") /\ With(t, "Pending")' = With(t, "Pending")
    BY <1>2, <1>3 DEF With
  <1> QED
    BY <1>4 DEF Released

\* A visit comes after those of all its dependencies.
LEMMA VisitOrder ==
  ASSUME TypeOK, TraversalInv, CountersExact, NEW s \in Steps, Visit(s)
  PROVE  Ordered'
  <1>1. /\ result = "Traversing" /\ UNCHANGED <<graph, result>>
        /\ Visited' = Visited \cup {s} /\ s \notin Visited
        /\ deps[s] \subseteq Visited /\ s \notin deps[s]
    BY VisitOutcome
  <1>2. (\A t \in Visited : deps[t] \subseteq Visited) /\ Acyclic(Visited, deps) /\ UNCHANGED deps
    BY <1>1 DEF TraversalInv, Ordered, graph
  <1>3. \A t \in Visited' : deps[t] \subseteq Visited'
    BY <1>1, <1>2
  <1>4. ASSUME NEW T \in SUBSET (Visited \cup {s}), T # {}
        PROVE  \E t \in T : deps[t] \cap T = {}
    <2>1. CASE T \ {s} = {}
      BY <1>1, <1>4, <2>1
    <2>2. CASE T \ {s} # {}
      <3>1. PICK t \in T \ {s} : deps[t] \cap (T \ {s}) = {}
        BY <1>2, <2>2 DEF Acyclic
      <3>2. t \in Visited /\ s \notin deps[t]
        BY <1>1, <1>2, <3>1
      <3> QED
        BY <3>1, <3>2
    <2> QED
      BY <2>1, <2>2
  <1>5. Acyclic(Visited', deps)
    BY <1>1, <1>4 DEF Acyclic
  <1> QED
    BY <1>2, <1>3, <1>5 DEF Ordered

\* A visit classifies its step as the definition does.
LEMMA VisitClassifies ==
  ASSUME TypeOK, TraversalInv, CountersExact, NEW s \in Steps, Visit(s)
  PROVE  Classified'
  <1>1. /\ result = "Traversing" /\ UNCHANGED <<graph, result>>
        /\ outcome'[s] = Classify(s) /\ \A d \in Steps : d # s => outcome'[d] = outcome[d]
        /\ Visited' = Visited \cup {s} /\ s \notin Visited
        /\ deps[s] \subseteq Visited /\ s \in S
    BY VisitOutcome
  <1>2. UNCHANGED <<S, deps, st, rc>> /\ Visited \subseteq Steps
    BY <1>1 DEF graph, Visited, TypeOK
  <1>3. st[s] = "Planned" \/ Released(s)
    BY DEF Visit
  <1>4. ASSUME NEW t \in Visited'
        PROVE  /\ outcome'[t] = "Satisfied" <=> ReceiptReleasesDependency(t, st, rc)
               /\ outcome'[t] = "Blocked" <=>
                    t \in BlockRoots(S, st, rc) \/ (st[t] = "Planned" /\ With(t, "Blocked")' # {})
               /\ st[t] = "Planned" \/ Released(t)'
    <2>1. t \in Steps /\ deps[t] \subseteq Visited
      BY <1>1, <1>2, <1>4 DEF TraversalInv, Ordered
    <2>2. With(t, "Blocked")' = With(t, "Blocked") /\ Released(t)' = Released(t)
      BY <2>1, VisitKeeps
    <2>3. CASE t = s
      BY <1>1, <1>3, <2>2, <2>3, ClassifyCases DEF BlockRoots
    <2>4. CASE t # s
      <3>1. t \in Visited /\ outcome'[t] = outcome[t]
        BY <1>1, <1>4, <2>1, <2>4
      <3> QED
        BY <1>1, <2>2, <3>1 DEF TraversalInv, Classified
    <2> QED
      BY <2>3, <2>4
  <1> QED
    BY <1>2, <1>4 DEF Classified

\* A visit puts its step in the list of its class.
LEMMA VisitLists ==
  ASSUME TypeOK, TraversalInv, CountersExact, NEW s \in Steps, Visit(s)
  PROVE  ListsExact'
  <1>1. /\ result = "Traversing" /\ UNCHANGED <<graph, result>>
        /\ Visited' = Visited \cup {s} /\ s \notin Visited /\ deps[s] \subseteq Visited
    BY VisitOutcome
  <1>2. UNCHANGED <<S, deps, st, rc>> /\ Visited \subseteq Steps
    BY <1>1 DEF graph, Visited, TypeOK
  <1>3. ASSUME NEW t \in Visited'
        PROVE  With(t, "Blocked")' = With(t, "Blocked") /\ Released(t)' = Released(t)
    <2>1. t \in Steps /\ deps[t] \subseteq Visited
      BY <1>1, <1>2, <1>3 DEF TraversalInv, Ordered
    <2> QED
      BY <2>1, VisitKeeps
  <1>4. ListsExact
    BY <1>1 DEF TraversalInv
  <1>5. Listed(s)
    BY DEF Visit
  <1>6. blocked' = {t \in Visited \cup {s} : st[t] = "Planned" /\ With(t, "Blocked") # {}}
    BY <1>4, <1>5 DEF Listed, ListsExact
  <1>7. waiting' = {t \in Visited \cup {s} : st[t] = "Planned" /\ With(t, "Blocked") = {} /\ ~Released(t)}
    BY <1>4, <1>5 DEF Listed, ListsExact
  <1>8. actionable' = {t \in Visited \cup {s} : st[t] \in InFlight \/ (st[t] = "Planned" /\ Released(t))}
    BY <1>4, <1>5 DEF Listed, ListsExact
  <1>9. /\ blocked' = {t \in Visited' : st[t] = "Planned" /\ With(t, "Blocked")' # {}}
        /\ waiting' = {t \in Visited' : st[t] = "Planned" /\ With(t, "Blocked")' = {} /\ ~(Released(t)')}
        /\ actionable' = {t \in Visited' : st[t] \in InFlight \/ (st[t] = "Planned" /\ Released(t)')}
    BY <1>1, <1>3, <1>6, <1>7, <1>8
  <1> QED
    BY <1>2, <1>9 DEF ListsExact

\* Every step keeps the traversal's invariant.
LEMMA TraversalNext ==
  ASSUME TypeOK, TraversalInv, CountersExact, [Next]_vars
  PROVE  TraversalInv'
  <1>1. CASE Validate
    <2>1. /\ UNCHANGED <<S, deps, st, rc, outcome, actionable, waiting, blocked, processed>>
          /\ result' \in {"Traversing", "InvalidDependency"}
          /\ result' = "Traversing" => WellFormed(S, deps)
      BY <1>1 DEF Validate, graph, assembly
    <2>2. Visited = {} /\ blocked = {} /\ waiting = {} /\ actionable = {}
      BY <1>1 DEF Validate, TraversalInv
    <2>3. Visited' = {}
      BY <2>1, <2>2 DEF Visited
    <2>4. Ordered' /\ Classified' /\ ListsExact'
      BY <2>1, <2>2, <2>3 DEF Ordered, Classified, ListsExact, Acyclic
    <2> QED
      BY <2>1, <2>4 DEF TraversalInv, WellFormed
  <1>2. ASSUME NEW s \in Steps, Visit(s) PROVE TraversalInv'
    <2>1. result = "Traversing" /\ UNCHANGED <<graph, result>>
      BY <1>2 DEF Visit
    <2>2. Ordered' /\ Classified' /\ ListsExact'
      BY <1>2, VisitOrder, VisitClassifies, VisitLists
    <2> QED
      BY <2>1, <2>2 DEF TraversalInv, WellFormed, graph
  <1>3. ASSUME NEW s \in Steps, VisitBypassed(s) PROVE TraversalInv'
    BY <1>3 DEF VisitBypassed, TraversalInv
  <1>4. CASE Finish
    BY <1>4 DEF Finish, TraversalInv
  <1>5. CASE UNCHANGED vars
    <2>1. UNCHANGED <<S, deps, st, rc, outcome, actionable, waiting, blocked, processed, result>>
      BY <1>5 DEF vars, graph, assembly
    <2>2. Visited' = Visited
      BY <2>1 DEF Visited
    <2>3. \A t : With(t, "Blocked")' = With(t, "Blocked") /\ Released(t)' = Released(t)
      BY <2>1 DEF With, Released
    <2> QED
      BY <2>1, <2>2, <2>3 DEF TraversalInv, Ordered, Classified, ListsExact
  <1> QED
    BY <1>1, <1>2, <1>3, <1>4, <1>5 DEF Next

\* The counters and the traversal, at every moment.
LEMMA TraversalAlways == Spec => [](TypeOK /\ TraversalInv /\ CountersExact)
  <1>1. Init => TypeOK /\ TraversalInv /\ CountersExact
    BY TraversalInit
  <1>2. TypeOK /\ TraversalInv /\ CountersExact /\ [Next]_vars => (TypeOK /\ TraversalInv /\ CountersExact)'
    BY TraversalNext, CountersNext
  <1> QED
    BY <1>1, <1>2, PTL DEF Spec

\* A counter is the number of dependencies not yet visited and the work set
\* holds the unvisited steps whose counter is 0, for every finite graph: neither
\* expect of derive_frontier's loop is ever reached.
THEOREM CountersAlwaysExact == Spec => []CountersExact
  BY TraversalAlways, PTL

-----------------------------------------------------------------------------
(* The result *)

\* Once every step is visited, the steps with a blocked outcome are the least set
\* that holds the roots and is closed under planned dependents.
LEMMA BlockedIsLeast ==
  ASSUME TypeOK, Ordered, Classified, Visited = S
  PROVE  {s \in S : outcome[s] = "Blocked"} = BlockedOutcome(S, deps, st, rc)
  <1> DEFINE O == {s \in S : outcome[s] = "Blocked"}
  <1>1. \A s \in S : /\ deps[s] \subseteq S
                     /\ s \in O <=> \/ s \in BlockRoots(S, st, rc)
                                    \/ st[s] = "Planned" /\ deps[s] \cap O # {}
    BY DEF Ordered, Classified, With
  <1>2. Acyclic(S, deps)
    BY DEF Ordered
  <1>3. O \in SUBSET S /\ BlockRoots(S, st, rc) \subseteq S
    BY DEF BlockRoots
  <1> HIDE DEF O
  <1>4. BlockClosed(O, S, deps, st, rc)
    BY <1>1, <1>3 DEF BlockClosed
  <1>5. ASSUME NEW B \in SUBSET S, BlockClosed(B, S, deps, st, rc) PROVE O \subseteq B
    <2> DEFINE T == O \ B
    <2>1. SUFFICES ASSUME T # {} PROVE FALSE
      OBVIOUS
    <2>2. PICK s \in T : deps[s] \cap T = {}
      BY <1>2, <1>3, <2>1 DEF Acyclic
    <2>3. s \in S /\ s \in O /\ s \notin B
      BY <1>3, <2>2
    <2>4. CASE s \in BlockRoots(S, st, rc)
      BY <1>5, <2>3, <2>4 DEF BlockClosed
    <2>5. CASE st[s] = "Planned" /\ deps[s] \cap O # {}
      <3>1. deps[s] \cap B # {}
        BY <2>2, <2>5
      <3> QED
        BY <1>5, <2>3, <2>5, <3>1 DEF BlockClosed
    <2> QED
      BY <1>1, <2>3, <2>4, <2>5
  <1>6. O = BlockedOutcome(S, deps, st, rc)
    BY <1>3, <1>4, <1>5 DEF BlockedOutcome
  <1> QED
    BY <1>6 DEF O

\* A step is released when its dependencies are satisfied.
LEMMA ReleasedMeans ==
  ASSUME TypeOK, Classified, NEW s \in S, deps[s] \subseteq Visited
  PROVE  Released(s) <=> deps[s] \subseteq SatisfiedOutcome(S, st, rc)
  <1>1. \A d \in deps[s] : d \in S /\ d \in Steps /\ outcome[d] \in {"Satisfied", "Pending", "Blocked"}
    BY DEF Visited, TypeOK
  <1>2. \A d \in deps[s] : outcome[d] = "Satisfied" <=> d \in SatisfiedOutcome(S, st, rc)
    BY <1>1 DEF Classified, SatisfiedOutcome
  <1> QED
    BY <1>1, <1>2 DEF Released, With

\* A traversal that visited every step has the frontier.
LEMMA WholeTraversal ==
  ASSUME TypeOK, WellFormed(S, deps), Ordered, Classified, ListsExact, Visited = S
  PROVE  /\ FrontierOk(S, deps, st, rc)
         /\ blocked = Blocked(S, deps, st, rc)
         /\ waiting = Waiting(S, deps, st, rc)
         /\ actionable = Actionable(S, deps, st, rc)
  <1>1. \A s \in S : deps[s] \subseteq S /\ (Released(s) <=> deps[s] \subseteq SatisfiedOutcome(S, st, rc))
    BY ReleasedMeans DEF Ordered
  <1>2. \A s \in S : st[s] \in StepStatus /\ (st[s] = "Planned" \/ Released(s))
    BY DEF Classified, TypeOK
  <1>3. Bypassed(S, deps, st, rc) = {}
    BY <1>1, <1>2 DEF Bypassed, Started
  <1>4. FrontierOk(S, deps, st, rc)
    BY <1>3 DEF FrontierOk, Ordered
  <1>5. \A s \in S : st[s] = "Planned" =>
          (s \in BlockedOutcome(S, deps, st, rc) <=> With(s, "Blocked") # {})
    <2>1. \A s \in S : s \in BlockedOutcome(S, deps, st, rc) <=> outcome[s] = "Blocked"
      BY BlockedIsLeast
    <2>2. \A s \in S : st[s] = "Planned" => s \notin BlockRoots(S, st, rc)
      BY DEF BlockRoots, Terminal
    <2> QED
      BY <2>1, <2>2 DEF Classified
  <1>6. BlockedOutcome(S, deps, st, rc) \subseteq S
    BY DEF BlockedOutcome
  <1>7. blocked = Blocked(S, deps, st, rc)
    BY <1>5, <1>6 DEF ListsExact, Blocked
  <1>8. Admissible(S, deps, st, rc) = {s \in S : st[s] = "Planned" /\ Released(s)}
    BY <1>1 DEF Admissible
  <1>9. actionable = Actionable(S, deps, st, rc)
    BY <1>8 DEF ListsExact, Actionable
  <1>10. waiting = Waiting(S, deps, st, rc)
    <2>1. Blocked(S, deps, st, rc) = {s \in S : st[s] = "Planned" /\ With(s, "Blocked") # {}}
      BY <1>7 DEF ListsExact
    <2> QED
      BY <1>8, <2>1 DEF ListsExact, Waiting
  <1> QED
    BY <1>4, <1>7, <1>9, <1>10

\* Steps that are never released feed themselves.
LEMMA StuckIsCycle ==
  ASSUME TypeOK, TraversalInv, CountersExact, result = "Traversing", zeroIndegree = {}, Visited # S
  PROVE  ~Acyclic(S, deps)
  <1> DEFINE T == S \ Visited
  <1>1. T # {} /\ T \in SUBSET S
    BY DEF Visited
  <1>2. ASSUME NEW s \in T PROVE deps[s] \cap T # {}
    <2>1. s \in S /\ s \in Steps /\ outcome[s] = "None"
      BY DEF Visited, TypeOK
    <2>2. remaining[s] # 0 /\ remaining[s] = Cardinality(Unvisited(s))
      BY <2>1 DEF CountersExact, Unvisited
    <2>3. Unvisited(s) # {}
      BY <2>2, FS_EmptySet
    <2>4. deps[s] \subseteq S
      BY <2>1 DEF TraversalInv, WellFormed
    <2> QED
      BY <2>3, <2>4 DEF Unvisited, Visited
  <1> QED
    BY <1>1, <1>2 DEF Acyclic

\* A frontier is only returned when it is correct.
LEMMA ResultNext ==
  ASSUME TypeOK, TraversalInv, CountersExact, ResultCorrect, [Next]_vars
  PROVE  ResultCorrect'
  <1>1. CASE Validate
    BY <1>1 DEF Validate, ResultCorrect, graph
  <1>2. ASSUME NEW s \in Steps, Visit(s) PROVE ResultCorrect'
    BY <1>2 DEF Visit, ResultCorrect
  <1>3. ASSUME NEW s \in Steps, VisitBypassed(s) PROVE ResultCorrect'
    <2>1. /\ result = "Traversing" /\ s \in zeroIndegree /\ st[s] # "Planned" /\ ~Released(s)
          /\ result' = "ActiveDependencyNotReleased" /\ UNCHANGED <<S, deps, st, rc>>
      BY <1>3 DEF VisitBypassed, graph
    <2>2. s \in S /\ deps[s] \subseteq Visited
      BY <2>1, DependenciesFirst
    <2>3. ~(deps[s] \subseteq SatisfiedOutcome(S, st, rc))
      BY <2>1, <2>2, ReleasedMeans DEF TraversalInv
    <2>4. st[s] \in Started
      BY <2>1, <2>2 DEF Started, TypeOK
    <2>5. Bypassed(S, deps, st, rc) # {}
      BY <2>2, <2>3, <2>4 DEF Bypassed
    <2> QED
      BY <2>1, <2>5 DEF ResultCorrect
  <1>4. CASE Finish
    <2>1. /\ result = "Traversing" /\ zeroIndegree = {}
          /\ result' = IF processed = Cardinality(S) THEN "Ok" ELSE "DependencyCycle"
          /\ UNCHANGED <<S, deps, st, rc, blocked, waiting, actionable>>
      BY <1>4 DEF Finish, graph, assembly
    <2>2. processed = Cardinality(Visited) /\ Visited \in SUBSET S /\ IsFiniteSet(S)
      BY <2>1, FiniteSteps DEF CountersExact, Visited, TypeOK
    <2>3. CASE processed = Cardinality(S)
      <3>1. Visited = S
        BY <2>2, <2>3, FS_Subset
      <3>2. /\ FrontierOk(S, deps, st, rc) /\ blocked = Blocked(S, deps, st, rc)
            /\ waiting = Waiting(S, deps, st, rc) /\ actionable = Actionable(S, deps, st, rc)
        BY <2>1, <3>1, WholeTraversal DEF TraversalInv
      <3> QED
        BY <2>1, <2>3, <3>2 DEF ResultCorrect
    <2>4. CASE processed # Cardinality(S)
      <3>1. ~Acyclic(S, deps)
        BY <2>1, <2>2, <2>4, StuckIsCycle
      <3> QED
        BY <2>1, <2>4, <3>1 DEF ResultCorrect
    <2> QED
      BY <2>3, <2>4
  <1>5. CASE UNCHANGED vars
    BY <1>5 DEF vars, graph, assembly, ResultCorrect
  <1> QED
    BY <1>1, <1>2, <1>3, <1>4, <1>5 DEF Next

\* derive_frontier returns the frontier exactly as module Frontier defines it,
\* and reports a cycle, an invalid or a bypassed dependency only for a graph that
\* has one, for every finite graph and every order of the work set.
THEOREM DerivationCorrect == Spec => []ResultCorrect
  <1>1. Init => ResultCorrect
    BY DEF Init, ResultCorrect
  <1>2. TypeOK /\ TraversalInv /\ CountersExact /\ ResultCorrect /\ [Next]_vars => ResultCorrect'
    BY ResultNext
  <1> QED
    BY <1>1, <1>2, TraversalAlways, PTL DEF Spec
=============================================================================
