------------------------------ MODULE Frontier ------------------------------
(***************************************************************************)
(* The derived WorkGraph frontier (xgeny-workgraph, derive_frontier): what *)
(* each step of a run may do next, as definitions over a set S of steps,   *)
(* their dependencies deps, their lifecycle status st and whether they     *)
(* carry a verification receipt rc.  These are the declarative definitions *)
(* the other modules use; FrontierDerivation models the loop that computes *)
(* them and shows that it does.                                            *)
(***************************************************************************)
EXTENDS Naturals, FiniteSets

StepStatus ==
    {"Planned", "IntentCommitted", "Executing", "EffectUnknown", "Reconciling",
     "Validating", "Completed", "Failed", "ManualRequired"}

\* A step that has left Planned: it may act, so its dependencies must be released.
Started == StepStatus \ {"Planned"}

\* The states in which a step has an operation of its own to perform.
InFlight == {"IntentCommitted", "Executing", "EffectUnknown", "Reconciling", "Validating"}

\* Nothing leads out of these.
Terminal == {"Completed", "Failed", "ManualRequired"}

ReceiptReleasesDependency(s, st, rc) == st[s] = "Completed" /\ rc[s]

\* Kahn's traversal visits every step exactly when no subset feeds itself.
Acyclic(S, deps) ==
    \A T \in SUBSET S : T # {} => \E s \in T : deps[s] \cap T = {}

\* Every dependency is another step of the graph (SelfDependency,
\* UnknownDependency); a set cannot hold a duplicate.
WellFormed(S, deps) == \A s \in S : deps[s] \subseteq S \ {s}

\* Terminal steps that will never release a dependent.
BlockRoots(S, st, rc) ==
    {s \in S : st[s] \in Terminal /\ ~ReceiptReleasesDependency(s, st, rc)}

\* B contains the roots and every planned step that depends on a member.
BlockClosed(B, S, deps, st, rc) ==
    /\ BlockRoots(S, st, rc) \subseteq B
    /\ \A s \in S : st[s] = "Planned" /\ deps[s] \cap B # {} => s \in B

\* DependencyOutcome::Blocked: the least such set.
BlockedOutcome(S, deps, st, rc) ==
    {s \in S : \A B \in SUBSET S : BlockClosed(B, S, deps, st, rc) => s \in B}

SatisfiedOutcome(S, st, rc) == {s \in S : ReceiptReleasesDependency(s, st, rc)}

\* An active or terminal step whose dependencies were bypassed
\* (FrontierError::ActiveDependencyNotReleased).
Bypassed(S, deps, st, rc) ==
    {s \in S : st[s] \in Started /\ ~(deps[s] \subseteq SatisfiedOutcome(S, st, rc))}

\* derive_frontier returns Ok.
FrontierOk(S, deps, st, rc) ==
    WellFormed(S, deps) /\ Acyclic(S, deps) /\ Bypassed(S, deps, st, rc) = {}

\* WorkFrontier.blocked and .waiting list planned steps only.
Blocked(S, deps, st, rc) ==
    {s \in BlockedOutcome(S, deps, st, rc) : st[s] = "Planned"}

Admissible(S, deps, st, rc) ==
    {s \in S : st[s] = "Planned" /\ deps[s] \subseteq SatisfiedOutcome(S, st, rc)}

Waiting(S, deps, st, rc) ==
    {s \in S : st[s] = "Planned"} \ (Blocked(S, deps, st, rc) \cup Admissible(S, deps, st, rc))

Actionable(S, deps, st, rc) ==
    {s \in S : st[s] \in InFlight} \cup Admissible(S, deps, st, rc)

\* The conservative order of the actions: uncertain effects first.
Rank(status) ==
    CASE status = "Executing"       -> 0
      [] status = "EffectUnknown"   -> 1
      [] status = "Reconciling"     -> 2
      [] status = "Validating"      -> 3
      [] status = "IntentCommitted" -> 4
      [] status = "Planned"         -> 5

\* WorkFrontier::next_action.  Equal ranks are ordered by step id in the code;
\* an id is a digest, so any of them may be the first.
NextActions(S, deps, st, rc) ==
    {s \in Actionable(S, deps, st, rc) :
        \A t \in Actionable(S, deps, st, rc) : Rank(st[s]) <= Rank(st[t])}

AllStepsReceiptCompleted(S, st, rc) == S # {} /\ SatisfiedOutcome(S, st, rc) = S
=============================================================================
