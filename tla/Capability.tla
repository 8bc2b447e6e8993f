------------------------------ MODULE Capability ------------------------------
(***************************************************************************)
(* The pure decisions an invocation passes through before any effect: the  *)
(* checks of the capability registry (xgeny-runtime/src/registry.rs), the  *)
(* resolution of an invocation's arguments to concrete resources           *)
(* (xgeny-policy/src/resolution.rs), the composition of policy layers      *)
(* (xgeny-policy/src/broker.rs) and the choice of an instance              *)
(* (xgeny-runtime/src/router.rs).                                          *)
(*                                                                         *)
(* One capability reference is modelled; a definition is its current       *)
(* contents, and several contents stand for a contract that changed        *)
(* between two starts of the host.  Texts, reason codes and the error that *)
(* is reported when several apply are left out.                            *)
(***************************************************************************)
EXTENDS Naturals, Sequences, SequencesExt

CONSTANT None

-----------------------------------------------------------------------------
(* Registry.  A definition d has the fields                                *)
(*   api, timeouts    : the API version and the timeout range are valid    *)
(*   class, durable, key, critical (a sequence), ext, styles, cancellable  *)
(*   selectors        : a set of [scope, pointer]                          *)
(*   accepts          : the argument values its input schema accepts       *)
(*   rules            : a sequence of [strategy, required]                 *)

\* validate_definition, and no other definition under the same key.
DefinitionValid(d) ==
    /\ d.api /\ d.timeouts
    /\ d.durable => d.class \in {"ReadOnly", "Idempotent", "NonIdempotent"}

\* An instance claims no feature its definition does not offer; d is the
\* registered definition of its reference.
InstanceValid(i, d) ==
    /\ i.api
    /\ i.features \cap {"Sync", "Task"} \subseteq d.styles
    /\ "Cancel" \in i.features => d.cancellable

\* definition_contract_digest commits to the specification and the required
\* extensions, not to the API version; executable_binding_digest to everything
\* about an instance but its health, the state of its credential and its hints.
Contract(d) ==
    [d EXCEPT !.api = TRUE]

Binding(i) ==
    [i EXCEPT !.api = TRUE, !.health = None, !.auth = None,
              !.reliability = None, !.latency = None, !.cost = None]

-----------------------------------------------------------------------------
(* Resolution.  Arguments are a function from pointers to values; world is *)
(* what the host's resource resolver answers for a scope and a value: a    *)
(* canonical value, "" or "rejected".                                      *)

Unselectable == {"missing", "notString", ""}

Canonical(world, sel, a) == world[sel.scope, a[sel.pointer]]

SelectorResolves(world, sel, a) ==
    /\ sel.pointer \in DOMAIN a
    /\ a[sel.pointer] \notin Unselectable
    /\ Canonical(world, sel, a) \notin {"", "rejected"}

Resource(world, sel, a) ==
    [scope |-> sel.scope, resource |-> Canonical(world, sel, a)]

\* resolve_invocation: the shape of the definition, every selector in turn, no
\* pointer with two canonical values, no resource named twice, no duplicated
\* critical action.
ResolutionOk(world, d, a) ==
    /\ d.api /\ ~d.ext
    /\ d.selectors # {}
    /\ \A sel \in d.selectors : SelectorResolves(world, sel, a)
    /\ \A x, y \in d.selectors :
        /\ x.pointer = y.pointer => Canonical(world, x, a) = Canonical(world, y, a)
        /\ x # y => Resource(world, x, a) # Resource(world, y, a)
    /\ Cardinality(ToSet(d.critical)) = Len(d.critical)

Resources(world, d, a) == {Resource(world, sel, a) : sel \in d.selectors}

\* normalize_resource_arguments puts the canonical identity where the raw one was.
Normalized(world, d, a) ==
    [p \in DOMAIN a |->
        IF \E sel \in d.selectors : sel.pointer = p
        THEN Canonical(world, CHOOSE sel \in d.selectors : sel.pointer = p, a)
        ELSE a[p]]

\* The request of step s: its id is a digest of the step and the raw arguments.
PermissionRequest(world, d, a, s) ==
    [step |-> s, raw |-> a, class |-> d.class,
     scopes |-> {sel.scope : sel \in d.selectors},
     resources |-> Resources(world, d, a),
     critical |-> ToSet(d.critical), lifetime |-> "Once"]

-----------------------------------------------------------------------------
(* Policy broker.  A contribution has the fields kind, valid (its source   *)
(* and reason code are well formed), verdict and, for an Allow, the        *)
(* allowance: scopes, resources, critical, lifetimes.                      *)

LayerKinds == <<"Host", "UserProfile", "ManagedLease">>

Covers(allowance, request) ==
    /\ request.scopes \subseteq allowance.scopes
    /\ request.resources \subseteq allowance.resources
    /\ request.critical \subseteq allowance.critical
    /\ request.lifetime \in allowance.lifetimes

\* validate_contribution: each mandatory layer in its own place.
InputsValid(inputs) ==
    \A n \in DOMAIN inputs.layers :
        /\ inputs.layers[n].kind = LayerKinds[n]
        /\ inputs.layers[n].valid

Denies(c, request) == \/ c.verdict = "Deny"
                      \/ c.verdict = "Allow" /\ ~Covers(c, request)

\* PermissionBroker::evaluate: deny over ask over allow, an allowance that
\* misses part of the request denies, and a critical action always asks.
Evaluate(request, inputs) ==
    LET layers == ToSet(inputs.layers)
    IN IF inputs.request # request \/ ~InputsValid(inputs) THEN "Error"
       ELSE IF \E c \in layers : Denies(c, request) THEN "Deny"
       ELSE IF \E c \in layers : c.verdict = "Ask" THEN "Ask"
       ELSE IF request.critical # {} THEN "Ask"
       ELSE "Allow"

-----------------------------------------------------------------------------
(* Router.  A route request q has the fields os, arch, style, features     *)
(* (a subset of Cancel, Key, Query), trusts, boundaries (sequences in      *)
(* order of preference, the allowed sets being their members plus          *)
(* trustsAllowed, boundariesAllowed), preferred (a sequence) and pin.      *)

Distinct(seq) == Cardinality(ToSet(seq)) = Len(seq)

RequestValid(q) ==
    /\ q.os # "Any" /\ q.arch # "Any"
    /\ q.trustsAllowed # {} /\ q.boundariesAllowed # {}
    /\ ToSet(q.trusts) \subseteq q.trustsAllowed /\ Distinct(q.trusts)
    /\ ToSet(q.boundaries) \subseteq q.boundariesAllowed /\ Distinct(q.boundaries)
    /\ "" \notin ToSet(q.preferred) /\ Distinct(q.preferred)
    /\ q.pin # ""

\* validate_policy_binding: the evaluated request is about this definition.
PolicyBound(d, request) ==
    /\ request.class = d.class
    /\ request.critical = ToSet(d.critical)
    /\ request.scopes = {sel.scope : sel \in d.selectors}

\* evaluate_candidate: every reason but a degraded health rejects.
Eligible(i, d, q) ==
    /\ i.os \in {"Any", q.os} /\ i.arch \in {"Any", q.arch}
    /\ i.health \in {"Available", "Degraded"}
    /\ i.auth \in {"NotRequired", "Available"}
    /\ i.trust \in q.trustsAllowed /\ i.boundary \in q.boundariesAllowed
    /\ ~d.ext /\ ~i.ext
    /\ q.style \in i.features
    /\ q.features \ {"Key"} \subseteq i.features
    /\ "Key" \in q.features => d.key
    /\ i.hints

\* Position in a preference; what is not preferred comes after all of it.
Preference(seq, x) ==
    IF x \in ToSet(seq) THEN CHOOSE n \in DOMAIN seq : seq[n] = x ELSE Len(seq) + 1

\* An absent hint sorts after every present one.  Worst bounds the hints.
Worst == 1000

Hint(h) == IF h = None THEN Worst + 1 ELSE h

\* The keys compare_candidates compares one after the other; order is the
\* lexicographic order of instance ids.
Rank(i, q) ==
    << CASE i.health = "Available" -> 0 [] i.health = "Degraded" -> 1 [] OTHER -> 2,
       IF i.reliability = None THEN Worst + 1 ELSE Worst - i.reliability,
       Preference(q.trusts, i.trust),
       Preference(q.boundaries, i.boundary),
       Hint(i.latency), Hint(i.cost),
       Preference(q.preferred, i.id),
       i.order >>

RanksBefore(i, j, q) ==
    \E n \in 1..8 : /\ Rank(i, q)[n] < Rank(j, q)[n]
                    /\ \A m \in 1..(n - 1) : Rank(i, q)[m] = Rank(j, q)[m]

\* rank_candidates: the pinned instance, else the first of the eligible ones.
First(insts, d, q) ==
    LET eligible == {i \in insts : Eligible(i, d, q)}
    IN IF q.pin # None
       THEN CHOOSE i \in eligible : i.id = q.pin
       ELSE CHOOSE i \in eligible : \A j \in eligible \ {i} : RanksBefore(i, j, q)

\* Selected names an instance; the other outcomes commit nothing.
Outcome(kind) == [kind |-> kind, instance |-> None]

\* pin_block_reason: not found, of another capability or not eligible.
PinBlocked(eligible, q) == q.pin # None /\ ~\E i \in eligible : i.id = q.pin

\* apply_policy: a critical definition needs a person even when policy allows.
ApplyPolicy(insts, d, q, policy) ==
    IF policy = "Deny" THEN Outcome("Blocked")
    ELSE IF policy = "Ask" \/ d.critical # <<>> THEN Outcome("InteractionRequired")
    ELSE [kind |-> "Selected", instance |-> First(insts, d, q)]

\* CapabilityRouter::route: placement is judged before policy.
Route(insts, d, q, request, policy) ==
    LET eligible == {i \in insts : Eligible(i, d, q)}
    IN IF ~RequestValid(q) \/ ~PolicyBound(d, request) THEN Outcome("Error")
       ELSE IF PinBlocked(eligible, q) \/ eligible = {} THEN Outcome("Blocked")
       ELSE ApplyPolicy(insts, d, q, policy)
=============================================================================
