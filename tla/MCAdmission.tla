----------------------------- MODULE MCAdmission ------------------------------
(***************************************************************************)
(* A capability whose contract writes, reads with fewer rules, or is       *)
(* critical; a local instance, the same id rebound or placed remotely,     *)
(* and a degraded second one; names "a" and "b", where "a" may come to     *)
(* resolve to "b".                                                         *)
(***************************************************************************)
EXTENDS Admission

Arg(x) == [path |-> x]

MCArgs == {Arg("a"), Arg("b"), Arg("")}

MCLegacyActions == {Arg("a")}

Rule(strategy, required) == [strategy |-> strategy, required |-> required]

Write ==
    [api |-> TRUE, timeouts |-> TRUE, class |-> "NonIdempotent", durable |-> TRUE,
     key |-> TRUE, critical |-> <<>>, ext |-> FALSE, styles |-> {"Sync"},
     cancellable |-> FALSE, selectors |-> {[scope |-> "fs", pointer |-> "path"]},
     accepts |-> MCArgs,
     rules |-> <<Rule("Postcondition", TRUE), Rule("ArtifactDigest", FALSE)>>]

Read ==
    [Write EXCEPT !.class = "ReadOnly", !.key = FALSE,
                  !.rules = <<Rule("Postcondition", TRUE)>>]

Critical == [Write EXCEPT !.critical = <<"IrreversibleDelete">>]

Local ==
    [id |-> "i", order |-> 1, api |-> TRUE, features |-> {"Sync"}, os |-> "Any",
     arch |-> "Any", health |-> "Available", auth |-> "NotRequired", authRef |-> FALSE,
     trust |-> "Builtin", boundary |-> "Local", ext |-> FALSE, hints |-> TRUE,
     reliability |-> None, latency |-> None, cost |-> None,
     placement |-> "Local", ref |-> "adapter"]

Rebound == [Local EXCEPT !.ref = "rebound"]

Remote == [Local EXCEPT !.placement = "Remote"]

Degraded == [Local EXCEPT !.id = "j", !.order = 2, !.health = "Degraded", !.reliability = 5]

MCCatalogs ==
    {[def |-> Write, insts |-> {Local, Degraded}, adapters |-> {"adapter"}],
     [def |-> Write, insts |-> {Degraded}, adapters |-> {"adapter"}],
     [def |-> Write, insts |-> {Rebound}, adapters |-> {"adapter", "rebound"}],
     [def |-> Read, insts |-> {Remote}, adapters |-> {"adapter"}],
     [def |-> Critical, insts |-> {Local}, adapters |-> {"adapter"}]}

MCWorlds ==
    {[scope \in {"fs"}, x \in {"a", "b"} |-> x],
     [scope \in {"fs"}, x \in {"a", "b"} |-> "b"]}

Route1 ==
    [os |-> "Linux", arch |-> "X86", style |-> "Sync", features |-> {"Key"},
     trustsAllowed |-> {"Builtin"}, boundariesAllowed |-> {"Local"},
     trusts |-> <<"Builtin">>, boundaries |-> <<"Local">>, preferred |-> <<"i">>,
     pin |-> None]

MCRoutes == {Route1, [Route1 EXCEPT !.features = {}, !.pin = "i"]}

Layer(kind, verdict, names) ==
    [kind |-> kind, valid |-> TRUE, verdict |-> verdict, scopes |-> {"fs"},
     resources |-> {[scope |-> "fs", resource |-> x] : x \in names},
     critical |-> {"IrreversibleDelete"}, lifetimes |-> {"Once"}]

MCPolicies ==
    {<<Layer("Host", "Allow", {"a", "b"}), Layer("UserProfile", "Allow", {"a"})>>,
     <<Layer("Host", "Allow", {"b"}), Layer("UserProfile", "Allow", {"a", "b"})>>,
     <<Layer("Host", "Allow", {"a"}), Layer("UserProfile", "Ask", {})>>,
     <<Layer("UserProfile", "Allow", {"a"}), Layer("Host", "Deny", {})>>,
     <<Layer("Host", "Allow", {"a"}), Layer("UserProfile", "Allow", {"a"}),
       Layer("ManagedLease", "Allow", {"a"})>>}

MCReports ==
    {[results |-> results, artifacts |-> TRUE, output |-> output] :
        results \in {<<"Passed", "Failed">>, <<"Inconclusive", "Passed">>,
                     <<"Failed", "Passed">>, <<"Inconclusive">>, <<"Passed">>},
        output \in {"Recorded", "Own"}}

StepSymmetry == Permutations(Steps)
=============================================================================
