---------------------------- MODULE LocalAuthority ----------------------------
(***************************************************************************)
(* What the flags of one CLI command authorize (xgeny-cli: allow_file.rs,  *)
(* allow_path.rs, allow_process.rs, material_catalog.rs, manifest.rs and   *)
(* the wiring in composition.rs), as definitions over a request c.  A path *)
(* is a sequence of names below the workspace root <<>>.                   *)
(*                                                                         *)
(* c has the consent flags egress, read, write and execute; workspace,     *)
(* files, dirs and executables; session, the reusable process snapshot of  *)
(* the REPL; endpoint; turns and ticks, and goal.                          *)
(***************************************************************************)
EXTENDS ModelProvider

CONSTANT None

Capabilities == {"read", "stat", "list", "search", "write", "patch", "process"}

\* The effect class of each built-in contract.
EffectClass(cap) ==
    IF cap \in {"read", "stat", "list", "search"} THEN "ReadOnly"
    ELSE IF cap \in {"write", "patch"} THEN "Idempotent"
    ELSE "NonIdempotent"

MaxAllowEntries == 64
MaxTicks == 1024

-----------------------------------------------------------------------------
(* Read catalogs *)

\* contains_resource
ContainsResource(dir, path) == IsPrefix(dir, path)

\* AllowFileCatalog::new: exact files, none of them the root, none twice.
ExactFilesOk(files) ==
    /\ Len(files) \in 1..MaxAllowEntries
    /\ \A i \in DOMAIN files : files[i] # <<>>
    /\ IsInjective(files)

\* WorkspaceReadAuthorization::new with canonical_set: the root may be a
\* directory, a path is listed once.
AuthorizationOk(files, dirs) ==
    /\ dirs # <<>>
    /\ \A i \in DOMAIN files : files[i] # <<>>
    /\ IsInjective(files \o dirs)
    /\ Len(files) + Len(dirs) <= MaxAllowEntries

\* LocalReadCatalog::build
ReadCatalogOk(c) == IF c.dirs = <<>> THEN ExactFilesOk(c.files) ELSE AuthorizationOk(c.files, c.dirs)

\* LocalReadCatalog::workspace_discovery
Discovery(c) == c.dirs # <<>>

\* catalog_digest of either catalog: sorted, so only the sets count.
CatalogDigest(c) == <<Discovery(c), ToSet(c.files), ToSet(c.dirs)>>

InDirectories(c, path) == \E i \in DOMAIN c.dirs : ContainsResource(c.dirs[i], path)

\* authorizes_resource of the workspace authorization: a file listed by name can
\* be read and examined, what is below a directory also listed and changed.
AuthorizesResource(c, cap, path) ==
    \/ cap \in {"read", "stat"} /\ (path \in ToSet(c.files) \/ InDirectories(c, path))
    \/ cap \in {"list", "search", "write", "patch"} /\ InDirectories(c, path)

\* authorizes_material: the arguments have the exact shape of the contract too.
AuthorizesMaterial(c, s) == s.shape /\ AuthorizesResource(c, s.cap, s.path)

-----------------------------------------------------------------------------
(* Processes *)

\* process_tooling: the session's snapshot, for its workspace only, or a
\* catalog built from the flags; {} when there is none.
Tooling(c) == IF c.session # None THEN c.session.executables ELSE c.executables

ToolingOk(c) == c.session # None => c.session.workspace = c.workspace

\* ProcessExecutionAuthorization::authorizes_resource
AuthorizesProcess(c, name) == name \in Tooling(c)

\* The flag checks a new run makes before anything else.
ProcessFlagsOk(c) ==
    /\ c.session # None => c.executables = {}
    /\ c.execute => Tooling(c) # {}

\* planning_constraints_required
ConstraintsRequired(c) == Discovery(c) \/ Tooling(c) # {}

-----------------------------------------------------------------------------
(* Manifest *)

MaxHostModelTurns == 4096

\* ManifestBudget::default and ::with_model_turns (two calls, one step and one
\* tool call for each turn)
SingleShotBudget == [turns |-> 2, calls |-> 4, steps |-> 1, tools |-> 1]
TurnsBudget(n) == [turns |-> n, calls |-> 2 * n, steps |-> n, tools |-> n]

\* manifest_budget: a single shot has no loop to extend.
BudgetOk(c) == c.turns # None => ConstraintsRequired(c) /\ c.turns \in 1..MaxHostModelTurns

ManifestBudget(c) ==
    IF ~ConstraintsRequired(c) THEN SingleShotBudget
    ELSE TurnsBudget(IF c.turns = None THEN 8 ELSE c.turns)

\* local_execution_profile_digest over the registered contracts.
ExecutionProfile(c) == <<Discovery(c), Tooling(c)>>

\* RunManifest::new
Manifest(c) ==
    [workspace |-> c.workspace,
     model     |-> c.endpoint.model,
     catalog   |-> CatalogDigest(c),
     profile   |-> ExecutionProfile(c),
     request   |-> RequestProfile(c.endpoint, ConstraintsRequired(c)),
     budget    |-> ManifestBudget(c)]

\* The profile of the planner built for a run: the model it asks, with the planner
\* id and the tokenizer, is the manifest's, the rest is the command's.
PlannerRequest(m, c) ==
    [RequestProfile(c.endpoint, ConstraintsRequired(c)) EXCEPT !.model = m.model]

\* What run_local_composed verifies before it touches the state root.
RequestOk(c) ==
    /\ c.goal /\ c.workspace # None
    /\ ReadCatalogOk(c) /\ ToolingOk(c) /\ BudgetOk(c)
    /\ PlannerConfig(c.endpoint) = "ok"

\* Slip: the profile of the tools is taken to cover the paths they may use.
ResumeProfileOk(m, c) ==
    /\ c.workspace # None /\ m.workspace = c.workspace
    /\ ReadCatalogOk(c)
    /\ c.session # None => c.executables = {}
    /\ ToolingOk(c)
    /\ c.execute => Tooling(c) # {}
    /\ m.profile = ExecutionProfile(c)
    /\ c.egress =>
        /\ PlannerConfig(c.endpoint) = "ok"
        /\ m.request = PlannerRequest(m, c)

\* What resume_local_composed compares with the manifest before it reopens the
\* store: the workspace, what the flags authorize and, when it may call the
\* model, what it would ask.
ResumeOk(m, c) ==
    /\ c.workspace # None /\ m.workspace = c.workspace
    /\ ReadCatalogOk(c)
    /\ c.session # None => c.executables = {}
    /\ ToolingOk(c)
    /\ c.execute => Tooling(c) # {}
    /\ m.profile = ExecutionProfile(c)
    /\ m.catalog = CatalogDigest(c)
    /\ c.egress =>
        /\ PlannerConfig(c.endpoint) = "ok"
        /\ m.request = PlannerRequest(m, c)

-----------------------------------------------------------------------------
(* Tools, routes, materials and approvals *)

\* local_tool_product: the contracts registered with their routes and adapters.
Product(c) ==
    (IF Discovery(c) THEN Capabilities \ {"process"} ELSE {"read"})
        \union (IF Tooling(c) # {} THEN {"process"} ELSE {})

\* ExactLocalRoute::route_for: a registered contract, and an at-most-once profile
\* exactly for the contracts that change something.
Routes(c, s) == s.cap \in Product(c) /\ (s.once <=> EffectClass(s.cap) # "ReadOnly")

\* LocalMaterializer::materialize: the reference it may bind to a planned step.
Materializes(c, s) ==
    IF s.cap = "process" THEN AuthorizesProcess(c, s.path) /\ s.shape
    ELSE IF Discovery(c) THEN AuthorizesMaterial(c, s)
    ELSE s.cap = "read" /\ s.path \in ToSet(c.files)

\* Exact-file references name an entry of the catalog; the others are recipes
\* persisted in the run's material catalog.
NeedsRecipe(c, s) == s.cap = "process" \/ Discovery(c)

\* reconstruct of the three providers: the recipe must still be stored and still
\* be authorized by the flags of this command.
Reconstructs(c, s, recipes) == Materializes(c, s) /\ (NeedsRecipe(c, s) => s.id \in recipes)

\* authorized_action_profiles and authorized_process_profiles: the exact shape of
\* a request this host may grant at all.
Grantable(c, s) ==
    IF EffectClass(s.cap) = "NonIdempotent" THEN AuthorizesProcess(c, s.path)
    ELSE IF Discovery(c) THEN AuthorizesResource(c, s.cap, s.path)
    ELSE s.cap = "read" /\ s.path \in ToSet(c.files)

Flag(c, cap) ==
    IF EffectClass(cap) = "ReadOnly" THEN c.read
    ELSE IF EffectClass(cap) = "Idempotent" THEN c.write
    ELSE c.execute

\* ExplicitLocalApproval::decide
Decide(c, s) ==
    IF ~Grantable(c, s) THEN "Denied"
    ELSE IF ~Flag(c, s.cap) THEN "Pending"
    ELSE "Approved"
=============================================================================
