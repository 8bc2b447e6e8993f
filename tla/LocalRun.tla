------------------------------- MODULE LocalRun -------------------------------
(***************************************************************************)
(* The commands of the CLI on one run (xgeny-cli: composition.rs,          *)
(* driver.rs, run_layout.rs): run creates the directory and drives it,     *)
(* resume looks at what an earlier command left and goes on or refuses,    *)
(* and model-call recovery inspects and discards a call in doubt.  Each    *)
(* runs in a process of its own with its own flags, under the lease of the *)
(* run, and may stop at any moment.  The components below the driver are   *)
(* modelled in modules of their own; here one append is one step of run.   *)
(***************************************************************************)
EXTENDS PlanProposal

CONSTANTS
    Actors,        \* processes
    Requests,      \* the requests they may be given
    Exchanges,     \* what the endpoint may do with one request
    MaxCommands,   \* modelling bound: commands started
    MaxFaults      \* modelling bound: crashes, errors and cancellations

\* What a call on record is: reserved, or in doubt for one of three reasons.
CallStatus == {"Reserved", "Interrupted", "Timeout", "TransportUnavailable"}

ASSUME LocalRunAssumption ==
    /\ None \notin Actors /\ MaxCommands \in Nat /\ MaxFaults \in Nat
    /\ None \notin [id : Nat, status : CallStatus]
    /\ None \notin [class : {"RecoveryRequired", "Rejected", "Paused"},
                    reason : {"Effect", "FailedWork", "Quiescent"}]

VARIABLES
    dir,           \* the run directory: made, manifest, catalog, db
    run,           \* the replayed state of the journal, or None
    recipes,       \* steps with a recipe in the material catalog
    lease,         \* the process that holds the lease, or None
    host,          \* what each process is doing
    inspected,     \* the run as the operator last saw it inspected
    sent,          \* requests that left for the endpoint, by call
    granted,       \* steps admitted by a command that had the flag for them
    acted,         \* steps whose effect was performed
    commands, faults

vars == <<dir, run, recipes, lease, host, inspected, sent, granted, acted, commands, faults>>

Idle ==
    [pc |-> "idle", kind |-> None, c |-> None, target |-> None, seen |-> None, ticks |-> 0,
     step |-> None, exchange |-> None, outcome |-> None, result |-> None]

NewRun ==
    [seq |-> 1, conf |-> 0, call |-> None, reserved |-> 0, turns |-> 0, steps |-> <<>>,
     candidate |-> "none"]

-----------------------------------------------------------------------------
(* What a state of the run says *)

InDoubt == {"EffectUnknown", "Reconciling", "ManualRequired"}

\* unknown_model_call_reason, has_reserved_model_call, executing_step_id and
\* has_effect_uncertainty
CallUnknown(r) == r.call # None /\ r.call.status # "Reserved"
CallReserved(r) == r.call # None /\ r.call.status = "Reserved"
Executing(r) == WithStatus(r.steps, "Executing")
EffectUncertain(r) == \E s \in DOMAIN r.steps : r.steps[s].status \in InDoubt

Doubtful(r) == Executing(r) # {} \/ EffectUncertain(r)

ToolCalls(r) == MapThenSumSet(LAMBDA s : r.steps[s].attempts, DOMAIN r.steps)

Budget == dir.manifest.m.budget

\* The public results of a command.
Completed == [class |-> "Completed", reason |-> "none"]
Paused(reason) == [class |-> "Paused", reason |-> reason]
Rejected(reason) == [class |-> "Rejected", reason |-> reason]
Recovery(reason) == [class |-> "RecoveryRequired", reason |-> reason]
Failure(error) == [class |-> "Error", reason |-> error]
Shown == [class |-> "Inspected", reason |-> "none"]

\* Slip: a call that was reserved and never answered is not looked for.
ClassifySettledOnly(r) ==
    IF CallUnknown(r) THEN Recovery(r.call.status)
    ELSE IF Doubtful(r) THEN Recovery("Effect")
    ELSE Failure("Internal")

\* classify_durable_boundary_after_driver_error
Classify(r) ==
    IF CallUnknown(r) THEN Recovery(r.call.status)
    ELSE IF CallReserved(r) THEN Recovery("Interrupted")
    ELSE IF Doubtful(r) THEN Recovery("Effect")
    ELSE Failure("Internal")

\* Slip: only an empty graph is expected to lead to the model.
ModelCallMayBeFirst(r) ==
    /\ r.conf = 2 /\ r.call = None /\ r.candidate = "none"
    /\ DOMAIN r.steps = {}
    /\ r.turns < Budget.turns /\ r.reserved < Budget.calls

\* model_call_may_be_next
ModelCallMayBeNext(r) ==
    /\ r.conf = 2 /\ r.call = None /\ r.candidate = "none"
    /\ NextSteps(r.steps) = {}
    /\ WithStatus(r.steps, "Failed") = {} /\ WithStatus(r.steps, "ManualRequired") = {}
    /\ r.turns < Budget.turns /\ r.reserved < Budget.calls

-----------------------------------------------------------------------------
(* Steps of a process *)

Pc(a, pc) == host[a].pc = pc

Goto(a, pc) == host' = [host EXCEPT ![a].pc = pc]

\* The command has its result; it returns it with the lease still held.
Finish(a, result) == host' = [host EXCEPT ![a].pc = "done", ![a].result = result]

\* An append of this run's journal, under the lease.
Journal(r) == run' = [r EXCEPT !.seq = @ + 1]

SetStatus(r, s, status) == [r EXCEPT !.steps[s].status = status]

Start(a, kind, c, target) ==
    /\ Pc(a, "idle") /\ commands < MaxCommands
    /\ commands' = commands + 1
    /\ host' = [host EXCEPT ![a] = [Idle EXCEPT !.kind = kind, !.c = c, !.target = target,
                                                !.pc = "lease"]]

-----------------------------------------------------------------------------
(* run *)

\* What the flags of a new run are refused for: validate_max_ticks and the
\* process flags, then consent, then the rest.
RunRefusal(c) ==
    IF ~(c.ticks \in 1..MaxTicks) \/ ~ProcessFlagsOk(c) THEN Failure("Configuration")
    ELSE IF ~c.egress THEN Paused("Egress")
    ELSE IF ~RequestOk(c) THEN Failure("Configuration")
    ELSE Completed

\* run_local_composed refuses, or pauses without consent to send anything,
\* before it touches the disk.
RefuseRun(a, c) ==
    /\ Pc(a, "idle") /\ commands < MaxCommands
    /\ RunRefusal(c) # Completed
    /\ commands' = commands + 1
    /\ host' = [host EXCEPT ![a] = [Idle EXCEPT !.kind = "Run", !.c = c, !.pc = "done",
                                                !.result = RunRefusal(c)]]
    /\ UNCHANGED <<dir, run, recipes, lease, inspected, sent, granted, acted, faults>>

\* Everything is checked before RunLayout::create makes the directory of the new
\* run id; the model follows one id.
StartRun(a, c) ==
    /\ ~dir.made
    /\ RunRefusal(c) = Completed
    /\ Start(a, "Run", c, None)
    /\ dir' = [dir EXCEPT !.made = TRUE]
    /\ UNCHANGED <<run, recipes, lease, inspected, sent, granted, acted, faults>>

\* write_manifest and, where plans need it, the material catalog; not yet under
\* the lease.
WriteManifest(a) ==
    /\ Pc(a, "lease") /\ host[a].kind = "Run" /\ dir.manifest = None
    /\ dir' = [dir EXCEPT !.manifest = [torn |-> FALSE, m |-> Manifest(host[a].c)]]
    /\ UNCHANGED <<run, recipes, lease, host, inspected, sent, granted, acted, commands, faults>>

CreateCatalog(a) ==
    /\ Pc(a, "lease") /\ host[a].kind = "Run" /\ dir.manifest # None
    /\ ConstraintsRequired(host[a].c) /\ ~dir.catalog
    /\ dir' = [dir EXCEPT !.catalog = TRUE]
    /\ UNCHANGED <<run, recipes, lease, host, inspected, sent, granted, acted, commands, faults>>

\* acquire_lease, which never waits.
LayoutReady(a) ==
    host[a].kind = "Run" =>
        dir.manifest # None /\ (ConstraintsRequired(host[a].c) => dir.catalog)

AcquireLease(a) ==
    /\ Pc(a, "lease") /\ LayoutReady(a)
    /\ IF lease # None
       THEN Finish(a, Failure("Busy")) /\ UNCHANGED lease
       ELSE /\ lease' = a
            /\ Goto(a, IF host[a].kind = "Run" THEN "database" ELSE "preflight")
    /\ UNCHANGED <<dir, run, recipes, inspected, sent, granted, acted, commands, faults>>

\* SqliteRunStore::create, then seed_run.
CreateDatabase(a) ==
    /\ Pc(a, "database")
    /\ dir' = [dir EXCEPT !.db = TRUE]
    /\ Goto(a, "seed")
    /\ UNCHANGED <<run, recipes, lease, inspected, sent, granted, acted, commands, faults>>

SeedRun(a) ==
    /\ Pc(a, "seed")
    /\ run' = NewRun
    /\ host' = [host EXCEPT ![a].pc = "tick", ![a].ticks = host[a].c.ticks]
    /\ UNCHANGED <<dir, recipes, lease, inspected, sent, granted, acted, commands, faults>>

-----------------------------------------------------------------------------
(* resume *)

\* Without the directory, or with a tick limit out of range.
RefuseResume(a, c) ==
    /\ Pc(a, "idle") /\ commands < MaxCommands
    /\ ~dir.made \/ c.ticks \notin 1..MaxTicks
    /\ commands' = commands + 1
    /\ host' = [host EXCEPT ![a] = [Idle EXCEPT !.kind = "Resume", !.c = c, !.pc = "done",
                                                !.result = Failure("Configuration")]]
    /\ UNCHANGED <<dir, run, recipes, lease, inspected, sent, granted, acted, faults>>

StartResume(a, c) ==
    /\ dir.made /\ c.ticks \in 1..MaxTicks
    /\ Start(a, "Resume", c, None)
    /\ UNCHANGED <<dir, run, recipes, lease, inspected, sent, granted, acted, faults>>

\* read_manifest, the read-only store and verify_manifest_state.
Readable == dir.manifest # None /\ ~dir.manifest.torn /\ dir.db /\ run # None

\* resume_local_composed up to the writable store: a replayed completion, then
\* the doubts an earlier process left, then consent, then the flags.
PreflightResume(a) ==
    LET c == host[a].c
        Next(pc) == host' = [host EXCEPT ![a].pc = pc, ![a].seen = run] IN
    /\ Pc(a, "preflight") /\ host[a].kind = "Resume"
    /\ IF ~Readable \/ run.candidate = "legacy" THEN Finish(a, Failure("Integrity"))
       ELSE IF run.candidate = "output" THEN Finish(a, Completed)
       ELSE IF CallUnknown(run) THEN Finish(a, Recovery(run.call.status))
       ELSE IF CallReserved(run) THEN Next("mark_call")
       ELSE IF Executing(run) # {} THEN Next("mark_effect")
       ELSE IF EffectUncertain(run) THEN Finish(a, Recovery("Effect"))
       ELSE IF ~c.egress /\ NextSteps(run.steps) = {} THEN Finish(a, Paused("Egress"))
       ELSE IF ~ResumeOk(dir.manifest.m, c) THEN Finish(a, Failure("Configuration"))
       ELSE Next("reopen")
    /\ UNCHANGED <<dir, run, recipes, lease, inspected, sent, granted, acted, commands, faults>>

\* reopen_writable_verified: the run is still the one the decision was made on.
Reopened(a) == run = host[a].seen

\* mark_reserved_model_call_unknown: a tick without tools; work on the frontier
\* would come first and is no answer here.
MarkCall(a) ==
    /\ Pc(a, "mark_call")
    /\ IF Reopened(a) /\ run.conf = 2 /\ NextSteps(run.steps) = {}
       THEN /\ Journal([run EXCEPT !.call.status = "Interrupted"])
            /\ Finish(a, Recovery("Interrupted"))
       ELSE Finish(a, Failure("Integrity")) /\ UNCHANGED run
    /\ UNCHANGED <<dir, recipes, lease, inspected, sent, granted, acted, commands, faults>>

\* mark_executing_effect_unknown
MarkEffect(a) ==
    /\ Pc(a, "mark_effect")
    /\ IF Reopened(a)
       THEN \E s \in Executing(run) :
                /\ Journal(SetStatus(run, s, "EffectUnknown"))
                /\ Finish(a, Recovery("Effect"))
       ELSE Finish(a, Failure("Integrity")) /\ UNCHANGED run
    /\ UNCHANGED <<dir, recipes, lease, inspected, sent, granted, acted, commands, faults>>

\* The writable store and, in continue_incomplete, the material catalog.
Reopen(a) ==
    /\ Pc(a, "reopen")
    /\ IF Reopened(a) /\ (ConstraintsRequired(host[a].c) => dir.catalog)
       THEN host' = [host EXCEPT ![a].pc = "tick", ![a].ticks = host[a].c.ticks, ![a].seen = None]
       ELSE Finish(a, Failure("Integrity"))
    /\ UNCHANGED <<dir, run, recipes, lease, inspected, sent, granted, acted, commands, faults>>

-----------------------------------------------------------------------------
(* Model-call recovery.  A target names a call and, optionally, the head the *)
(* operator inspected; shown is what the inspection showed.                  *)

StartInspect(a) ==
    /\ dir.made
    /\ Start(a, "Inspect", None, [call |-> None, head |-> None, shown |-> None])
    /\ UNCHANGED <<dir, run, recipes, lease, inspected, sent, granted, acted, faults>>

\* discard_local_model_call and discard_local_model_call_at_head, for the call
\* the operator saw.
StartDiscard(a, atHead) ==
    /\ inspected # None /\ inspected.call # None
    /\ Start(a, "Discard", None,
             [call |-> inspected.call.id, head |-> IF atHead THEN inspected.seq ELSE None,
              shown |-> inspected])
    /\ UNCHANGED <<dir, run, recipes, lease, inspected, sent, granted, acted, faults>>

\* Slip: the head the operator saw is not compared again under the lease.
DiscardsAnyHead(target, r) ==
    r.candidate = "none" /\ r.call # None /\ r.call.id = target.call

\* The conditions of a discard: the head first, then the call of a run that is
\* not complete.
Discards(target, r) ==
    /\ target.head # None => target.head = r.seq
    /\ r.candidate = "none" /\ r.call # None /\ r.call.id = target.call

\* local_model_call_recovery up to the discard.
PreflightRecovery(a) ==
    LET target == host[a].target IN
    /\ Pc(a, "preflight") /\ host[a].kind \in {"Inspect", "Discard"}
    /\ IF ~Readable \/ run.candidate = "legacy" THEN Finish(a, Failure("Integrity")) /\ UNCHANGED inspected
       ELSE IF host[a].kind = "Inspect" THEN Finish(a, Shown) /\ inspected' = run
       ELSE IF Discards(target, run)
            THEN host' = [host EXCEPT ![a].pc = "abandon", ![a].seen = run] /\ UNCHANGED inspected
       ELSE Finish(a, Failure("Configuration")) /\ UNCHANGED inspected
    /\ UNCHANGED <<dir, run, recipes, lease, sent, granted, acted, commands, faults>>

\* abandon_model_call: the slot is not refunded; the report shows the new state.
Abandon(a) ==
    /\ Pc(a, "abandon")
    /\ IF Reopened(a)
       THEN /\ Journal([run EXCEPT !.call = None])
            /\ inspected' = run'
            /\ Finish(a, Shown)
       ELSE Finish(a, Failure("Integrity")) /\ UNCHANGED <<run, inspected>>
    /\ UNCHANGED <<dir, recipes, lease, sent, granted, acted, commands, faults>>

-----------------------------------------------------------------------------
(* Checks of an endpoint.  They share nothing with a run, so the model       *)
(* follows them on their own: one takes up all of MaxCommands.               *)

\* check_openai_model, and check_openai_compatibility for a probe.
CheckEndpoint(probe, e, x) ==
    LET config == IF probe THEN PlannerConfig(e) ELSE CheckerConfig(e) IN
    IF config # "ok" THEN config
    ELSE IF probe THEN CheckCompatibility(e, x) ELSE CheckModel(e, x)

Check(a, c, probe, x) ==
    LET checked == CheckEndpoint(probe, c.endpoint, x) IN
    /\ Pc(a, "idle") /\ commands = 0
    /\ commands' = MaxCommands
    /\ host' = [host EXCEPT ![a] =
            [Idle EXCEPT !.kind = IF probe THEN "Probe" ELSE "Check", !.c = c, !.exchange = x,
                         !.pc = "done", !.result = IF checked = "ok" THEN Shown ELSE Failure(checked)]]
    /\ UNCHANGED <<dir, run, recipes, lease, inspected, sent, granted, acted, faults>>

-----------------------------------------------------------------------------
(* The driver: one tick of the agent loop *)

\* The loop of drive_until_pause is at its head and may tick.
Ticks(a) == Pc(a, "tick") /\ host[a].ticks > 0 /\ (ModelCallMayBeNext(run) => host[a].c.egress)

TickTo(a, pc, s) ==
    host' = [host EXCEPT ![a].pc = pc, ![a].ticks = @ - 1, ![a].step = s]

TickBudgetExhausted(a) ==
    /\ Pc(a, "tick") /\ host[a].ticks = 0
    /\ Finish(a, Paused("Ticks"))
    /\ UNCHANGED <<dir, run, recipes, lease, inspected, sent, granted, acted, commands, faults>>

\* ModelEgressRequired
AskEgress(a) ==
    /\ Pc(a, "tick") /\ host[a].ticks > 0
    /\ ModelCallMayBeNext(run) /\ ~host[a].c.egress
    /\ Finish(a, Paused("Egress"))
    /\ UNCHANGED <<dir, run, recipes, lease, inspected, sent, granted, acted, commands, faults>>

\* configure and configure_model_call_lifecycle
Configure(a) ==
    /\ Ticks(a) /\ run.conf < 2
    /\ Journal([run EXCEPT !.conf = @ + 1])
    /\ TickTo(a, "tick", None)
    /\ UNCHANGED <<dir, recipes, lease, inspected, sent, granted, acted, commands, faults>>

\* Where the driver handles the next action of the frontier.
Handler(status) ==
    IF status = "Planned" THEN "admit" ELSE IF status = "Validating" THEN "verify" ELSE "effect"

\* ActionRequired, or the tool budget in front of a new call.
TakeAction(a) ==
    /\ Ticks(a) /\ run.conf = 2
    /\ \E s \in NextSteps(run.steps) :
        LET status == run.steps[s].status IN
        IF status = "IntentCommitted" /\ ToolCalls(run) >= Budget.tools
        THEN Finish(a, Paused("Quiescent"))
        ELSE TickTo(a, Handler(status), s)
    /\ UNCHANGED <<dir, run, recipes, lease, inspected, sent, granted, acted, commands, faults>>

\* terminal_quiescence and the budgets in front of a call, as results; None
\* when the model may be asked.
Quiescence(r) ==
    IF WithStatus(r.steps, "ManualRequired") # {} THEN Recovery("Effect")
    ELSE IF WithStatus(r.steps, "Failed") # {} THEN Rejected("FailedWork")
    ELSE IF \/ DOMAIN r.steps # {} /\ ~AllReceipted(r.steps)
            \/ r.turns >= Budget.turns \/ r.reserved >= Budget.calls
         THEN Paused("Quiescent")
    ELSE None

Quiesce(a) ==
    /\ Ticks(a) /\ run.conf = 2 /\ NextSteps(run.steps) = {}
    /\ Quiescence(run) # None
    /\ Finish(a, Quiescence(run))
    /\ UNCHANGED <<dir, run, recipes, lease, inspected, sent, granted, acted, commands, faults>>

ReserveCall(a) ==
    /\ Ticks(a) /\ run.conf = 2 /\ NextSteps(run.steps) = {}
    /\ Quiescence(run) = None
    /\ Journal([run EXCEPT !.reserved = @ + 1,
                          !.call = [id |-> run.reserved + 1, status |-> "Reserved"]])
    /\ TickTo(a, "call", None)
    /\ UNCHANGED <<dir, recipes, lease, inspected, sent, granted, acted, commands, faults>>

-----------------------------------------------------------------------------
(* The model call *)

\* LocalPlanner::plan: a command without consent has a planner that sends
\* nothing and says Unavailable.
CallModel(a, x) ==
    /\ Pc(a, "call")
    /\ host' = [host EXCEPT ![a].pc = "answer", ![a].exchange = x]
    /\ sent' = IF host[a].c.egress
               THEN sent \union {[id |-> run.call.id,
                                  request |-> PlannerRequest(dir.manifest.m, host[a].c)]}
               ELSE sent
    /\ UNCHANGED <<dir, run, recipes, lease, inspected, granted, acted, commands, faults>>

AnswerOf(a) ==
    IF host[a].c.egress
    THEN Reply([host[a].c.endpoint EXCEPT !.model = dir.manifest.m.model], host[a].exchange)
    ELSE "Unavailable"

ProposalOf(a) == Proposal(host[a].exchange)

\* record_planner_failure: a timeout or a lost connection leaves the call in
\* doubt, any other failure settles it.
RecordFailure(a) ==
    LET answer == AnswerOf(a)
        status == IF answer = "Timeout" THEN "Timeout" ELSE "TransportUnavailable" IN
    /\ Pc(a, "answer") /\ answer # "ok"
    /\ IF answer \in {"Timeout", "Unavailable"}
       THEN /\ Journal([run EXCEPT !.call.status = status])
            /\ Finish(a, Recovery(status))
       ELSE /\ Journal([run EXCEPT !.call = None])
            /\ Finish(a, Rejected("Model"))
    /\ UNCHANGED <<dir, recipes, lease, inspected, sent, granted, acted, commands, faults>>

\* record_completion_candidate
RecordCompletion(a) ==
    /\ Pc(a, "answer") /\ AnswerOf(a) = "ok" /\ ProposalOf(a).kind = "complete"
    /\ IF AllReceipted(run.steps)
       THEN /\ Journal([run EXCEPT !.call = None, !.turns = @ + 1, !.candidate = "output"])
            /\ Finish(a, Completed)
       ELSE /\ Journal([run EXCEPT !.call = None])
            /\ Finish(a, Rejected("Proposal"))
    /\ UNCHANGED <<dir, recipes, lease, inspected, sent, granted, acted, commands, faults>>

\* handle_proposal and prepare_plan
PlanAccepted(a) ==
    ToolCalls(run) < Budget.tools /\ PlanOk(host[a].c, Budget, run.steps, ProposalOf(a).steps)

RejectPlan(a) ==
    /\ Pc(a, "answer") /\ AnswerOf(a) = "ok" /\ ProposalOf(a).kind = "plan"
    /\ ~PlanAccepted(a)
    /\ Journal([run EXCEPT !.call = None])
    /\ Finish(a, Rejected("Proposal"))
    /\ UNCHANGED <<dir, recipes, lease, inspected, sent, granted, acted, commands, faults>>

ProposedSteps(a) == PlannedSteps(run.turns + 1, ProposalOf(a).steps)

\* materialize_plan: recipes are stored before the plan is committed, and stay
\* when it is not.
Materialize(a) ==
    LET g == ProposedSteps(a)
        c == host[a].c
        storable == {s \in DOMAIN g : Materializes(c, g[s])}
        stored(ids) == recipes \union {s \in ids : NeedsRecipe(c, g[s])} IN
    /\ Pc(a, "answer") /\ AnswerOf(a) = "ok" /\ ProposalOf(a).kind = "plan"
    /\ PlanAccepted(a)
    /\ IF storable = DOMAIN g
       THEN /\ recipes' = stored(DOMAIN g)
            /\ Goto(a, "commit") /\ UNCHANGED run
       ELSE /\ \E ids \in SUBSET storable : recipes' = stored(ids)
            /\ Journal([run EXCEPT !.call = None])
            /\ Finish(a, Rejected("Material"))
    /\ UNCHANGED <<dir, lease, inspected, sent, granted, acted, commands, faults>>

Extended(new, g) ==
    [s \in DOMAIN new \union DOMAIN g |-> IF s \in DOMAIN new THEN new[s] ELSE g[s]]

CommitPlan(a) ==
    /\ Pc(a, "commit")
    /\ Journal([run EXCEPT !.call = None, !.turns = @ + 1, !.steps = Extended(ProposedSteps(a), @)])
    /\ Goto(a, "observe")
    /\ UNCHANGED <<dir, recipes, lease, inspected, sent, granted, acted, commands, faults>>

-----------------------------------------------------------------------------
(* The actions of the frontier *)

\* Admit: the route, the material and the approval, then the intent.  The class
\* of a step names the approval that is missing.
Admit(a) ==
    LET c == host[a].c
        s == host[a].step
        step == run.steps[s] IN
    /\ Pc(a, "admit")
    /\ IF ~Routes(c, step) \/ ~Reconstructs(c, step, recipes)
       THEN Finish(a, Classify(run)) /\ UNCHANGED <<run, granted>>
       ELSE IF Decide(c, step) = "Denied"
            THEN Finish(a, Rejected("ApprovalDenied")) /\ UNCHANGED <<run, granted>>
       ELSE IF Decide(c, step) = "Pending"
            THEN Finish(a, Paused(EffectClass(step.cap))) /\ UNCHANGED <<run, granted>>
       ELSE /\ Journal(SetStatus(run, s, "IntentCommitted"))
            /\ granted' = IF Flag(c, step.cap) THEN granted \union {s} ELSE granted
            /\ Goto(a, "observe")
    /\ UNCHANGED <<dir, recipes, lease, inspected, sent, acted, commands, faults>>

\* DriveEffect on a committed intent: the material is recovered, then the start
\* is durable before the adapter is called.
StartEffect(a) ==
    LET s == host[a].step
        step == run.steps[s] IN
    /\ Pc(a, "effect") /\ run.steps[s].status = "IntentCommitted"
    /\ IF Reconstructs(host[a].c, step, recipes)
       THEN /\ Journal([SetStatus(run, s, "Executing") EXCEPT !.steps[s].attempts = @ + 1])
            /\ Goto(a, "perform")
       ELSE Finish(a, Classify(run)) /\ UNCHANGED run
    /\ UNCHANGED <<dir, recipes, lease, inspected, sent, granted, acted, commands, faults>>

\* DriveEffect on an effect in doubt: no local sink can be queried.
GiveUp(a) ==
    /\ Pc(a, "effect") /\ run.steps[host[a].step].status = "EffectUnknown"
    /\ Journal(SetStatus(run, host[a].step, "ManualRequired"))
    /\ Goto(a, "observe")
    /\ UNCHANGED <<dir, recipes, lease, inspected, sent, granted, acted, commands, faults>>

\* The adapter; a read is never in doubt.
PerformEffect(a, outcome) ==
    /\ Pc(a, "perform")
    /\ outcome = "EffectUnknown" => EffectClass(run.steps[host[a].step].cap) # "ReadOnly"
    /\ acted' = acted \union {host[a].step}
    /\ host' = [host EXCEPT ![a].pc = "record", ![a].outcome = outcome]
    /\ UNCHANGED <<dir, run, recipes, lease, inspected, sent, granted, commands, faults>>

RecordOutcome(a) ==
    /\ Pc(a, "record")
    /\ Journal(SetStatus(run, host[a].step, host[a].outcome))
    /\ Goto(a, "observe")
    /\ UNCHANGED <<dir, recipes, lease, inspected, sent, granted, acted, commands, faults>>

Verify(a, passed) ==
    LET s == host[a].step IN
    /\ Pc(a, "verify")
    /\ Journal([SetStatus(run, s, IF passed THEN "Completed" ELSE "Failed")
                EXCEPT !.steps[s].receipt = passed])
    /\ Goto(a, "observe")
    /\ UNCHANGED <<dir, recipes, lease, inspected, sent, granted, acted, commands, faults>>

-----------------------------------------------------------------------------
(* Progress, errors, crashes and the end of a command *)

\* The observer lets the command go on.
Continue(a) ==
    /\ Pc(a, "observe")
    /\ host' = [host EXCEPT ![a].pc = "tick", ![a].step = None, ![a].exchange = None,
                            ![a].outcome = None]
    /\ UNCHANGED <<dir, run, recipes, lease, inspected, sent, granted, acted, commands, faults>>

\* The observer cancels: in front of a model call, an effect or a verification,
\* or behind a commit.
Cancel(a) ==
    /\ faults < MaxFaults
    /\ \/ Pc(a, "observe") \/ Pc(a, "effect") \/ Pc(a, "verify")
       \/ Ticks(a) /\ ModelCallMayBeNext(run)
    /\ faults' = faults + 1
    /\ Finish(a, Paused("UserCancelled"))
    /\ UNCHANGED <<dir, run, recipes, lease, inspected, sent, granted, acted, commands>>

\* The store, a verifier or an adapter returns an error: the driver stops, and
\* the result is read off the journal.
DriverFails(a) ==
    /\ faults < MaxFaults
    /\ host[a].pc \in {"tick", "answer", "commit", "admit", "effect", "record", "verify"}
    /\ faults' = faults + 1
    /\ Finish(a, Classify(run))
    /\ UNCHANGED <<dir, run, recipes, lease, inspected, sent, granted, acted, commands>>

\* The process ends; the lease goes with it, and a manifest half written stays.
Crash(a) ==
    /\ faults < MaxFaults /\ ~Pc(a, "idle")
    /\ faults' = faults + 1
    /\ host' = [host EXCEPT ![a] = Idle]
    /\ lease' = IF lease = a THEN None ELSE lease
    /\ \/ UNCHANGED dir
       \/ /\ Pc(a, "lease") /\ host[a].kind = "Run" /\ dir.manifest = None
          /\ dir' = [dir EXCEPT !.manifest = [torn |-> TRUE, m |-> None]]
    /\ UNCHANGED <<run, recipes, inspected, sent, granted, acted, commands>>

Exit(a) ==
    /\ Pc(a, "done")
    /\ host' = [host EXCEPT ![a] = Idle]
    /\ lease' = IF lease = a THEN None ELSE lease
    /\ UNCHANGED <<dir, run, recipes, inspected, sent, granted, acted, commands, faults>>

-----------------------------------------------------------------------------

\* No run yet, or one completed by a version that kept no summary.
Init ==
    /\ \/ dir = [made |-> FALSE, manifest |-> None, catalog |-> FALSE, db |-> FALSE] /\ run = None
       \/ \E c \in Requests :
            /\ RunRefusal(c) = Completed
            /\ dir = [made |-> TRUE, manifest |-> [torn |-> FALSE, m |-> Manifest(c)],
                      catalog |-> ConstraintsRequired(c), db |-> TRUE]
            /\ run = [NewRun EXCEPT !.conf = 1, !.turns = 1, !.candidate = "legacy"]
    /\ recipes = {} /\ lease = None /\ inspected = None
    /\ host = [a \in Actors |-> Idle]
    /\ sent = {} /\ granted = {} /\ acted = {}
    /\ commands = 0 /\ faults = 0

Command(a) ==
    \/ \E c \in Requests : RefuseRun(a, c) \/ StartRun(a, c) \/ RefuseResume(a, c) \/ StartResume(a, c)
    \/ \E c \in Requests, probe \in BOOLEAN, x \in Exchanges : Check(a, c, probe, x)
    \/ StartInspect(a)
    \/ \E atHead \in BOOLEAN : StartDiscard(a, atHead)

Step(a) ==
    \/ WriteManifest(a) \/ CreateCatalog(a) \/ AcquireLease(a) \/ CreateDatabase(a) \/ SeedRun(a)
    \/ PreflightResume(a) \/ MarkCall(a) \/ MarkEffect(a) \/ Reopen(a)
    \/ PreflightRecovery(a) \/ Abandon(a)
    \/ TickBudgetExhausted(a) \/ AskEgress(a) \/ Configure(a) \/ TakeAction(a) \/ Quiesce(a)
    \/ ReserveCall(a) \/ \E x \in Exchanges : CallModel(a, x)
    \/ RecordFailure(a) \/ RecordCompletion(a) \/ RejectPlan(a) \/ Materialize(a) \/ CommitPlan(a)
    \/ Admit(a) \/ StartEffect(a) \/ GiveUp(a)
    \/ \E outcome \in {"Validating", "Failed", "EffectUnknown"} : PerformEffect(a, outcome)
    \/ RecordOutcome(a) \/ \E passed \in BOOLEAN : Verify(a, passed)
    \/ Continue(a) \/ Exit(a)

Next == \E a \in Actors : Command(a) \/ Step(a) \/ Cancel(a) \/ DriverFails(a) \/ Crash(a)

Spec == Init /\ [][Next]_vars

-----------------------------------------------------------------------------
(* Properties *)

\* A call discarded at a head is discarded from the very run the operator was
\* shown: whatever a resume did in between, to this call or to anything else,
\* makes the discard fail.  Without a head, it is still the call that was shown.
DiscardIsInformed ==
    [][\A a \in Actors :
        Pc(a, "abandon") /\ run' # run /\ host'[a].pc = "done" =>
            LET target == host[a].target IN
            /\ run.call.id = target.shown.call.id
            /\ target.head # None => run = target.shown]_vars

\* Only a command given consent to egress spends a model call: none is reserved
\* for a planner that sends nothing, whatever local work it does first, so a
\* timeout or a lost connection on record stands for a request that was sent, and
\* every request has the profile the manifest of the run pins.
ConsentBoundsEgress ==
    /\ \A a \in Actors : host[a].pc \in {"call", "answer", "commit"} => host[a].c.egress
    /\ \A s \in sent : s.request = dir.manifest.m.request
    /\ run # None /\ run.call # None /\ run.call.status \in {"Timeout", "TransportUnavailable"} =>
        \E s \in sent : s.id = run.call.id

\* What the manifest lets a step touch.
WithinManifest(m, step) ==
    LET read == m.catalog[2]
        dirs == m.catalog[3] IN
    IF step.cap = "process" THEN step.path \in m.profile[2]
    ELSE step.path \in read \/ \E d \in dirs : ContainsResource(d, step.path)

\* Every effect was admitted by a command that had the flag for its class, and
\* lies within what the first command of the run authorized, however many
\* commands with other flags planned, admitted and performed it.
ActsWithinConsent ==
    \A s \in acted : s \in granted /\ WithinManifest(dir.manifest.m, run.steps[s])

\* What a command reports is so in the journal it leaves: a completion is
\* recorded, a doubt is real and has the reason reported, a doubtful call is
\* never reported as a pause, a rejection or an internal error, and a run that
\* waits for consent waits for nothing else.  A probe that passes was answered
\* as the planner would accept it.
ReportIsTrue ==
    \A a \in Actors :
        /\ Pc(a, "done") /\ host[a].kind = "Probe" /\ host[a].result = Shown =>
            Reply(host[a].c.endpoint, host[a].exchange) = "ok"
        /\ Pc(a, "done") /\ lease = a /\ Readable =>
            LET r == host[a].result IN
            /\ r.class = "Completed" => run.candidate = "output"
            /\ r.class = "RecoveryRequired" /\ r.reason = "Effect" => Doubtful(run)
            /\ r.class = "RecoveryRequired" /\ r.reason # "Effect" =>
                /\ run.call # None
                /\ run.call.status = r.reason \/ (CallReserved(run) /\ r.reason = "Interrupted")
            /\ r.class = "Paused" =>
                /\ run.call = None /\ run.candidate = "none"
                /\ r.reason = "Egress" => ~host[a].c.egress /\ NextSteps(run.steps) = {}
            /\ r.class = "Rejected" => run.call = None
            /\ r = Failure("Internal") => run.call = None /\ ~Doubtful(run)

\* A cancelled command never leaves an effect in doubt behind: the doubt is what
\* is reported.
CancelYieldsToDoubt ==
    \A a \in Actors :
        Pc(a, "done") /\ lease = a /\ host[a].result = Paused("UserCancelled") => ~Doubtful(run)
=============================================================================
