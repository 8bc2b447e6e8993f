--------------------------- MODULE EffectRuntime ---------------------------
(***************************************************************************)
(* The durable effect runtime (xgeny-runtime): processes that hold the     *)
(* run's lease in turn, admit a step, drive its effect through an external *)
(* sink and verify it, and that may stop between any two of those moments. *)
(* Every append is a WorkGraph action made against the head the process    *)
(* loaded; the sink is outside and keeps no promise beyond its contract.   *)
(***************************************************************************)
EXTENDS WorkGraph

CONSTANTS
    Procs,                  \* operating-system processes that open the run
    MaxExecutionAttempts,   \* RuntimePolicy.max_execution_attempts
    Lacks,                  \* what the host of a process cannot do for a step
    MaxStops                \* modelling bound: processes that stop early

\* What a host must be equipped for: it executes with the invocation's material,
\* an unchanged and healthy instance and its adapter, queries with the latter
\* two, and verifies with a registered verifier that speaks of the same output.
Stages == {"execute", "query", "verify"}

ASSUME RuntimeAssumption ==
    /\ None \notin Procs
    /\ MaxExecutionAttempts \in Nat \ {0}
    /\ Lacks \in [Procs -> SUBSET (Steps \X Stages)]
    /\ MaxStops \in Nat

VARIABLES
    lease,      \* the process that holds the lock file, or None
    pc,         \* where a process is
    view,       \* the head it loaded
    target,     \* the step it drives
    obs,        \* what the sink told it
    applied,    \* times a step's effect took place in the world
    orphan,     \* a call outlived its caller and may still take effect
    stops       \* early ends so far

procVars == <<pc, view, target, obs>>
worldVars == <<applied, orphan>>
rvars == <<vars, lease, procVars, worldVars, stops>>

Observations ==
    {"None", "Succeeded", "SucceededWithOutput", "Failed", "Unknown",
     "Applied", "NotApplied", "Inconclusive"}

RTypeOK ==
    /\ TypeOK
    /\ lease \in Procs \cup {None}
    /\ pc \in [Procs -> {"Down", "Ready", "Approving", "Prepared", "Calling",
                         "Landed", "Returned", "Querying", "Resolved"}]
    /\ view \in [Procs -> Nat]
    /\ target \in [Procs -> Steps \cup {None}]
    /\ obs \in [Procs -> Observations]
    /\ applied \in [Steps -> Nat]
    /\ orphan \in [Steps -> BOOLEAN]
    /\ stops \in Nat

RInit ==
    /\ Init
    /\ lease = None
    /\ pc = [p \in Procs |-> "Down"]
    /\ view = [p \in Procs |-> 0]
    /\ target = [p \in Procs |-> None]
    /\ obs = [p \in Procs |-> "None"]
    /\ applied = [s \in Steps |-> 0]
    /\ orphan = [s \in Steps |-> FALSE]
    /\ stops = 0

SupportsQuery(s) == intent[s].shape.guarantee \in {"QueryByKey", "DeduplicateAndQuery"}

\* The process starts an operation on s from the state it loads now.
Enter(p, s, at) ==
    /\ pc' = [pc EXCEPT ![p] = at]
    /\ view' = [view EXCEPT ![p] = sequence']
    /\ target' = [target EXCEPT ![p] = s]

\* It is done with the operation; the next one loads afresh.
Leave(p, at) ==
    /\ pc' = [pc EXCEPT ![p] = at]
    /\ view' = [view EXCEPT ![p] = 0]
    /\ target' = [target EXCEPT ![p] = None]
    /\ obs' = [obs EXCEPT ![p] = "None"]

\* RunStore::append with ExpectedHead: refused once another record was committed.
HeadUnchanged(p) == view[p] = sequence

\* The driver runs the first action of the frontier.
Drives(p, s) ==
    /\ pc[p] = "Ready" /\ lease = p
    /\ s \in NextActions(Known, dependsOn, status, receipt)

\* tick: an action that would start one more tool call than the budget allows.
BudgetSpent == agentLoop /\ ToolCalls >= MaxToolCalls

\* What p cannot do about s: drive_step returns an error before it appends or
\* calls anything, or, over the budget, the loop is Quiescent.
Refused(p, s) ==
    \/ /\ status[s] = "IntentCommitted"
       /\ \/ <<s, "execute">> \in Lacks[p] \/ ~intent[s].shape.provenance
          \/ attempts[s] >= MaxExecutionAttempts \/ BudgetSpent
    \/ /\ status[s] \in {"EffectUnknown", "Reconciling"}
       /\ \/ SupportsQuery(s) /\ <<s, "query">> \in Lacks[p]
          \/ ~intent[s].shape.provenance
    \/ /\ status[s] = "Validating"
       /\ <<s, "verify">> \in Lacks[p] \/ ~intent[s].shape.provenance

-----------------------------------------------------------------------------
(* Lease and process life *)

\* LocalRunLease::try_acquire
Acquire(p) ==
    /\ pc[p] = "Down" /\ lease = None
    /\ lease' = p
    /\ pc' = [pc EXCEPT ![p] = "Ready"]
    /\ UNCHANGED <<vars, view, target, obs, worldVars, stops>>

\* The process is killed, exits on an error or on its tick limit; dropping the
\* file releases the lock.  A call it leaves behind ends with it when the
\* sink can be queried for the outcome, and otherwise may still take effect.
Stop(p) ==
    /\ pc[p] # "Down" /\ stops < MaxStops
    /\ stops' = stops + 1
    /\ lease' = IF lease = p THEN None ELSE lease
    /\ Leave(p, "Down")
    /\ orphan' = IF pc[p] = "Calling" /\ ~SupportsQuery(target[p])
                 THEN [orphan EXCEPT ![target[p]] = TRUE] ELSE orphan
    /\ UNCHANGED <<vars, applied>>

\* The append of the operation's event fails in the store: the operation
\* returns an error, nothing was written, and the host may drive again.
StoreFails(p) ==
    /\ pc[p] \in {"Approving", "Prepared", "Returned", "Resolved"} /\ stops < MaxStops
    /\ stops' = stops + 1
    /\ Leave(p, "Ready")
    /\ UNCHANGED <<vars, lease, worldVars>>

\* The command ends with the error, or with the pause, and releases the lock.
Refuse(p, s) ==
    /\ Refused(p, s) /\ Drives(p, s)
    /\ lease' = None
    /\ Leave(p, "Down")
    /\ UNCHANGED <<vars, worldVars, stops>>

\* The first tick of an agent loop gives the run its budgets.
ConfigureLoop(p) ==
    /\ pc[p] = "Ready" /\ lease = p
    /\ AgentLoopConfigured
    /\ UNCHANGED <<lease, procVars, worldVars, stops>>

-----------------------------------------------------------------------------
(* Admission *)

\* The host seeds a step into the run it holds.
PlanStep(p, s, deps) ==
    /\ pc[p] = "Ready" /\ lease = p
    /\ StepPlanned(s, deps)
    /\ UNCHANGED <<lease, procVars, worldVars, stops>>

\* prepare: bind the permission request to the head, then wait for a decision.
PrepareAdmission(p, s) ==
    /\ status[s] = "Planned" /\ Drives(p, s)
    /\ UNCHANGED vars
    /\ Enter(p, s, "Approving")
    /\ UNCHANGED <<lease, obs, worldVars, stops>>

AuthorizeAndCommit(p, i) ==
    /\ pc[p] = "Approving" /\ HeadUnchanged(p)
    /\ EffectIntentCommitted(target[p], i, view[p])
    /\ Leave(p, "Ready")
    /\ UNCHANGED <<lease, worldVars, stops>>

\* The recoverable arguments of a committed intent are gone (mark_unavailable).
MarkMaterialUnavailable(p, s) ==
    /\ Drives(p, s)
    /\ InvocationMaterialUnavailable(s, intent[s].effect)
    /\ UNCHANGED <<lease, procVars, worldVars, stops>>

-----------------------------------------------------------------------------
(* Execution *)

\* DirectExecutor prepares the invocation against the loaded head.
PrepareEffect(p, s) ==
    /\ status[s] = "IntentCommitted" /\ Drives(p, s) /\ ~Refused(p, s)
    /\ UNCHANGED vars
    /\ Enter(p, s, "Prepared")
    /\ UNCHANGED <<lease, obs, worldVars, stops>>

\* Slip: the sink is called first and the start recorded with the outcome.
StartExecutionUnjournaled(p) ==
    /\ pc[p] = "Prepared" /\ HeadUnchanged(p)
    /\ UNCHANGED vars
    /\ Enter(p, target[p], "Calling")
    /\ UNCHANGED <<lease, obs, worldVars, stops>>

\* execute_intent: EffectExecutionStarted is durable before the sink is called.
StartExecution(p) ==
    /\ pc[p] = "Prepared" /\ HeadUnchanged(p)
    /\ EffectExecutionStarted(target[p], intent[target[p]].effect)
    /\ Enter(p, target[p], "Calling")
    /\ UNCHANGED <<lease, obs, worldVars, stops>>

\* External: the effect takes place during the call.
SinkApplies(p) ==
    /\ pc[p] = "Calling"
    /\ applied' = [applied EXCEPT ![target[p]] = @ + 1]
    /\ pc' = [pc EXCEPT ![p] = "Landed"]
    /\ UNCHANGED <<vars, lease, view, target, obs, orphan, stops>>

\* External: the call returns.  Success is reported only for an effect that took
\* place and failure only for one that did not; Unknown promises nothing, and
\* without a queryable sink the request may still be under way.
SinkReturns(p, o) ==
    /\ pc[p] \in {"Calling", "Landed"}
    /\ o \in {"Succeeded", "SucceededWithOutput"} => pc[p] = "Landed"
    /\ o = "Failed" => pc[p] = "Calling"
    /\ pc' = [pc EXCEPT ![p] = "Returned"]
    /\ obs' = [obs EXCEPT ![p] = o]
    /\ orphan' = IF o = "Unknown" /\ pc[p] = "Calling" /\ ~SupportsQuery(target[p])
                 THEN [orphan EXCEPT ![target[p]] = TRUE] ELSE orphan
    /\ UNCHANGED <<vars, lease, view, target, applied, stops>>

\* External: a call nobody waits for takes effect.
OrphanLands(s) ==
    /\ orphan[s]
    /\ applied' = [applied EXCEPT ![s] = @ + 1]
    /\ orphan' = [orphan EXCEPT ![s] = FALSE]
    /\ UNCHANGED <<vars, lease, procVars, stops>>

\* Slip: without an output to wait for, a lost answer counts as success.
ClassifiedHopefully(s, o) ==
    CASE o = "SucceededWithOutput" -> IF intent[s].shape.output THEN o ELSE "Unknown"
      [] o = "Unknown"             -> IF intent[s].shape.output THEN o ELSE "Succeeded"
      [] OTHER                     -> o

\* classify_execution_observation: an output that is owed and missing, or
\* present and not owed, makes a success Unknown.
Classified(s, o) ==
    CASE o = "Succeeded"           -> IF intent[s].shape.output THEN "Unknown" ELSE o
      [] o = "SucceededWithOutput" -> IF intent[s].shape.output THEN o ELSE "Unknown"
      [] OTHER                     -> o

CommitOutcome(p) ==
    LET s == target[p]
        e == intent[s].effect
        o == Classified(s, obs[p])
    IN  /\ pc[p] = "Returned" /\ HeadUnchanged(p)
        /\ \/ o = "Succeeded" /\ EffectSucceeded(s, e, FALSE)
           \/ o = "SucceededWithOutput" /\ EffectSucceeded(s, e, TRUE)
           \/ o = "Failed" /\ EffectFailed(s, e)
           \/ o = "Unknown" /\ EffectBecameUnknown(s, e)
        /\ Leave(p, "Ready")
        /\ UNCHANGED <<lease, worldVars, stops>>

-----------------------------------------------------------------------------
(* Recovery and verification *)

\* Slip: only an execution that can be reconciled is recovered.
MarkRecoveredQueryable(p, s) ==
    /\ Drives(p, s)
    /\ EffectBecameUnknown(s, intent[s].effect) /\ SupportsQuery(s)
    /\ UNCHANGED <<lease, procVars, worldVars, stops>>

\* An execution found at entry is never run again.
MarkRecoveredExecutionUnknown(p, s) ==
    /\ Drives(p, s)
    /\ EffectBecameUnknown(s, intent[s].effect)
    /\ UNCHANGED <<lease, procVars, worldVars, stops>>

GiveUp(p, s) ==
    /\ status[s] \in {"EffectUnknown", "Reconciling"} /\ ~SupportsQuery(s)
    /\ Drives(p, s) /\ ~Refused(p, s)
    /\ ManualInterventionRequired(s, intent[s].effect)
    /\ UNCHANGED <<lease, procVars, worldVars, stops>>

BeginReconciliation(p, s) ==
    /\ status[s] = "EffectUnknown" /\ SupportsQuery(s)
    /\ Drives(p, s) /\ ~Refused(p, s)
    /\ ReconciliationStarted(s, intent[s].effect)
    /\ Enter(p, s, "Querying")
    /\ UNCHANGED <<lease, obs, worldVars, stops>>

ResumeReconciliation(p, s) ==
    /\ status[s] = "Reconciling" /\ SupportsQuery(s)
    /\ Drives(p, s) /\ ~Refused(p, s)
    /\ UNCHANGED vars
    /\ Enter(p, s, "Querying")
    /\ UNCHANGED <<lease, obs, worldVars, stops>>

\* External: the sink looks the effect up by its key and answers truthfully.
SinkAnswers(p, o) ==
    /\ pc[p] = "Querying"
    /\ o = "Applied" => applied[target[p]] > 0
    /\ o \in {"NotApplied", "Failed"} => applied[target[p]] = 0
    /\ pc' = [pc EXCEPT ![p] = "Resolved"]
    /\ obs' = [obs EXCEPT ![p] = o]
    /\ UNCHANGED <<vars, lease, view, target, worldVars, stops>>

\* The reducer will not move an effect that owes its output to Validating.
OwesOutput(s) == intent[s].shape.output

CommitResolution(p) ==
    LET s == target[p]
        e == intent[s].effect
    IN  /\ pc[p] = "Resolved" /\ HeadUnchanged(p)
        /\ \/ obs[p] # "Inconclusive" /\ ReconciliationResolved(s, e, obs[p])
           \/ obs[p] = "Inconclusive" /\ ManualInterventionRequired(s, e)
        /\ Leave(p, "Ready")
        /\ UNCHANGED <<lease, worldVars, stops>>

\* The append is refused (ToolOutputRecordRequired) and drive_step returns the
\* error; the step is left Reconciling.
ResolutionRefused(p) ==
    /\ pc[p] = "Resolved" /\ obs[p] = "Applied" /\ OwesOutput(target[p])
    /\ Leave(p, "Ready")
    /\ UNCHANGED <<vars, lease, worldVars, stops>>

\* VerificationRunner::drive_step, with whatever the verifier makes of the evidence.
VerifyStep(p, s, disposition) ==
    /\ Drives(p, s) /\ ~Refused(p, s)
    /\ VerificationRecorded(s, intent[s].effect, disposition)
    /\ UNCHANGED <<lease, procVars, worldVars, stops>>

-----------------------------------------------------------------------------

\* What a process that holds the lease does by itself, the sink's answers
\* included; approval, seeding and loss of material are left to the environment.
DriveNext(p) ==
    \/ StartExecution(p) \/ CommitOutcome(p) \/ CommitResolution(p) \/ ResolutionRefused(p)
    \/ \E o \in {"Succeeded", "SucceededWithOutput", "Failed", "Unknown"} : SinkReturns(p, o)
    \/ \E o \in {"Applied", "NotApplied", "Failed", "Inconclusive"} : SinkAnswers(p, o)
    \/ \E s \in Steps :
        \/ Refuse(p, s) \/ PrepareEffect(p, s) \/ MarkRecoveredExecutionUnknown(p, s) \/ GiveUp(p, s)
        \/ BeginReconciliation(p, s) \/ ResumeReconciliation(p, s)
        \/ \E disposition \in {"Passed", "Failed", "Inconclusive"} : VerifyStep(p, s, disposition)

Intents == [effect: Effects, action: Actions, shape: IntentShapes]

RNext ==
    \/ \E p \in Procs :
        \/ Acquire(p) \/ Stop(p) \/ StoreFails(p) \/ SinkApplies(p) \/ DriveNext(p)
        \/ ConfigureLoop(p)
        \/ \E i \in Intents : AuthorizeAndCommit(p, i)
        \/ \E s \in Steps :
            \/ PrepareAdmission(p, s) \/ MarkMaterialUnavailable(p, s)
            \/ \E deps \in SUBSET Steps : PlanStep(p, s, deps)
    \/ \E s \in Steps : OrphanLands(s)

\* Someone resumes a run whose lease is free, the holder keeps driving and the
\* sink answers every call: the driver loops until it pauses, and every adapter
\* call is bounded.  Approvals and late effects are not owed.
RFairness ==
    /\ WF_rvars(\E p \in Procs : Acquire(p))
    /\ WF_rvars(\E p \in Procs : DriveNext(p))

RSpec == RInit /\ [][RNext]_rvars
RFairSpec == RSpec /\ RFairness

-----------------------------------------------------------------------------
(* Properties *)

\* Whatever stops where, the effect of a step takes place at most once, even
\* though an execution may be started again after reconciliation.
AtMostOnce == \A s \in Steps : applied[s] + (IF orphan[s] THEN 1 ELSE 0) <= 1

\* The runtime implements the effect contract: the world sees an effect at most
\* once, Completed only after it, and nothing once Completed or Failed.
Verdict(s) ==
    CASE status[s] = "Completed"      -> "Completed"
      [] status[s] = "Failed"         -> "Failed"
      [] status[s] = "ManualRequired" -> "Manual"
      [] OTHER                        -> "Open"

Contract == INSTANCE EffectContract WITH
    world <- applied, verdict <- [s \in Steps |-> Verdict(s)]

\* As a property of the runtime's behaviours (see EffectContract).
ImplementsContract == Contract!Spec

\* The process at the wheel refuses what it should do next; or a step owes an
\* output that its query, which can only prove it applied, cannot supply, and
\* drive_step returns an error every time.
Parked ==
    \/ \E p \in Procs, s \in Steps : Drives(p, s) /\ Refused(p, s)
    \/ \E s \in Steps :
        /\ status[s] = "Reconciling" /\ OwesOutput(s) /\ applied[s] > 0
        /\ s \in NextActions(Known, dependsOn, status, receipt)

\* From every moment at which a committed intent is open, through any number of
\* crashes, it is settled in the end, or the run is found parked: a run that is
\* never refused again settles it.
IntentSettles ==
    \A s \in Steps :
        status[s] \notin {"Absent", "Planned"} ~> (status[s] \in Terminal \/ Parked)

\* docs/adr/0027-non-idempotent-durable-tool-output.md:82 says of an effect that
\* reconciliation proves applied without its output that the result stays closed
\* as Unknown or manual.
OwedOutputClosed ==
    \A s \in Steps : \A p \in Procs :
        (pc[p] = "Resolved" /\ target[p] = s /\ obs[p] = "Applied" /\ OwesOutput(s))
            ~> (status[s] \in {"EffectUnknown", "ManualRequired"})
=============================================================================
