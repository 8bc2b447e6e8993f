----------------------------- MODULE AgentLoop -----------------------------
(***************************************************************************)
(* The bounded agent loop (xgeny-runtime, AgentLoop::tick): coordinators   *)
(* that reserve a model call in the journal, send it to a planner outside, *)
(* and commit what comes back, while the host drives the graph, seeds      *)
(* steps, discards calls in doubt, and coordinators stop at any moment.    *)
(* tick takes a lease but only compares its run id, so the model gives the *)
(* coordinators no exclusion: what keeps them apart is the head check of   *)
(* every append and the call lifecycle.                                    *)
(***************************************************************************)
EXTENDS WorkGraph

CONSTANTS
    Coordinators, \* coordinators
    MaxBreaks     \* modelling bound: coordinators that stop inside a tick

\* What the planning context shows of the run.
Context ==
    [status: [Steps -> StepStatus \cup {"Absent"}], receipt: [Steps -> BOOLEAN],
     dependsOn: [Steps -> SUBSET Steps], turns: Nat, toolCalls: Nat]

ASSUME LoopAssumption == None \notin Context /\ MaxBreaks \in Nat

VARIABLES
    tick,        \* where a coordinator's tick is
    expected,    \* the head its next append expects
    call,        \* the call it works on; 0 for none
    base,        \* the graph its context was built from
    report,      \* what it has to record about the call
    sends,       \* requests sent to the provider, by call
    doubted,     \* calls that were ever Unknown or discarded
    breaks

tickVars == <<tick, expected, call, base, report>>
lvars == <<vars, tickVars, sends, doubted, breaks>>

Calls == 1..MaxModelCalls

\* The context of the current graph.
Snapshot ==
    [status |-> status, receipt |-> receipt, dependsOn |-> dependsOn, turns |-> turns,
     toolCalls |-> ToolCalls]

\* A plan or completion to commit, a refusal to record, or a call whose outcome
\* is not known (ModelCallConflictIntent keeps the last two apart).
Reports == {"Plan", "Candidate", "Reject", "Unknown"}

LTypeOK ==
    /\ TypeOK
    /\ tick \in [Coordinators -> {"Idle", "Reserved", "Waiting", "Reporting", "Resolving"}]
    /\ expected \in [Coordinators -> Nat]
    /\ call \in [Coordinators -> Calls \cup {0}]
    /\ base \in [Coordinators -> Context \cup {None}]
    /\ report \in [Coordinators -> Reports \cup {"None"}]
    /\ sends \in [Calls -> Nat]
    /\ doubted \subseteq Calls
    /\ breaks \in Nat

LInit ==
    /\ Init
    /\ tick = [p \in Coordinators |-> "Idle"]
    /\ expected = [p \in Coordinators |-> 0]
    /\ call = [p \in Coordinators |-> 0]
    /\ base = [p \in Coordinators |-> None]
    /\ report = [p \in Coordinators |-> "None"]
    /\ sends = [c \in Calls |-> 0]
    /\ doubted = {}
    /\ breaks = 0

Frontier == Actionable(Known, dependsOn, status, receipt)

HeadHeld(p) == expected[p] = sequence

\* The tick returns, with an outcome or an error.
Return(p) ==
    /\ tick' = [tick EXCEPT ![p] = "Idle"]
    /\ expected' = [expected EXCEPT ![p] = 0]
    /\ call' = [call EXCEPT ![p] = 0]
    /\ base' = [base EXCEPT ![p] = None]
    /\ report' = [report EXCEPT ![p] = "None"]

-----------------------------------------------------------------------------
(* A tick up to the reservation.  The load and the append are one step: an    *)
(* append against a head that moved is refused and leaves nothing behind.     *)

Configure(p) ==
    /\ tick[p] = "Idle"
    /\ AgentLoopConfigured \/ ModelCallLifecycleConfigured
    /\ UNCHANGED <<tickVars, sends, doubted, breaks>>

\* terminal_quiescence is None: the graph is empty or receipt-completed.
NothingLeft == Known = {} \/ AllStepsReceiptCompleted(Known, status, receipt)

\* Only an idle frontier, with every budget open, leads to a model call.
ReserveCall(p) ==
    /\ tick[p] = "Idle"
    /\ Frontier = {} /\ NothingLeft
    /\ Cardinality(Known) >= MaxPlannedSteps => AllStepsReceiptCompleted(Known, status, receipt)
    /\ ModelCallReserved([index |-> reservedCalls + 1, turn |-> turns + 1, base |-> sequence])
    /\ tick' = [tick EXCEPT ![p] = "Reserved"]
    /\ expected' = [expected EXCEPT ![p] = sequence']
    /\ call' = [call EXCEPT ![p] = reservedCalls + 1]
    /\ base' = [base EXCEPT ![p] = Snapshot]
    /\ UNCHANGED <<report, sends, doubted, breaks>>

\* Slip: the interrupted call is sent again under its old reservation.
FindReservedCallResends(p) ==
    /\ tick[p] = "Idle"
    /\ agentLoop /\ lifecycle /\ Frontier = {}
    /\ activeCall # None /\ activeCall.status = "Reserved"
    /\ tick' = [tick EXCEPT ![p] = "Reserved"]
    /\ expected' = [expected EXCEPT ![p] = sequence]
    /\ call' = [call EXCEPT ![p] = activeCall.index]
    /\ base' = [base EXCEPT ![p] = Snapshot]
    /\ UNCHANGED <<vars, report, sends, doubted, breaks>>

\* Slip: the call budget is looked at before the open call.
FindReservedCallInBudget(p) ==
    /\ tick[p] = "Idle"
    /\ agentLoop /\ lifecycle /\ Frontier = {}
    /\ reservedCalls < MaxModelCalls
    /\ activeCall # None /\ activeCall.status = "Reserved"
    /\ tick' = [tick EXCEPT ![p] = "Reporting"]
    /\ expected' = [expected EXCEPT ![p] = sequence]
    /\ call' = [call EXCEPT ![p] = activeCall.index]
    /\ report' = [report EXCEPT ![p] = "Unknown"]
    /\ UNCHANGED <<vars, base, sends, doubted, breaks>>

\* A tick that finds a reservation nobody answers reports it Interrupted.
FindReservedCall(p) ==
    /\ tick[p] = "Idle"
    /\ agentLoop /\ lifecycle /\ Frontier = {}
    /\ activeCall # None /\ activeCall.status = "Reserved"
    /\ tick' = [tick EXCEPT ![p] = "Reporting"]
    /\ expected' = [expected EXCEPT ![p] = sequence]
    /\ call' = [call EXCEPT ![p] = activeCall.index]
    /\ report' = [report EXCEPT ![p] = "Unknown"]
    /\ UNCHANGED <<vars, base, sends, doubted, breaks>>

-----------------------------------------------------------------------------
(* The provider call *)

\* planner.plan: the request leaves the process after the reservation is durable.
Send(p) ==
    /\ tick[p] = "Reserved"
    /\ tick' = [tick EXCEPT ![p] = "Waiting"]
    /\ sends' = [sends EXCEPT ![call[p]] = @ + 1]
    /\ UNCHANGED <<vars, expected, call, base, report, doubted, breaks>>

BaseSteps(p) == {s \in Steps : base[p].status[s] # "Absent"}

\* handle_proposal against the base state: a plan needs an open tool budget and
\* room for steps, a completion a receipt-completed graph; any other proposal
\* is rejected.
Answer(p, r) ==
    /\ tick[p] = "Waiting"
    /\ r = "Plan" => /\ base[p].toolCalls < MaxToolCalls
                     /\ Cardinality(BaseSteps(p)) < MaxPlannedSteps
                     /\ BaseSteps(p) # Steps
    /\ r = "Candidate" =>
        AllStepsReceiptCompleted(BaseSteps(p), base[p].status, base[p].receipt)
    /\ tick' = [tick EXCEPT ![p] = "Reporting"]
    /\ report' = [report EXCEPT ![p] = r]
    /\ UNCHANGED <<vars, expected, call, base, sends, doubted, breaks>>

\* record_planner_failure: Timeout and Unavailable leave the outcome unknown,
\* every other failure of the planner is a refusal.
PlannerFails(p, r) ==
    /\ tick[p] = "Waiting"
    /\ tick' = [tick EXCEPT ![p] = "Reporting"]
    /\ report' = [report EXCEPT ![p] = r]
    /\ UNCHANGED <<vars, expected, call, base, sends, doubted, breaks>>

-----------------------------------------------------------------------------
(* Recording the outcome *)

DecisionOf(p) == [call |-> call[p], turn |-> base[p].turns + 1, context |-> expected[p] - 1]

Report(p) ==
    /\ tick[p] = "Reporting" /\ HeadHeld(p)
    /\ \/ report[p] = "Plan" /\ PlanAccepted(DecisionOf(p)) /\ UNCHANGED doubted
       \/ report[p] = "Candidate" /\ CompletionCandidateRecorded(DecisionOf(p)) /\ UNCHANGED doubted
       \/ report[p] = "Reject" /\ ModelCallRejected(call[p], FALSE) /\ UNCHANGED doubted
       \/ /\ report[p] = "Unknown" /\ ModelCallBecameUnknown(call[p])
          /\ doubted' = doubted \cup {call[p]}
    /\ Return(p)
    /\ UNCHANGED <<sends, breaks>>

\* HeadConflict: reload, and go on only if the call is still this one and open.
Conflict(p) ==
    /\ tick[p] = "Reporting" /\ ~HeadHeld(p)
    /\ IF Active(call[p]) /\ activeCall.status = "Reserved"
       THEN /\ tick' = [tick EXCEPT ![p] = "Resolving"]
            /\ expected' = [expected EXCEPT ![p] = sequence]
            /\ UNCHANGED <<call, base, report>>
       ELSE Return(p)
    /\ UNCHANGED <<vars, sends, doubted, breaks>>

\* resolve_model_call_conflict: whatever was proposed for the old head is stale.
ResolveConflict(p) ==
    /\ tick[p] = "Resolving" /\ HeadHeld(p)
    /\ IF report[p] = "Unknown"
       THEN ModelCallBecameUnknown(call[p]) /\ doubted' = doubted \cup {call[p]}
       ELSE ModelCallRejected(call[p], TRUE) /\ UNCHANGED doubted
    /\ Return(p)
    /\ UNCHANGED <<sends, breaks>>

\* A second conflict is an error of the tick.
ResolveFails(p) ==
    /\ tick[p] = "Resolving" /\ ~HeadHeld(p)
    /\ Return(p)
    /\ UNCHANGED <<vars, sends, doubted, breaks>>

-----------------------------------------------------------------------------
(* The host *)

\* abandon_model_call: the operator discards the active call.
Abandon(p) ==
    /\ tick[p] = "Idle" /\ activeCall # None
    /\ ModelCallAbandoned(activeCall.index)
    /\ doubted' = doubted \cup {activeCall.index}
    /\ UNCHANGED <<tickVars, sends, breaks>>

\* The host performs the action a tick asked for, or seeds a step.
HostDrives ==
    /\ \/ \E s \in NextActions(Known, dependsOn, status, receipt), e \in Effects : EffectNext(s, e)
       \/ \E s \in Steps, deps \in SUBSET Steps : StepPlanned(s, deps)
    /\ UNCHANGED <<tickVars, sends, doubted, breaks>>

\* A crash inside the tick, or an error it returns: of the store, or of the
\* reducer that refuses what the proposal became.
BreakOff(p) ==
    /\ tick[p] # "Idle" /\ breaks < MaxBreaks
    /\ breaks' = breaks + 1
    /\ Return(p)
    /\ UNCHANGED <<vars, sends, doubted>>

-----------------------------------------------------------------------------

TickNext(p) ==
    \/ Send(p)
    \/ \E r \in {"Plan", "Candidate", "Reject"} : Answer(p, r)
    \/ \E r \in {"Reject", "Unknown"} : PlannerFails(p, r)
    \/ Report(p) \/ Conflict(p) \/ ResolveConflict(p) \/ ResolveFails(p)

LNext ==
    \/ \E p \in Coordinators :
        \/ Configure(p) \/ ReserveCall(p) \/ FindReservedCall(p)
        \/ TickNext(p) \/ Abandon(p) \/ BreakOff(p)
    \/ HostDrives

\* A tick under way runs to its end, planner calls being bounded by a timeout,
\* and the driver ticks again while a call is open.
LFairness == \A p \in Coordinators : WF_lvars(TickNext(p)) /\ WF_lvars(FindReservedCall(p))

LSpec == LInit /\ [][LNext]_lvars
LFairSpec == LSpec /\ LFairness

-----------------------------------------------------------------------------
(* Properties *)

\* Every provider request was paid for by a durable reservation of its own, so
\* max_model_calls bounds the requests whatever stops where: a crash between
\* the reservation and the answer never leads to a second request.
RequestsReserved ==
    \A c \in Calls : sends[c] <= 1 /\ (sends[c] > 0 => c <= reservedCalls)

\* An answer is committed only on the graph its context showed, and never for a
\* call that was once in doubt: nothing was planned, completed or accepted
\* between the reservation and the decision, by anyone.
AcceptedAnswerIsFresh ==
    [][lifecycle /\ turns' # turns =>
        \E p \in Coordinators : base[p] = Snapshot /\ call[p] \notin doubted /\ sends[call[p]] = 1]_lvars

\* A reservation is not left open: it is answered, refused or put in doubt,
\* unless work appears on the frontier, which comes first.  A call is closed
\* before the next one is reserved, so this speaks of each of them.
Open == activeCall # None /\ activeCall.status = "Reserved"
ReservationResolved == Open ~> (~Open \/ Frontier # {})
=============================================================================
