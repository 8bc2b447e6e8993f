----------------------------- MODULE StoreIndex -----------------------------
(***************************************************************************)
(* What the run store (xgeny-local-store) keeps for one run: the journal,  *)
(* its projection and the sidecar tables; the cold audit that checks them  *)
(* against each other and builds the verified index; and apply_committed,  *)
(* which advances that index by one record without looking back.           *)
(*                                                                         *)
(* A journal is a sequence of events [kind, steps, flag].  A step has at   *)
(* most one intent, so its effect goes by the step's name.  The flag is an *)
(* intent's tool-output profile, a success's output record, a completion's *)
(* output record, or a passed verification.                                *)
(***************************************************************************)
EXTENDS Naturals, FiniteSets, Sequences, SequencesExt

CONSTANTS
    Steps,
    None

Tables ==
    {"effect_intents", "authorization_consumption", "planned_invocations",
     "invocation_materials", "tool_outputs", "completion_outputs", "execution_receipts"}

Planning == {"StepPlanned", "PlanAccepted"}

\* Positions in journal j of the records of one kind; those about step s.
Of(j, kind) == {n \in 1..Len(j) : j[n].kind = kind}
About(j, kind, s) == {n \in Of(j, kind) : s \in Range(j[n].steps)}

Latest(positions) == IF positions = {} THEN 0 ELSE Max(positions)

-----------------------------------------------------------------------------
(* The reducer, as far as the store depends on it: the records of one step    *)
(* come in the order of its lifecycle.  WorkGraph has the whole reducer.      *)

Follows ==
    [Absent                 |-> Planning,
     StepPlanned            |-> {"EffectIntentCommitted"},
     PlanAccepted           |-> {"EffectIntentCommitted"},
     EffectIntentCommitted  |-> {"EffectExecutionStarted"},
     EffectExecutionStarted |-> {"EffectSucceeded", "EffectBecameUnknown"},
     EffectBecameUnknown    |-> {"ReconciliationStarted"},
     ReconciliationStarted  |-> {"ProvedNotApplied"},
     ProvedNotApplied       |-> {"EffectExecutionStarted"},
     EffectSucceeded        |-> {"VerificationRecorded", "VerificationPassed"},
     VerificationRecorded   |-> {},
     VerificationPassed     |-> {}]

LastKind(j, s) ==
    LET n == Latest({m \in 1..Len(j) : s \in Range(j[m].steps)})
    IN  IF n = 0 THEN "Absent" ELSE j[n].kind

OwesOutput(j, s) == \E n \in About(j, "EffectIntentCommitted", s) : j[n].flag
ReceiptPassed(j, s) == \E n \in About(j, "VerificationRecorded", s) : j[n].flag

Accepts(j, e) ==
    /\ (e.kind = "RunCreated") = (j = <<>>)
    /\ Of(j, "CompletionCandidateRecorded") = {}
    /\ \A s \in Range(e.steps) : e.kind \in Follows[LastKind(j, s)]
    /\ e.kind = "EffectSucceeded" => e.flag = OwesOutput(j, e.steps[1])
    /\ e.kind = "CompletionCandidateRecorded" =>
        /\ \E s \in Steps : ReceiptPassed(j, s)
        /\ \A s \in Steps : LastKind(j, s) # "Absent" => ReceiptPassed(j, s)

Replays(j) == \A n \in 1..Len(j) : Accepts(SubSeq(j, 1, n - 1), j[n])

-----------------------------------------------------------------------------
(* Rows *)

Row(s, n, prev) == [step |-> s, seq |-> n, prev |-> prev]

\* The rows record n, event e, puts into table t; prev is the receipt that the
\* new receipt chains to.
RowsOf(e, n, prev, t) ==
    CASE t \in {"effect_intents", "authorization_consumption", "invocation_materials"} ->
            IF e.kind = "EffectIntentCommitted" THEN {Row(e.steps[1], n, 0)} ELSE {}
      [] t = "planned_invocations" ->
            IF e.kind = "PlanAccepted" THEN {Row(s, n, 0) : s \in Range(e.steps)} ELSE {}
      [] t = "tool_outputs" ->
            IF e.kind = "EffectSucceeded" /\ e.flag THEN {Row(e.steps[1], n, 0)} ELSE {}
      [] t = "completion_outputs" ->
            IF e.kind = "CompletionCandidateRecorded" /\ e.flag THEN {Row(None, n, 0)} ELSE {}
      [] t = "execution_receipts" ->
            IF e.kind = "VerificationRecorded" THEN {Row(e.steps[1], n, prev)} ELSE {}

\* verify_commit_sidecars: the sidecars handed in with an event are exactly those
\* it calls for.  A legacy verification or a completion without its output may
\* stand in an old journal, but is not appended any more.
PlanInputBundle(e, given) == ("planned_invocations" \in given) = (e.kind = "PlanAccepted")

MaterialBundle(e, given) ==
    ("invocation_materials" \in given) = (e.kind = "EffectIntentCommitted")

ReceiptBundle(e, given) ==
    /\ ("execution_receipts" \in given) = (e.kind = "VerificationRecorded")
    /\ e.kind # "VerificationPassed"

ToolOutputBundle(e, given) ==
    ("tool_outputs" \in given) = (e.kind = "EffectSucceeded" /\ e.flag)

CompletionOutputBundle(e, given) ==
    /\ ("completion_outputs" \in given) = (e.kind = "CompletionCandidateRecorded")
    /\ e.kind = "CompletionCandidateRecorded" => e.flag

Appendable(e, given) ==
    /\ PlanInputBundle(e, given) /\ MaterialBundle(e, given) /\ ReceiptBundle(e, given)
    /\ ToolOutputBundle(e, given) /\ CompletionOutputBundle(e, given)

PreviousReceipt(j, n) == Latest({m \in Of(j, "VerificationRecorded") : m < n})

\* The rows the journal calls for: what the audit compares each table with.
Expected(j, t) == UNION {RowsOf(j[n], n, PreviousReceipt(j, n), t) : n \in 1..Len(j)}

Database(j) ==
    [version |-> 8, tables |-> Tables,
     events |-> j, projection |-> Len(j), rows |-> [t \in Tables |-> Expected(j, t)]]

-----------------------------------------------------------------------------
(* The cold audit: load_verified_store_data *)

StepsIn(d, t) == {r.step : r \in d.rows[t]}

\* verified_snapshot: the projection is the replay of the whole journal.
ProjectionOk(d) == d.projection = Len(d.events) /\ Replays(d.events)

\* A row refers to its event, and what belongs to an effect to its intent.
ForeignKeysOk(d) ==
    /\ \A t \in Tables : \A r \in d.rows[t] : r.seq \in 1..Len(d.events)
    /\ \A t \in {"authorization_consumption", "invocation_materials", "tool_outputs",
                "execution_receipts"} : StepsIn(d, t) \subseteq StepsIn(d, "effect_intents")

\* Every anchor of the journal has its row, and there are no more rows than that.
Matches(d, t) ==
    LET expected == Expected(d.events, t)
    IN  expected \subseteq d.rows[t] /\ Cardinality(d.rows[t]) = Cardinality(expected)

EffectIntentsOk(d) == Matches(d, "effect_intents")
AuthorizationsOk(d) == Matches(d, "authorization_consumption")
PlanInputsOk(d) == Matches(d, "planned_invocations")
MaterialsOk(d) == Matches(d, "invocation_materials")
ToolOutputsOk(d) == Matches(d, "tool_outputs")
CompletionOutputOk(d) == Matches(d, "completion_outputs")

\* The receipts in journal order: each at its event, chained to the one before,
\* and with an output if and only if the intent has an output profile.
ReceiptsOk(d) ==
    /\ Matches(d, "execution_receipts")
    /\ \A n \in Of(d.events, "VerificationRecorded") :
        LET s == d.events[n].steps[1]
        IN  OwesOutput(d.events, s) = (s \in StepsIn(d, "tool_outputs"))

AuditOk(d) ==
    /\ d.tables = Tables
    /\ ProjectionOk(d) /\ ForeignKeysOk(d)
    /\ EffectIntentsOk(d) /\ AuthorizationsOk(d)
    /\ PlanInputsOk(d) /\ MaterialsOk(d)
    /\ ToolOutputsOk(d) /\ ReceiptsOk(d) /\ CompletionOutputOk(d)

Starts(j, s, before) == {n \in About(j, "EffectExecutionStarted", s) : n < before}

\* from_snapshot and the verify_*_records that complete it.
IndexOf(d) ==
    LET j == d.events
    IN  [head |-> Len(j),
         completed |->
            {s \in Steps : LastKind(j, s) = "VerificationPassed" \/ ReceiptPassed(j, s)},
         outputBound |-> {s \in Steps : \E n \in About(j, "EffectSucceeded", s) : j[n].flag},
         stepPositions |->
            UNION {{[step |-> j[n].steps[i], seq |-> n, at |-> i] : i \in 1..Len(j[n].steps)} :
                   n \in Of(j, "StepPlanned") \cup Of(j, "PlanAccepted")},
         intents |-> UNION {{[step |-> j[n].steps[1], output |-> j[n].flag]} :
                            n \in Of(j, "EffectIntentCommitted")},
         effectStarts |->
            [s \in Steps |-> [seq |-> Latest(Starts(j, s, Len(j) + 1)),
                              attempt |-> Cardinality(Starts(j, s, Len(j) + 1))]],
         receiptEvents |->
            {[step |-> j[n].steps[1], seq |-> n, passed |-> j[n].flag,
              start |-> Latest(Starts(j, j[n].steps[1], n))] : n \in Of(j, "VerificationRecorded")},
         toolOutputEvents |->
            {[step |-> j[n].steps[1], seq |-> n,
              attempt |-> Cardinality(Starts(j, j[n].steps[1], n))] :
             n \in {m \in Of(j, "EffectSucceeded") : j[m].flag}},
         completionOutput |->
            Latest({n \in Of(j, "CompletionCandidateRecorded") : j[n].flag}),
         planned |-> UNION {Range(j[n].steps) : n \in Of(j, "PlanAccepted")},
         planInputs |-> StepsIn(d, "planned_invocations"),
         materials |-> StepsIn(d, "invocation_materials"),
         toolOutputs |-> StepsIn(d, "tool_outputs"),
         receipts |-> StepsIn(d, "execution_receipts"),
         receiptHead |-> Latest({r.seq : r \in d.rows["execution_receipts"]})]

-----------------------------------------------------------------------------
(* The hot path: a candidate against the index, and the index after it *)

\* What append_internal asks of each sidecar once the reducer has accepted the
\* event: no identity twice, and the anchors it needs in the index.
PlanInputsFit(ix, e) == e.kind = "PlanAccepted" => Range(e.steps) \cap ix.planInputs = {}

\* A planned step has its stored input, whose reference the material keeps; a
\* legacy step has none.
MaterialFits(ix, d, e) ==
    e.kind = "EffectIntentCommitted" =>
        /\ Range(e.steps) \cap ix.materials = {}
        /\ \A s \in Range(e.steps) :
            (s \in ix.planned) = (s \in StepsIn(d, "planned_invocations"))

ToolOutputFits(ix, e) ==
    e.kind = "EffectSucceeded" /\ e.flag =>
        \A s \in Range(e.steps) :
            /\ s \notin ix.toolOutputs
            /\ [step |-> s, output |-> TRUE] \in ix.intents
            /\ ix.effectStarts[s].seq # 0

CompletionOutputFits(ix, e) ==
    e.kind = "CompletionCandidateRecorded" => ix.completionOutput = 0

\* Slip: the receipt is not compared with the head of the chain.
ReceiptFitsAnyHead(ix, e, prev) ==
    e.kind = "VerificationRecorded" =>
        \A s \in Range(e.steps) :
            /\ s \notin ix.receipts
            /\ ix.effectStarts[s].seq # 0
            /\ [step |-> s, output |-> s \in ix.toolOutputs] \in ix.intents

\* prev is the receipt the caller chained the new one to.
ReceiptFits(ix, e, prev) ==
    e.kind = "VerificationRecorded" =>
        /\ prev = ix.receiptHead
        /\ \A s \in Range(e.steps) :
            /\ s \notin ix.receipts
            /\ ix.effectStarts[s].seq # 0
            /\ [step |-> s, output |-> s \in ix.toolOutputs] \in ix.intents

CandidateFits(ix, d, e, prev) ==
    /\ PlanInputsFit(ix, e) /\ MaterialFits(ix, d, e)
    /\ ReceiptFits(ix, e, prev)
    /\ ToolOutputFits(ix, e) /\ CompletionOutputFits(ix, e)

\* The journal anchors and sidecar identities of one more record, and the receipt
\* that the next one chains to.
Advance(ix, e, receiptHead) ==
    LET n == ix.head + 1
        named == Range(e.steps)
        For(kind, set) == IF e.kind = kind THEN set ELSE {}
        Output == IF e.flag THEN For("EffectSucceeded", named) ELSE {}
    IN  [head |-> n,
         completed |->
            ix.completed \cup (IF e.flag THEN For("VerificationRecorded", named) ELSE {}),
         outputBound |-> ix.outputBound \cup Output,
         stepPositions |-> ix.stepPositions \cup
            (IF e.kind \in Planning
             THEN {[step |-> e.steps[i], seq |-> n, at |-> i] : i \in 1..Len(e.steps)} ELSE {}),
         intents |-> ix.intents \cup For("EffectIntentCommitted",
                                         {[step |-> s, output |-> e.flag] : s \in named}),
         effectStarts |-> [s \in Steps |->
            IF s \in For("EffectExecutionStarted", named)
            THEN [seq |-> n, attempt |-> ix.effectStarts[s].attempt + 1] ELSE ix.effectStarts[s]],
         receiptEvents |-> ix.receiptEvents \cup For("VerificationRecorded",
            {[step |-> s, seq |-> n, passed |-> e.flag, start |-> ix.effectStarts[s].seq] :
             s \in named}),
         toolOutputEvents |-> ix.toolOutputEvents \cup
            {[step |-> s, seq |-> n, attempt |-> ix.effectStarts[s].attempt] : s \in Output},
         completionOutput |->
            IF e.kind = "CompletionCandidateRecorded" THEN n ELSE ix.completionOutput,
         planned |-> ix.planned \cup For("PlanAccepted", named),
         planInputs |-> ix.planInputs \cup For("PlanAccepted", named),
         materials |-> ix.materials \cup For("EffectIntentCommitted", named),
         toolOutputs |-> ix.toolOutputs \cup Output,
         receipts |-> ix.receipts \cup For("VerificationRecorded", named),
         receiptHead |-> receiptHead]

\* Slip: the receipt joins the index, but the head of the chain stays.
ApplyCommittedKeepsReceiptHead(ix, e) == Advance(ix, e, ix.receiptHead)

ApplyCommitted(ix, e) ==
    Advance(ix, e, IF e.kind = "VerificationRecorded" THEN ix.head + 1 ELSE ix.receiptHead)

-----------------------------------------------------------------------------
(* build_planning_snapshot: what the planner is shown, in which order *)

\* A finite set as a sequence, in the strict order before.
InOrder(S, before(_, _)) ==
    CHOOSE f \in [1..Cardinality(S) -> S] :
        \A i, k \in 1..Cardinality(S) : i < k => before(f[i], f[k])

StepNames(positioned) == [i \in DOMAIN positioned |-> positioned[i].step]

PlanningStepOrder(ix) ==
    StepNames(InOrder(ix.stepPositions,
        LAMBDA p, q : p.seq < q.seq \/ (p.seq = q.seq /\ p.at < q.at)))

\* Slip: outputs are shown in the order the effects succeeded.
OutputsBySuccess(ix, shown) ==
    StepNames(InOrder({o \in ix.toolOutputEvents : o.step \in shown},
        LAMBDA p, q : p.seq < q.seq))

CompletedToolOutputOrder(ix, shown) ==
    StepNames(InOrder({r \in ix.receiptEvents : r.passed /\ r.step \in shown},
        LAMBDA p, q : p.seq < q.seq))

\* None is the Corrupt error: a completed step with an output that lacks a
\* passed receipt or whose output row is missing.  The byte budget is left out.
PlanningSnapshot(ix, d) ==
    LET shown == ix.completed \cap ix.outputBound
        order == CompletedToolOutputOrder(ix, shown)
    IN  IF /\ shown \subseteq StepsIn(d, "tool_outputs") \cap ix.receipts
           /\ Range(order) = shown
           /\ Len(order) = Cardinality(shown)
        THEN [steps |-> PlanningStepOrder(ix), outputs |-> order]
        ELSE None
=============================================================================
