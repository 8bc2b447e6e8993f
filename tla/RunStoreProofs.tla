--------------------------- MODULE RunStoreProofs ---------------------------
(***************************************************************************)
(* Theorems about the run store, for any number of connections and steps,  *)
(* any journal that replays and any schema version to start with.          *)
(***************************************************************************)
EXTENDS RunStore, FiniteSetTheorems, SequenceTheorems, WellFoundedInduction, TLAPS

-----------------------------------------------------------------------------
(* Numbers *)

\* A nonempty set of numbers has a least one.
LEMMA LeastOf ==
  ASSUME NEW N, N \subseteq Nat, N # {}
  PROVE  \E x \in N : \A y \in N : x <= y
  <1>1. PICK x \in N : \A y \in N : ~ (<<y, x>> \in OpToRel(<, Nat))
    BY NatLessThanWellFounded, WFMin
  <1>2. \A y \in N : <<y, x>> \in Nat \X Nat
    OBVIOUS
  <1>3. \A y \in N : ~ (y < x)
    BY <1>1, <1>2 DEF OpToRel
  <1> QED
    BY <1>3

\* A nonempty set of positions has a last one, and Max is that one.
LEMMA MaxOf ==
  ASSUME NEW n \in Nat, NEW S \in SUBSET (1..n), S # {}
  PROVE  Max(S) \in S /\ \A y \in S : y <= Max(S)
  <1> DEFINE D == {n - x : x \in S}
  <1>0. \A x \in S : n - x \in Nat
    OBVIOUS
  <1>1. D \subseteq Nat /\ D # {}
    <2>1. PICK x \in S : TRUE
      OBVIOUS
    <2>2. n - x \in D
      BY <2>1
    <2> QED
      BY <1>0, <2>2
  <1>2. PICK d \in D : \A y \in D : d <= y
    <2> HIDE DEF D
    <2> QED
      BY <1>1, LeastOf
  <1>3. PICK x \in S : d = n - x
    BY <1>2
  <1>4. ASSUME NEW y \in S PROVE x >= y
    <2>1. n - y \in D
      OBVIOUS
    <2>2. n - x <= n - y
      BY <1>2, <1>3, <2>1
    <2>3. x \in Nat /\ y \in Nat
      BY <1>3
    <2> QED
      BY <2>2, <2>3
  <1>5. Max(S) \in S /\ \A y \in S : Max(S) >= y
    BY <1>3, <1>4 DEF Max
  <1> QED
    BY <1>5

\* What Latest is, for positions up to n.
LEMMA LatestOf ==
  ASSUME NEW n \in Nat, NEW S \in SUBSET (1..n)
  PROVE  /\ Latest(S) \in 0..n
         /\ Latest(S) = 0 <=> S = {}
         /\ S # {} => Latest(S) \in S /\ \A y \in S : y <= Latest(S)
  <1>1. CASE S = {}
    BY <1>1 DEF Latest
  <1>2. CASE S # {}
    <2>1. Latest(S) = Max(S)
      BY <1>2 DEF Latest
    <2>2. Max(S) \in S /\ \A y \in S : y <= Max(S)
      BY <1>2, MaxOf
    <2>3. Max(S) \in 1..n
      BY <2>2
    <2> QED
      BY <1>2, <2>1, <2>2, <2>3
  <1> QED
    BY <1>1, <1>2

\* A last position is the only one.
LEMMA LatestIs ==
  ASSUME NEW n \in Nat, NEW S \in SUBSET (1..n), NEW m \in S, \A y \in S : y <= m
  PROVE  Latest(S) = m
  <1>1. Latest(S) \in S /\ m <= Latest(S) /\ Latest(S) <= m /\ Latest(S) \in Nat
    BY LatestOf
  <1> QED
    BY <1>1

-----------------------------------------------------------------------------
(* Events and journals *)

\* The kinds of event that name exactly one step.
Solo == Plain \cup Flagged

\* The steps an event names, by its kind.
LEMMA EventShape ==
  ASSUME NEW e \in Events
  PROVE  /\ e.steps \in Seq(Steps)
         /\ e.flag \in BOOLEAN
         /\ e.kind \in Solo \cup {"RunCreated", "CompletionCandidateRecorded", "PlanAccepted"}
         /\ e.kind \in Solo =>
              e.steps[1] \in Steps /\ e.steps = <<e.steps[1]>> /\ Range(e.steps) = {e.steps[1]}
         /\ e.kind \in {"RunCreated", "CompletionCandidateRecorded"} =>
              e.steps = <<>> /\ Range(e.steps) = {}
  <1>1. CASE e.kind \in {"RunCreated", "CompletionCandidateRecorded"}
    <2>1. e.steps = <<>> /\ e.flag \in BOOLEAN /\ e.kind \notin Solo
      BY <1>1 DEF Events, Solo, Plain, Flagged
    <2>2. Range(<<>>) = {}
      BY DEF Range
    <2> QED
      BY <1>1, <2>1, <2>2
  <1>2. CASE e.kind \in Solo
    <2>1. e.steps \in Alone /\ e.flag \in BOOLEAN
          /\ e.kind \notin {"RunCreated", "CompletionCandidateRecorded", "PlanAccepted"}
      BY <1>2 DEF Events, Solo, Plain, Flagged
    <2>2. PICK s \in Steps : e.steps = <<s>>
      BY <2>1 DEF Alone
    <2>3. Range(<<s>>) = {s} /\ <<s>>[1] = s /\ <<s>> \in Seq(Steps)
      BY DEF Range
    <2> QED
      BY <1>2, <2>1, <2>2, <2>3
  <1>3. CASE e.kind = "PlanAccepted"
    <2>1. e.steps \in Batches /\ e.flag \in BOOLEAN /\ e.kind \notin Solo
      BY <1>3 DEF Events, Solo, Plain, Flagged
    <2>2. PICK m \in 0..2 : e.steps \in [1..m -> Steps]
      BY <2>1 DEF Batches, SeqOf
    <2>3. e.steps \in Seq(Steps)
      BY <2>2
    <2> QED
      BY <1>3, <2>1, <2>3
  <1>4. e.kind \in Solo \cup {"RunCreated", "CompletionCandidateRecorded", "PlanAccepted"}
    BY DEF Events, Solo
  <1> QED
    BY <1>1, <1>2, <1>3, <1>4

\* The journal before its record n.
Pre(j, n) == SubSeq(j, 1, n - 1)

\* What a prefix is.
LEMMA Prefix ==
  ASSUME NEW j \in Seq(Events), NEW n \in 1..Len(j) + 1
  PROVE  /\ Pre(j, n) \in Seq(Events)
         /\ Len(Pre(j, n)) = n - 1
         /\ \A m \in 1..n - 1 : Pre(j, n)[m] = j[m]
  BY DEF Pre

\* The positions before n of the records about step s.
Prior(j, n, s) == {m \in 1..n - 1 : s \in Range(j[m].steps)}

\* The kind of the last record about s before n.
LEMMA PriorKind ==
  ASSUME NEW j \in Seq(Events), NEW n \in 1..Len(j) + 1, NEW s
  PROVE  /\ Prior(j, n, s) = {} => LastKind(Pre(j, n), s) = "Absent"
         /\ Prior(j, n, s) # {} =>
              /\ Latest(Prior(j, n, s)) \in Prior(j, n, s)
              /\ \A m \in Prior(j, n, s) : m <= Latest(Prior(j, n, s))
              /\ LastKind(Pre(j, n), s) = j[Latest(Prior(j, n, s))].kind
  <1> DEFINE p == Pre(j, n)
  <1>1. {m \in 1..Len(p) : s \in Range(p[m].steps)} = Prior(j, n, s)
    BY Prefix DEF Prior
  <1>2. Prior(j, n, s) \subseteq 1..n - 1 /\ n - 1 \in Nat
    BY DEF Prior
  <1>3. /\ Latest(Prior(j, n, s)) = 0 <=> Prior(j, n, s) = {}
        /\ Prior(j, n, s) # {} =>
             /\ Latest(Prior(j, n, s)) \in Prior(j, n, s)
             /\ \A m \in Prior(j, n, s) : m <= Latest(Prior(j, n, s))
    BY <1>2, LatestOf
  <1>4. Latest(Prior(j, n, s)) # 0 => p[Latest(Prior(j, n, s))] = j[Latest(Prior(j, n, s))]
    BY <1>2, <1>3, Prefix
  <1>5. LastKind(p, s) =
          IF Latest(Prior(j, n, s)) = 0 THEN "Absent" ELSE p[Latest(Prior(j, n, s))].kind
    BY <1>1 DEF LastKind
  <1> QED
    BY <1>3, <1>4, <1>5

\* The kinds of event about a step, and those after its intent.
After == {"EffectExecutionStarted", "EffectBecameUnknown", "ReconciliationStarted",
          "ProvedNotApplied", "EffectSucceeded", "VerificationRecorded", "VerificationPassed"}
AboutStep == Planning \cup {"EffectIntentCommitted"} \cup After

\* Which event may follow which, the other way round.
LEMMA FollowsBack ==
  ASSUME NEW k \in AboutStep \cup {"Absent"}, NEW m \in Follows[k]
  PROVE  /\ m \in AboutStep
         /\ m \in Planning <=> k = "Absent"
         /\ m = "EffectIntentCommitted" <=> k \in Planning
         /\ m \in After <=> k \in After \cup {"EffectIntentCommitted"}
         /\ m \in {"VerificationRecorded", "VerificationPassed"} <=> k = "EffectSucceeded"
         /\ k \notin {"VerificationRecorded", "VerificationPassed"}
  BY DEF Follows, AboutStep, After, Planning

\* A record about a step has one of those kinds.
LEMMA AboutKind ==
  ASSUME NEW e \in Events, NEW s \in Range(e.steps)
  PROVE  e.kind \in AboutStep /\ s \in Steps
  <1>1. e.kind \notin {"RunCreated", "CompletionCandidateRecorded"}
    BY EventShape
  <1>2. e.kind \in AboutStep
    BY <1>1, EventShape DEF AboutStep, After, Planning, Solo, Plain, Flagged
  <1>3. s \in Steps
    BY EventShape DEF Range
  <1> QED
    BY <1>2, <1>3

\* Every record about a step follows the one before it, or plans the step.
LEMMA StepOrder ==
  ASSUME NEW j \in Seq(Events), Replays(j), NEW n \in 1..Len(j), NEW s \in Range(j[n].steps)
  PROVE  /\ j[n].kind \in AboutStep
         /\ j[n].kind \in Planning <=> Prior(j, n, s) = {}
         /\ Prior(j, n, s) # {} =>
              /\ Latest(Prior(j, n, s)) \in Prior(j, n, s)
              /\ \A m \in Prior(j, n, s) : m <= Latest(Prior(j, n, s))
              /\ j[Latest(Prior(j, n, s))].kind \in AboutStep
              /\ j[n].kind \in Follows[j[Latest(Prior(j, n, s))].kind]
  <1> DEFINE m == Latest(Prior(j, n, s))
  <1>1. j[n] \in Events /\ j[n].kind \in AboutStep
    BY AboutKind
  <1>2. j[n].kind \in Follows[LastKind(Pre(j, n), s)]
    BY DEF Replays, Accepts, Pre
  <1>3. n \in 1..Len(j) + 1
    OBVIOUS
  <1>4. CASE Prior(j, n, s) = {}
    <2>1. j[n].kind \in Follows["Absent"]
      BY <1>2, <1>3, <1>4, PriorKind
    <2> QED
      BY <1>1, <1>4, <2>1 DEF Follows
  <1>5. CASE Prior(j, n, s) # {}
    <2>1. m \in Prior(j, n, s) /\ (\A i \in Prior(j, n, s) : i <= m)
          /\ LastKind(Pre(j, n), s) = j[m].kind
      BY <1>3, <1>5, PriorKind
    <2>2. m \in 1..Len(j) /\ s \in Range(j[m].steps)
      BY <2>1 DEF Prior
    <2>3. j[m].kind \in AboutStep
      BY <2>2, AboutKind
    <2>4. j[n].kind \in Follows[j[m].kind]
      BY <1>2, <2>1
    <2>5. j[m].kind # "Absent"
      BY <2>3 DEF AboutStep, After, Planning
    <2>6. j[n].kind \notin Planning
      BY <2>3, <2>4, <2>5, FollowsBack
    <2> QED
      BY <1>1, <1>5, <2>1, <2>3, <2>4, <2>6
  <1> QED
    BY <1>4, <1>5

\* A planned step has no earlier record, so its intent is preceded by its
\* planning alone.
LEMMA IntentFirst ==
  ASSUME NEW j \in Seq(Events), Replays(j), NEW n \in 1..Len(j), NEW s \in Range(j[n].steps),
         j[n].kind = "EffectIntentCommitted", NEW m \in Prior(j, n, s)
  PROVE  j[m].kind \in Planning
  <1> DEFINE p == Latest(Prior(j, n, s))
  <1>1. /\ p \in Prior(j, n, s) /\ m <= p
        /\ j[p].kind \in AboutStep /\ j[n].kind \in Follows[j[p].kind]
    BY StepOrder
  <1>2. j[p].kind \in Planning
    BY <1>1, FollowsBack
  <1>3. p \in 1..Len(j) /\ s \in Range(j[p].steps) /\ m \in 1..Len(j) /\ s \in Range(j[m].steps)
    BY <1>1 DEF Prior
  <1>4. Prior(j, p, s) = {}
    BY <1>2, <1>3, StepOrder
  <1>5. m = p
    <2>1. m < p => m \in Prior(j, p, s)
      BY <1>3 DEF Prior
    <2> QED
      BY <1>1, <1>3, <1>4, <2>1
  <1> QED
    BY <1>2, <1>5

\* Whatever happens to an effect, its intent comes before it.
LEMMA IntentBefore ==
  ASSUME NEW j \in Seq(Events), Replays(j), NEW n \in 1..Len(j), NEW s \in Range(j[n].steps),
         j[n].kind \in After
  PROVE  \E m \in Prior(j, n, s) : j[m].kind = "EffectIntentCommitted"
  <1> DEFINE Lacks(i) == ~ \E m \in Prior(j, i, s) : j[m].kind = "EffectIntentCommitted"
             Bad == {i \in 1..Len(j) : j[i].kind \in After /\ s \in Range(j[i].steps) /\ Lacks(i)}
  <1>1. SUFFICES ASSUME Bad # {} PROVE FALSE
    OBVIOUS
  <1>2. PICK i \in Bad : \A k \in Bad : i <= k
    <2>1. Bad \subseteq Nat
      OBVIOUS
    <2> HIDE DEF Bad
    <2> QED
      BY <1>1, <2>1, LeastOf
  <1>3. i \in 1..Len(j) /\ j[i].kind \in After /\ s \in Range(j[i].steps) /\ Lacks(i)
    BY <1>2
  <1> DEFINE p == Latest(Prior(j, i, s))
  <1>4. j[i].kind \notin Planning
    BY <1>3 DEF After, Planning
  <1>5. p \in Prior(j, i, s) /\ j[p].kind \in AboutStep /\ j[i].kind \in Follows[j[p].kind]
    BY <1>3, <1>4, StepOrder
  <1>6. j[p].kind \in After \cup {"EffectIntentCommitted"}
    BY <1>3, <1>5, FollowsBack
  <1>7. j[p].kind \in After
    BY <1>3, <1>5, <1>6
  <1>8. p \in 1..Len(j) /\ p < i /\ s \in Range(j[p].steps)
    BY <1>3, <1>5 DEF Prior
  <1>9. Lacks(p)
    BY <1>3, <1>8 DEF Prior
  <1>10. p \in Bad
    BY <1>7, <1>8, <1>9
  <1> QED
    BY <1>2, <1>8, <1>10

\* A verified effect succeeded, as its last record says.
LEMMA SuccessBefore ==
  ASSUME NEW j \in Seq(Events), Replays(j), NEW n \in 1..Len(j), NEW s \in Range(j[n].steps),
         j[n].kind \in {"VerificationRecorded", "VerificationPassed"}
  PROVE  \E m \in Prior(j, n, s) : j[m].kind = "EffectSucceeded"
  <1> DEFINE p == Latest(Prior(j, n, s))
  <1>1. j[n].kind \notin Planning
    BY DEF Planning
  <1>2. p \in Prior(j, n, s) /\ j[p].kind \in AboutStep /\ j[n].kind \in Follows[j[p].kind]
    BY <1>1, StepOrder
  <1>3. j[p].kind = "EffectSucceeded"
    BY <1>2, FollowsBack
  <1> QED
    BY <1>2, <1>3

\* What a success says about an output is what its intent owes.
LEMMA SuccessOwes ==
  ASSUME NEW j \in Seq(Events), Replays(j), NEW m \in 1..Len(j), NEW s \in Range(j[m].steps),
         j[m].kind = "EffectSucceeded"
  PROVE  /\ j[m].steps[1] = s /\ s \in Steps
         /\ j[m].flag = OwesOutput(j, s)
  <1>1. j[m] \in Events /\ j[m].kind \in Solo
    BY DEF Solo, Flagged
  <1>2. j[m].steps[1] = s /\ s \in Steps
    BY <1>1, EventShape, ZenonT(40)
  <1>3. j[m].flag = OwesOutput(Pre(j, m), s)
    BY <1>2 DEF Replays, Accepts, Pre
  <1>4. m \in 1..Len(j) + 1
    OBVIOUS
  <1>5. ASSUME OwesOutput(Pre(j, m), s) PROVE OwesOutput(j, s)
    <2>1. PICK n \in 1..Len(Pre(j, m)) :
            /\ Pre(j, m)[n].kind = "EffectIntentCommitted"
            /\ s \in Range(Pre(j, m)[n].steps) /\ Pre(j, m)[n].flag
      BY <1>5 DEF OwesOutput, About, Of
    <2>2. n \in 1..Len(j) /\ Pre(j, m)[n] = j[n]
      BY <1>4, <2>1, Prefix
    <2> QED
      BY <2>1, <2>2 DEF OwesOutput, About, Of
  <1>6. ASSUME OwesOutput(j, s) PROVE OwesOutput(Pre(j, m), s)
    <2>1. PICK n \in 1..Len(j) : j[n].kind = "EffectIntentCommitted" /\ s \in Range(j[n].steps)
                                  /\ j[n].flag
      BY <1>6 DEF OwesOutput, About, Of
    <2>2. CASE n < m
      <3>1. n \in 1..m - 1 /\ n \in 1..Len(Pre(j, m)) /\ Pre(j, m)[n] = j[n]
        BY <1>4, <2>2, Prefix, SMTT(30)
      <3> QED
        BY <2>1, <3>1 DEF OwesOutput, About, Of
    <2>3. CASE n = m
      BY <2>1, <2>3
    <2>4. CASE n > m
      <3>1. m \in Prior(j, n, s)
        BY <2>4 DEF Prior
      <3>2. j[m].kind \in Planning
        BY <2>1, <3>1, IntentFirst
      <3> QED
        BY <3>2 DEF Planning
    <2> QED
      BY <2>2, <2>3, <2>4
  <1>7. OwesOutput(j, s) \in BOOLEAN /\ OwesOutput(Pre(j, m), s) \in BOOLEAN
    BY DEF OwesOutput
  <1> QED
    BY <1>2, <1>3, <1>5, <1>6, <1>7

-----------------------------------------------------------------------------
(* One record more *)

\* What a journal with one record more is.
LEMMA Appended ==
  ASSUME NEW j \in Seq(Events), NEW e \in Events
  PROVE  /\ Append(j, e) \in Seq(Events)
         /\ Len(Append(j, e)) = Len(j) + 1
         /\ \A m \in 1..Len(j) : Append(j, e)[m] = j[m]
         /\ Append(j, e)[Len(j) + 1] = e
  OBVIOUS

\* It replays if the reducer accepts the new record.
LEMMA ReplaysAppend ==
  ASSUME NEW j \in Seq(Events), Replays(j), NEW e \in Events, Accepts(j, e)
  PROVE  Replays(Append(j, e))
  <1> DEFINE k == Append(j, e)
  <1>1. SUFFICES ASSUME NEW n \in 1..Len(k) PROVE Accepts(SubSeq(k, 1, n - 1), k[n])
    BY DEF Replays
  <1>2. SubSeq(k, 1, n - 1) = SubSeq(j, 1, n - 1)
    OBVIOUS
  <1>3. CASE n = Len(j) + 1
    <2>1. SubSeq(j, 1, n - 1) = j
      BY <1>3
    <2> QED
      BY <1>2, <1>3, <2>1, Appended
  <1>4. CASE n \in 1..Len(j)
    BY <1>2, <1>4, Appended DEF Replays
  <1> QED
    BY <1>3, <1>4, Appended

\* The positions it has more.
LEMMA OfAppend ==
  ASSUME NEW j \in Seq(Events), NEW e \in Events, NEW kind, NEW s
  PROVE  /\ Of(Append(j, e), kind) = Of(j, kind) \cup (IF e.kind = kind THEN {Len(j) + 1} ELSE {})
         /\ About(Append(j, e), kind, s) = About(j, kind, s) \cup
              (IF e.kind = kind /\ s \in Range(e.steps) THEN {Len(j) + 1} ELSE {})
  BY Appended DEF Of, About

-----------------------------------------------------------------------------
(* The rows a journal calls for *)

Rows == [step : Steps \cup {None}, seq : Nat, prev : Nat]

\* The receipt before record n, as the journal tells it.
LEMMA PreviousType ==
  ASSUME NEW j \in Seq(Events), NEW n \in Nat
  PROVE  PreviousReceipt(j, n) \in Nat
  <1>1. {m \in Of(j, "VerificationRecorded") : m < n} \in SUBSET (1..Len(j)) /\ Len(j) \in Nat
    BY DEF Of
  <1>2. PreviousReceipt(j, n) \in 0..Len(j)
    BY <1>1, LatestOf DEF PreviousReceipt
  <1> QED
    BY <1>1, <1>2

\* The rows of one record, by table.
LEMMA RowsByTable ==
  ASSUME NEW e, NEW n, NEW prev
  PROVE  /\ \A t \in {"effect_intents", "authorization_consumption", "invocation_materials"} :
              RowsOf(e, n, prev, t) =
                IF e.kind = "EffectIntentCommitted" THEN {Row(e.steps[1], n, 0)} ELSE {}
         /\ RowsOf(e, n, prev, "planned_invocations") =
              IF e.kind = "PlanAccepted" THEN {Row(s, n, 0) : s \in Range(e.steps)} ELSE {}
         /\ RowsOf(e, n, prev, "tool_outputs") =
              IF e.kind = "EffectSucceeded" /\ e.flag THEN {Row(e.steps[1], n, 0)} ELSE {}
         /\ RowsOf(e, n, prev, "completion_outputs") =
              IF e.kind = "CompletionCandidateRecorded" /\ e.flag THEN {Row(None, n, 0)} ELSE {}
         /\ RowsOf(e, n, prev, "execution_receipts") =
              IF e.kind = "VerificationRecorded" THEN {Row(e.steps[1], n, prev)} ELSE {}
  BY DEF RowsOf

\* They are rows at its own position.
LEMMA RowsType ==
  ASSUME NEW e \in Events, NEW n \in Nat, NEW prev \in Nat, NEW t \in Tables
  PROVE  RowsOf(e, n, prev, t) \in SUBSET Rows /\ \A r \in RowsOf(e, n, prev, t) : r.seq = n
  <1>1. e.kind \in {"EffectIntentCommitted", "EffectSucceeded", "VerificationRecorded"} =>
          e.steps[1] \in Steps
    BY EventShape DEF Solo, Flagged
  <1>2. Range(e.steps) \subseteq Steps
    BY EventShape DEF Range
  <1>3. CASE t \in {"effect_intents", "authorization_consumption", "invocation_materials"}
    BY <1>1, <1>3, RowsByTable DEF Row, Rows
  <1>4. CASE t = "planned_invocations"
    BY <1>2, <1>4, RowsByTable DEF Row, Rows
  <1>5. CASE t = "tool_outputs"
    BY <1>1, <1>5, RowsByTable DEF Row, Rows
  <1>6. CASE t = "completion_outputs"
    BY <1>6, RowsByTable DEF Row, Rows
  <1>7. CASE t = "execution_receipts"
    BY <1>1, <1>7, RowsByTable DEF Row, Rows
  <1> QED
    BY <1>3, <1>4, <1>5, <1>6, <1>7 DEF Tables

\* The rows of a journal are those of its records.
LEMMA ExpectedRows ==
  ASSUME NEW j \in Seq(Events), NEW t \in Tables
  PROVE  /\ Expected(j, t) \in SUBSET Rows
         /\ \A r \in Expected(j, t) : \E n \in 1..Len(j) :
              r.seq = n /\ r \in RowsOf(j[n], n, PreviousReceipt(j, n), t)
         /\ \A n \in 1..Len(j) : RowsOf(j[n], n, PreviousReceipt(j, n), t) \subseteq Expected(j, t)
  <1>1. ASSUME NEW r \in Expected(j, t)
        PROVE  r \in Rows /\ \E n \in 1..Len(j) :
                 r.seq = n /\ r \in RowsOf(j[n], n, PreviousReceipt(j, n), t)
    <2>1. PICK n \in 1..Len(j) : r \in RowsOf(j[n], n, PreviousReceipt(j, n), t)
      BY <1>1 DEF Expected
    <2>2. j[n] \in Events /\ n \in Nat /\ PreviousReceipt(j, n) \in Nat
      BY PreviousType
    <2> QED
      BY <2>1, <2>2, RowsType
  <1>2. \A n \in 1..Len(j) : RowsOf(j[n], n, PreviousReceipt(j, n), t) \subseteq Expected(j, t)
    BY DEF Expected
  <1> QED
    BY <1>1, <1>2

\* One record more adds its rows.
LEMMA ExpectedAppend ==
  ASSUME NEW j \in Seq(Events), NEW e \in Events, NEW t \in Tables
  PROVE  Expected(Append(j, e), t) = Expected(j, t) \cup
           RowsOf(e, Len(j) + 1, Latest(Of(j, "VerificationRecorded")), t)
  <1> DEFINE k == Append(j, e)
             R(i, n) == RowsOf(i[n], n, PreviousReceipt(i, n), t)
             N == Len(j) + 1
  <1>1. PreviousReceipt(k, N) = Latest(Of(j, "VerificationRecorded"))
    <2>1. {m \in Of(k, "VerificationRecorded") : m < N} = Of(j, "VerificationRecorded")
      BY OfAppend DEF Of
    <2> QED
      BY <2>1 DEF PreviousReceipt
  <1>2. \A n \in 1..Len(j) : PreviousReceipt(k, n) = PreviousReceipt(j, n)
    <2>1. ASSUME NEW n \in 1..Len(j)
          PROVE  {m \in Of(k, "VerificationRecorded") : m < n}
                   = {m \in Of(j, "VerificationRecorded") : m < n}
      BY OfAppend DEF Of
    <2> QED
      BY <2>1 DEF PreviousReceipt
  <1>3. \A n \in 1..Len(j) : R(k, n) = R(j, n)
    BY <1>2, Appended
  <1>4. R(k, N) = RowsOf(e, N, Latest(Of(j, "VerificationRecorded")), t)
    BY <1>1, Appended
  <1>5. 1..Len(k) = 1..Len(j) \cup {N}
    BY Appended
  <1>6. /\ \A r : r \in Expected(k, t) <=> \E n \in 1..Len(k) : r \in R(k, n)
        /\ \A r : r \in Expected(j, t) <=> \E n \in 1..Len(j) : r \in R(j, n)
    BY DEF Expected
  <1> HIDE DEF R, N, k
  <1>7. Expected(k, t) = Expected(j, t) \cup R(k, N)
    BY <1>3, <1>5, <1>6
  <1> QED
    BY <1>4, <1>7 DEF k, N

-----------------------------------------------------------------------------
(* The audit *)

\* What the audit looks at besides the tables that exist.
DataOk(d) ==
    /\ ProjectionOk(d) /\ ForeignKeysOk(d)
    /\ EffectIntentsOk(d) /\ AuthorizationsOk(d)
    /\ PlanInputsOk(d) /\ MaterialsOk(d)
    /\ ToolOutputsOk(d) /\ ReceiptsOk(d) /\ CompletionOutputOk(d)

\* The data is what the program writes for a journal that replays.
Sound(d) ==
    /\ d.events \in Seq(Events) /\ Replays(d.events)
    /\ d.projection = Len(d.events)
    /\ d.rows = [t \in Tables |-> Expected(d.events, t)]

\* The steps that have a row in the table of intents, and in the others.
LEMMA IntentSteps ==
  ASSUME NEW j \in Seq(Events), NEW n \in 1..Len(j), j[n].kind = "EffectIntentCommitted",
         NEW s \in Range(j[n].steps)
  PROVE  \E r \in Expected(j, "effect_intents") : r.step = s
  <1>1. j[n] \in Events /\ j[n].kind \in Solo
    BY DEF Solo, Flagged
  <1>2. j[n].steps[1] = s
    BY <1>1, EventShape
  <1>3. "effect_intents" \in Tables
    BY DEF Tables
  <1>4. Row(s, n, 0) \in RowsOf(j[n], n, PreviousReceipt(j, n), "effect_intents")
    BY <1>2, RowsByTable
  <1>5. Row(s, n, 0) \in Expected(j, "effect_intents")
    BY <1>3, <1>4, ExpectedRows
  <1> QED
    BY <1>5 DEF Row

\* What belongs to an effect has its intent's row.
LEMMA EffectRowsKeyed ==
  ASSUME NEW j \in Seq(Events), Replays(j),
         NEW t \in {"authorization_consumption", "invocation_materials", "tool_outputs",
                    "execution_receipts"},
         NEW r \in Expected(j, t)
  PROVE  \E q \in Expected(j, "effect_intents") : q.step = r.step
  <1>1. t \in Tables
    BY DEF Tables
  <1>2. PICK n \in 1..Len(j) : r \in RowsOf(j[n], n, PreviousReceipt(j, n), t)
    BY <1>1, ExpectedRows
  <1>3. j[n].kind \in {"EffectIntentCommitted", "EffectSucceeded", "VerificationRecorded"}
        /\ r.step = j[n].steps[1]
    BY <1>2, RowsByTable DEF Row
  <1>4. j[n] \in Events /\ r.step \in Range(j[n].steps)
    <2>1. j[n] \in Events /\ j[n].kind \in Solo
      BY <1>3 DEF Solo, Flagged
    <2> QED
      BY <1>3, <2>1, EventShape
  <1>5. CASE j[n].kind = "EffectIntentCommitted"
    BY <1>4, <1>5, IntentSteps
  <1>6. CASE j[n].kind \in After
    <2>1. PICK m \in Prior(j, n, r.step) : j[m].kind = "EffectIntentCommitted"
      BY <1>4, <1>6, IntentBefore
    <2>2. m \in 1..Len(j) /\ r.step \in Range(j[m].steps)
      BY DEF Prior
    <2> QED
      BY <2>1, <2>2, IntentSteps
  <1> QED
    BY <1>3, <1>5, <1>6 DEF After

\* A verified step has an output row if and only if its intent owes one.
LEMMA OutputRowsOwed ==
  ASSUME NEW j \in Seq(Events), Replays(j), NEW n \in Of(j, "VerificationRecorded")
  PROVE  OwesOutput(j, j[n].steps[1])
           <=> \E r \in Expected(j, "tool_outputs") : r.step = j[n].steps[1]
  <1> DEFINE s == j[n].steps[1]
  <1>1. n \in 1..Len(j) /\ j[n].kind = "VerificationRecorded" /\ j[n] \in Events
    BY DEF Of
  <1>2. s \in Range(j[n].steps)
    BY <1>1, EventShape DEF Solo, Flagged
  <1>3. "tool_outputs" \in Tables
    BY DEF Tables
  <1>4. ASSUME OwesOutput(j, s) PROVE \E r \in Expected(j, "tool_outputs") : r.step = s
    <2>1. PICK m \in Prior(j, n, s) : j[m].kind = "EffectSucceeded"
      BY <1>1, <1>2, SuccessBefore
    <2>2. m \in 1..Len(j) /\ s \in Range(j[m].steps)
      BY <1>1 DEF Prior
    <2>3. j[m].steps[1] = s /\ j[m].flag
      BY <1>4, <2>1, <2>2, SuccessOwes
    <2>4. Row(s, m, 0) \in RowsOf(j[m], m, PreviousReceipt(j, m), "tool_outputs")
      BY <2>1, <2>3, RowsByTable
    <2>5. Row(s, m, 0) \in Expected(j, "tool_outputs")
      BY <1>3, <2>2, <2>4, ExpectedRows
    <2> QED
      BY <2>5 DEF Row
  <1>5. ASSUME NEW r \in Expected(j, "tool_outputs"), r.step = s PROVE OwesOutput(j, s)
    <2>1. PICK m \in 1..Len(j) : r \in RowsOf(j[m], m, PreviousReceipt(j, m), "tool_outputs")
      BY <1>3, <1>5, ExpectedRows
    <2>2. j[m].kind = "EffectSucceeded" /\ j[m].flag /\ j[m].steps[1] = s
      BY <1>5, <2>1, RowsByTable DEF Row
    <2>3. s \in Range(j[m].steps)
      <3>1. j[m] \in Events /\ j[m].kind \in Solo
        BY <2>2 DEF Solo, Flagged
      <3> QED
        BY <2>2, <3>1, EventShape
    <2> QED
      BY <2>2, <2>3, SuccessOwes
  <1> QED
    BY <1>4, <1>5

\* Sound data passes the audit.
LEMMA SoundAudit ==
  ASSUME NEW d, Sound(d)
  PROVE  DataOk(d)
  <1> DEFINE j == d.events
  <1>1. j \in Seq(Events) /\ Replays(j) /\ d.projection = Len(j)
        /\ \A t \in Tables : d.rows[t] = Expected(j, t)
    BY DEF Sound
  <1>2. \A t \in Tables : Matches(d, t)
    BY <1>1 DEF Matches
  <1>3. /\ ProjectionOk(d)
        /\ EffectIntentsOk(d) /\ AuthorizationsOk(d) /\ PlanInputsOk(d) /\ MaterialsOk(d)
        /\ ToolOutputsOk(d) /\ CompletionOutputOk(d)
    BY <1>1, <1>2 DEF ProjectionOk, EffectIntentsOk, AuthorizationsOk, PlanInputsOk, MaterialsOk,
                      ToolOutputsOk, CompletionOutputOk, Tables
  <1>4. ForeignKeysOk(d)
    <2>1. \A t \in Tables : \A r \in d.rows[t] : r.seq \in 1..Len(j)
      BY <1>1, ExpectedRows
    <2>2. ASSUME NEW t \in {"authorization_consumption", "invocation_materials", "tool_outputs",
                            "execution_receipts"}, NEW s \in StepsIn(d, t)
          PROVE  s \in StepsIn(d, "effect_intents")
      <3>1. t \in Tables /\ "effect_intents" \in Tables
        BY DEF Tables
      <3>2. PICK r \in Expected(j, t) : s = r.step
        BY <1>1, <2>2, <3>1 DEF StepsIn
      <3>3. \E q \in Expected(j, "effect_intents") : q.step = s
        BY <1>1, <3>2, EffectRowsKeyed
      <3> QED
        BY <1>1, <3>1, <3>3 DEF StepsIn
    <2> QED
      BY <2>1, <2>2 DEF ForeignKeysOk
  <1>5. ReceiptsOk(d)
    <2>1. Matches(d, "execution_receipts")
      BY <1>2 DEF Tables
    <2>2. d.rows["tool_outputs"] = Expected(j, "tool_outputs")
      BY <1>1 DEF Tables
    <2>3. \A s : s \in StepsIn(d, "tool_outputs")
            <=> \E r \in Expected(j, "tool_outputs") : r.step = s
      BY <2>2 DEF StepsIn
    <2>4. ASSUME NEW n \in Of(j, "VerificationRecorded")
          PROVE  OwesOutput(j, j[n].steps[1]) = (j[n].steps[1] \in StepsIn(d, "tool_outputs"))
      <3>1. OwesOutput(j, j[n].steps[1]) <=> j[n].steps[1] \in StepsIn(d, "tool_outputs")
        BY <1>1, <2>3, OutputRowsOwed
      <3>2. OwesOutput(j, j[n].steps[1]) \in BOOLEAN
        BY DEF OwesOutput
      <3> QED
        BY <3>1, <3>2
    <2> QED
      BY <2>1, <2>4 DEF ReceiptsOk
  <1> QED
    BY <1>3, <1>4, <1>5 DEF DataOk

\* Whatever a foreign connection takes away, the audit misses it.
LEMMA DamageShows ==
  ASSUME NEW d \in Databases, Sound(d), NEW b \in Damaged(d)
  PROVE  b \in Databases /\ ~DataOk(b) /\ b.version = d.version /\ b.tables = d.tables
         /\ (b.events = d.events \/ (d.events # <<>> /\ b.events = Front(d.events)))
  <1> DEFINE j == d.events
  <1>1. j \in Seq(Events) /\ Replays(j) /\ d.projection = Len(j)
        /\ \A t \in Tables : d.rows[t] = Expected(j, t)
    BY DEF Sound
  <1>2. ASSUME NEW t \in Tables, NEW r \in d.rows[t], b = [d EXCEPT !.rows[t] = @ \ {r}]
        PROVE  b \in Databases /\ ~DataOk(b) /\ b.version = d.version /\ b.tables = d.tables
               /\ b.events = d.events
    <2>1. b.events = j /\ b.rows[t] = d.rows[t] \ {r} /\ b.version = d.version
          /\ b.tables = d.tables /\ b \in Databases
      BY <1>2 DEF Databases
    <2>2. r \in Expected(b.events, t) /\ r \notin b.rows[t]
      BY <1>1, <1>2, <2>1
    <2>3. ~Matches(b, t)
      BY <2>2 DEF Matches
    <2>4. DataOk(b) => Matches(b, t)
      BY DEF DataOk, EffectIntentsOk, AuthorizationsOk, PlanInputsOk, MaterialsOk,
             ToolOutputsOk, CompletionOutputOk, ReceiptsOk, Tables
    <2> QED
      BY <2>1, <2>3, <2>4
  <1>3. ASSUME j # <<>>, b = [d EXCEPT !.events = Front(@)]
        PROVE  b \in Databases /\ ~DataOk(b) /\ b.version = d.version /\ b.tables = d.tables
               /\ b.events = Front(j)
    <2>1. Front(j) \in Seq(Events) /\ Len(Front(j)) # Len(j)
      BY <1>1, <1>3 DEF Front
    <2>2. b.events = Front(j) /\ b.projection = Len(j) /\ b.version = d.version
          /\ b.tables = d.tables /\ b \in Databases
      BY <1>1, <1>3, <2>1 DEF Databases
    <2> QED
      BY <2>1, <2>2 DEF DataOk, ProjectionOk
  <1>4. ASSUME j # <<>>, b = [d EXCEPT !.projection = @ - 1]
        PROVE  b \in Databases /\ ~DataOk(b) /\ b.version = d.version /\ b.tables = d.tables
               /\ b.events = d.events
    <2>1. Len(j) - 1 \in Nat /\ Len(j) - 1 # Len(j)
      BY <1>1, <1>4
    <2>2. b.events = j /\ b.projection = Len(j) - 1 /\ b.version = d.version
          /\ b.tables = d.tables /\ b \in Databases
      BY <1>1, <1>4, <2>1 DEF Databases
    <2> QED
      BY <2>1, <2>2 DEF DataOk, ProjectionOk
  <1> DEFINE Lost == UNION {{[d EXCEPT !.rows[t] = @ \ {r}] : r \in d.rows[t]} : t \in Tables}
             Shorter == {[d EXCEPT !.events = Front(@)], [d EXCEPT !.projection = @ - 1]}
  <1>5. CASE b \in Lost
    <2>1. PICK t \in Tables : b \in {[d EXCEPT !.rows[t] = @ \ {r}] : r \in d.rows[t]}
      BY <1>5
    <2>2. PICK r \in d.rows[t] : b = [d EXCEPT !.rows[t] = @ \ {r}]
      BY <2>1
    <2> QED
      BY <1>2, <2>2
  <1>6. CASE j # <<>> /\ b \in Shorter
    BY <1>3, <1>4, <1>6
  <1>7. Damaged(d) = Lost \cup (IF j = <<>> THEN {} ELSE Shorter)
    BY DEF Damaged
  <1> HIDE DEF Lost, Shorter
  <1>8. b \in Lost \/ (j # <<>> /\ b \in Shorter)
    BY <1>7
  <1> QED
    BY <1>5, <1>6, <1>8

-----------------------------------------------------------------------------
(* The index: advanced by one record, it is the index of the longer journal *)

\* The index a full audit builds from journal j.
Ix(j) == IndexOf(Database(j))

\* The audit of sound data builds the index of its journal.
LEMMA SoundIndex ==
  ASSUME NEW d \in Databases, Sound(d)
  PROVE  IndexOf(d) = Ix(d.events)
  <1> DEFINE Of5(v, t, j, p, r) ==
                [version |-> v, tables |-> t, events |-> j, projection |-> p, rows |-> r]
  <1>1. d = Of5(d.version, d.tables, d.events, d.projection, d.rows)
    BY DEF Databases
  <1>2. Database(d.events) = Of5(8, Tables, d.events, d.projection, d.rows)
    BY DEF Database, Sound
  <1>3. \A v, t, j, p, r, w, u : IndexOf(Of5(v, t, j, p, r)) = IndexOf(Of5(w, u, j, p, r))
    BY DEF IndexOf, StepsIn
  <1> HIDE DEF Of5
  <1> QED
    BY <1>1, <1>2, <1>3 DEF Ix

\* The last record of a step, one record later.
LEMMA LastKindAppend ==
  ASSUME NEW j \in Seq(Events), NEW e \in Events, NEW s
  PROVE  LastKind(Append(j, e), s) = IF s \in Range(e.steps) THEN e.kind ELSE LastKind(j, s)
  <1> DEFINE k == Append(j, e)
             N == Len(j) + 1
             Old == {m \in 1..Len(j) : s \in Range(j[m].steps)}
             New == {m \in 1..Len(k) : s \in Range(k[m].steps)}
  <1>1. N \in Nat /\ Len(j) \in Nat /\ Old \in SUBSET (1..Len(j)) /\ New \in SUBSET (1..N)
    BY Appended
  <1>2. CASE s \in Range(e.steps)
    <2>1. N \in New /\ \A m \in New : m <= N
      BY <1>2, Appended
    <2>2. Latest(New) = N
      <3> HIDE DEF New, N
      <3> QED
        BY <1>1, <2>1, LatestIs
    <2>3. LastKind(k, s) = IF Latest(New) = 0 THEN "Absent" ELSE k[Latest(New)].kind
      BY DEF LastKind
    <2>4. k[N] = e /\ N # 0
      BY <1>1, Appended
    <2> HIDE DEF New, N, k
    <2>5. LastKind(k, s) = e.kind
      BY <2>2, <2>3, <2>4
    <2> QED
      BY <1>2, <2>5 DEF k
  <1>3. CASE s \notin Range(e.steps)
    <2>1. New = Old
      BY <1>3, Appended
    <2>2. Latest(Old) \in 0..Len(j)
      BY <1>1, LatestOf
    <2>3. Latest(Old) # 0 => k[Latest(Old)] = j[Latest(Old)]
      BY <2>2, Appended
    <2>4. LastKind(k, s) = IF Latest(New) = 0 THEN "Absent" ELSE k[Latest(New)].kind
      BY DEF LastKind
    <2>5. LastKind(j, s) = IF Latest(Old) = 0 THEN "Absent" ELSE j[Latest(Old)].kind
      BY DEF LastKind
    <2> QED
      BY <1>3, <2>1, <2>3, <2>4, <2>5
  <1> QED
    BY <1>2, <1>3

\* A passed receipt more.
LEMMA ReceiptPassedAppend ==
  ASSUME NEW j \in Seq(Events), NEW e \in Events, NEW s
  PROVE  ReceiptPassed(Append(j, e), s) <=>
           \/ ReceiptPassed(j, s)
           \/ e.kind = "VerificationRecorded" /\ e.flag /\ s \in Range(e.steps)
  <1>1. About(Append(j, e), "VerificationRecorded", s) = About(j, "VerificationRecorded", s) \cup
          (IF e.kind = "VerificationRecorded" /\ s \in Range(e.steps) THEN {Len(j) + 1} ELSE {})
    BY OfAppend
  <1>2. About(j, "VerificationRecorded", s) \subseteq 1..Len(j)
    BY DEF About, Of
  <1> QED
    BY <1>1, <1>2, Appended DEF ReceiptPassed

\* The completed steps.
LEMMA CompletedAppend ==
  ASSUME NEW j \in Seq(Events), NEW e \in Events, Accepts(j, e), e.kind # "VerificationPassed"
  PROVE  Ix(Append(j, e)).completed = Ix(j).completed \cup
           (IF e.flag THEN (IF e.kind = "VerificationRecorded" THEN Range(e.steps) ELSE {}) ELSE {})
  <1> DEFINE k == Append(j, e)
  <1>1. Ix(j).completed =
          {s \in Steps : LastKind(j, s) = "VerificationPassed" \/ ReceiptPassed(j, s)}
    BY DEF Ix, IndexOf, Database
  <1>2. Ix(k).completed =
          {s \in Steps : LastKind(k, s) = "VerificationPassed" \/ ReceiptPassed(k, s)}
    BY DEF Ix, IndexOf, Database
  <1>3. \A s \in Range(e.steps) : s \in Steps /\ LastKind(j, s) # "VerificationPassed"
    <2>1. ASSUME NEW s \in Range(e.steps), LastKind(j, s) = "VerificationPassed" PROVE FALSE
      <3>1. e.kind \in Follows["VerificationPassed"]
        BY <2>1 DEF Accepts
      <3> QED
        BY <3>1 DEF Follows
    <2> QED
      BY <2>1, AboutKind
  <1>4. \A s \in Steps : (LastKind(k, s) = "VerificationPassed" \/ ReceiptPassed(k, s)) <=>
          \/ LastKind(j, s) = "VerificationPassed" \/ ReceiptPassed(j, s)
          \/ e.kind = "VerificationRecorded" /\ e.flag /\ s \in Range(e.steps)
    BY <1>3, LastKindAppend, ReceiptPassedAppend
  <1> QED
    BY <1>1, <1>2, <1>3, <1>4

\* The steps whose success recorded an output.
LEMMA OutputBoundAppend ==
  ASSUME NEW j \in Seq(Events), NEW e \in Events
  PROVE  Ix(Append(j, e)).outputBound = Ix(j).outputBound \cup
           (IF e.flag THEN (IF e.kind = "EffectSucceeded" THEN Range(e.steps) ELSE {}) ELSE {})
  <1> DEFINE k == Append(j, e)
  <1>1. /\ Ix(j).outputBound = {s \in Steps : \E n \in About(j, "EffectSucceeded", s) : j[n].flag}
        /\ Ix(k).outputBound = {s \in Steps : \E n \in About(k, "EffectSucceeded", s) : k[n].flag}
    BY DEF Ix, IndexOf, Database
  <1>2. \A s \in Range(e.steps) : s \in Steps
    BY AboutKind
  <1>3. ASSUME NEW s \in Steps
        PROVE  (\E n \in About(k, "EffectSucceeded", s) : k[n].flag) <=>
                 \/ \E n \in About(j, "EffectSucceeded", s) : j[n].flag
                 \/ e.flag /\ e.kind = "EffectSucceeded" /\ s \in Range(e.steps)
    <2>1. About(k, "EffectSucceeded", s) = About(j, "EffectSucceeded", s) \cup
            (IF e.kind = "EffectSucceeded" /\ s \in Range(e.steps) THEN {Len(j) + 1} ELSE {})
      BY OfAppend
    <2>2. About(j, "EffectSucceeded", s) \subseteq 1..Len(j)
      BY DEF About, Of
    <2> QED
      BY <2>1, <2>2, Appended
  <1> QED
    BY <1>1, <1>2, <1>3

\* The positions of the planned steps, and where they are.
PlannedAt(j) == {n \in 1..Len(j) : j[n].kind \in Planning}
Place(j, n, i) == [step |-> j[n].steps[i], seq |-> n, at |-> i]

\* The index keeps the place of every planned step.
LEMMA PositionsAre ==
  ASSUME NEW j, NEW r
  PROVE  r \in Ix(j).stepPositions <=>
           \E n \in PlannedAt(j) : \E i \in 1..Len(j[n].steps) : r = Place(j, n, i)
  <1>1. Ix(j).stepPositions =
          UNION {{[step |-> j[n].steps[i], seq |-> n, at |-> i] : i \in 1..Len(j[n].steps)} :
                 n \in Of(j, "StepPlanned") \cup Of(j, "PlanAccepted")}
    BY DEF Ix, IndexOf, Database
  <1>2. Of(j, "StepPlanned") \cup Of(j, "PlanAccepted") = PlannedAt(j)
    BY DEF Of, PlannedAt, Planning
  <1>3. r \in Ix(j).stepPositions <=>
          \E n \in PlannedAt(j) :
            r \in {[step |-> j[n].steps[i], seq |-> n, at |-> i] : i \in 1..Len(j[n].steps)}
    BY <1>1, <1>2, Zenon
  <1> QED
    BY <1>3 DEF Place

\* One record more adds the places of its steps if it plans.
LEMMA StepPositionsAppend ==
  ASSUME NEW j \in Seq(Events), NEW e \in Events
  PROVE  Ix(Append(j, e)).stepPositions = Ix(j).stepPositions \cup
           (IF e.kind \in Planning
            THEN {[step |-> e.steps[i], seq |-> Len(j) + 1, at |-> i] : i \in 1..Len(e.steps)}
            ELSE {})
  <1> DEFINE k == Append(j, e)
             N == Len(j) + 1
             New == IF e.kind \in Planning
                    THEN {[step |-> e.steps[i], seq |-> N, at |-> i] : i \in 1..Len(e.steps)}
                    ELSE {}
  <1>1. PlannedAt(k) = PlannedAt(j) \cup (IF e.kind \in Planning THEN {N} ELSE {})
    BY Appended DEF PlannedAt
  <1>2. (\A n \in PlannedAt(j) : k[n] = j[n]) /\ k[N] = e
    BY Appended DEF PlannedAt
  <1>3. \A r : r \in New <=> e.kind \in Planning /\ \E i \in 1..Len(k[N].steps) : r = Place(k, N, i)
    BY <1>2 DEF Place
  <1>4. \A n \in PlannedAt(j) : \A i : Place(k, n, i) = Place(j, n, i)
    BY <1>2 DEF Place
  <1> HIDE DEF k, N, New
  <1>5. \A r : r \in Ix(k).stepPositions <=> r \in Ix(j).stepPositions \/ r \in New
    BY <1>1, <1>2, <1>3, <1>4, PositionsAre
  <1>6. Ix(k).stepPositions = Ix(j).stepPositions \cup New
    BY <1>5
  <1> QED
    BY <1>6 DEF k, N, New

\* The intents with what they owe.
LEMMA IntentsAppend ==
  ASSUME NEW j \in Seq(Events), NEW e \in Events
  PROVE  Ix(Append(j, e)).intents = Ix(j).intents \cup
           (IF e.kind = "EffectIntentCommitted"
            THEN {[step |-> s, output |-> e.flag] : s \in Range(e.steps)} ELSE {})
  <1> DEFINE k == Append(j, e)
             I(l) == Of(l, "EffectIntentCommitted")
             N == Len(j) + 1
  <1>1. /\ Ix(j).intents = UNION {{[step |-> j[n].steps[1], output |-> j[n].flag]} : n \in I(j)}
        /\ Ix(k).intents = UNION {{[step |-> k[n].steps[1], output |-> k[n].flag]} : n \in I(k)}
    BY ZenonT(40) DEF Ix, IndexOf, Database
  <1>2. I(k) = I(j) \cup (IF e.kind = "EffectIntentCommitted" THEN {N} ELSE {})
    BY OfAppend
  <1>3. (\A n \in I(j) : k[n] = j[n]) /\ k[N] = e
    BY Appended DEF Of
  <1>4. e.kind = "EffectIntentCommitted" => Range(e.steps) = {e.steps[1]}
    BY EventShape DEF Solo, Flagged
  <1> HIDE DEF I, N, k
  <1>5. /\ \A r : r \in Ix(j).intents
             <=> \E n \in I(j) : r = [step |-> j[n].steps[1], output |-> j[n].flag]
        /\ \A r : r \in Ix(k).intents
             <=> \E n \in I(k) : r = [step |-> k[n].steps[1], output |-> k[n].flag]
    BY <1>1
  <1>6. Ix(k).intents = Ix(j).intents \cup
          (IF e.kind = "EffectIntentCommitted"
           THEN {[step |-> s, output |-> e.flag] : s \in Range(e.steps)} ELSE {})
    <2>1. CASE e.kind = "EffectIntentCommitted"
      BY <1>2, <1>3, <1>4, <1>5, <2>1
    <2>2. CASE e.kind # "EffectIntentCommitted"
      BY <1>2, <1>3, <1>5, <2>2
    <2> QED
      BY <2>1, <2>2
  <1> QED
    BY <1>6 DEF k

\* The steps planned by an accepted plan.
LEMMA PlannedAppend ==
  ASSUME NEW j \in Seq(Events), NEW e \in Events
  PROVE  Ix(Append(j, e)).planned = Ix(j).planned \cup
           (IF e.kind = "PlanAccepted" THEN Range(e.steps) ELSE {})
  <1> DEFINE k == Append(j, e)
             I(l) == Of(l, "PlanAccepted")
             N == Len(j) + 1
  <1>1. /\ Ix(j).planned = UNION {Range(j[n].steps) : n \in I(j)}
        /\ Ix(k).planned = UNION {Range(k[n].steps) : n \in I(k)}
    BY DEF Ix, IndexOf, Database
  <1>2. I(k) = I(j) \cup (IF e.kind = "PlanAccepted" THEN {N} ELSE {})
    BY OfAppend
  <1>3. (\A n \in I(j) : k[n] = j[n]) /\ k[N] = e
    BY Appended DEF Of
  <1> HIDE DEF I, N, k
  <1>4. Ix(k).planned = Ix(j).planned \cup
           (IF e.kind = "PlanAccepted" THEN Range(e.steps) ELSE {})
    BY <1>1, <1>2, <1>3
  <1> QED
    BY <1>4 DEF k

\* The starts of a step.
LEMMA StartsAppend ==
  ASSUME NEW j \in Seq(Events), NEW e \in Events, NEW s
  PROVE  /\ Starts(j, s, Len(j) + 1) = About(j, "EffectExecutionStarted", s)
         /\ \A n \in 1..Len(j) + 1 : Starts(Append(j, e), s, n) = Starts(j, s, n)
         /\ \A n \in Nat : Starts(j, s, n) \in SUBSET (1..Len(j)) /\ IsFiniteSet(Starts(j, s, n))
  <1>1. Starts(j, s, Len(j) + 1) = About(j, "EffectExecutionStarted", s)
    BY DEF Starts, About, Of
  <1>2. ASSUME NEW n \in 1..Len(j) + 1
        PROVE  Starts(Append(j, e), s, n) = Starts(j, s, n)
    <2>1. About(Append(j, e), "EffectExecutionStarted", s) =
            About(j, "EffectExecutionStarted", s) \cup
              (IF e.kind = "EffectExecutionStarted" /\ s \in Range(e.steps)
               THEN {Len(j) + 1} ELSE {})
      BY OfAppend
    <2> QED
      BY <2>1 DEF Starts
  <1>3. ASSUME NEW n \in Nat
        PROVE  Starts(j, s, n) \in SUBSET (1..Len(j)) /\ IsFiniteSet(Starts(j, s, n))
    <2>1. Starts(j, s, n) \in SUBSET (1..Len(j))
      BY DEF Starts, About, Of
    <2> QED
      BY <2>1, FS_Interval, FS_Subset
  <1> QED
    BY <1>1, <1>2, <1>3

\* The last start and the attempt of each step.
LEMMA EffectStartsAppend ==
  ASSUME NEW j \in Seq(Events), NEW e \in Events
  PROVE  Ix(Append(j, e)).effectStarts =
           [s \in Steps |->
              IF e.kind = "EffectExecutionStarted" /\ s \in Range(e.steps)
              THEN [seq |-> Len(j) + 1, attempt |-> Ix(j).effectStarts[s].attempt + 1]
              ELSE Ix(j).effectStarts[s]]
  <1> DEFINE k == Append(j, e)
             N == Len(j) + 1
             St(l, s) == Starts(l, s, Len(l) + 1)
             Started(s) == e.kind = "EffectExecutionStarted" /\ s \in Range(e.steps)
  <1>1. /\ Ix(j).effectStarts =
             [s \in Steps |-> [seq |-> Latest(St(j, s)), attempt |-> Cardinality(St(j, s))]]
        /\ Ix(k).effectStarts =
             [s \in Steps |-> [seq |-> Latest(St(k, s)), attempt |-> Cardinality(St(k, s))]]
    BY DEF Ix, IndexOf, Database
  <1>2. ASSUME NEW s \in Steps
        PROVE  /\ Started(s) => Latest(St(k, s)) = N /\ Cardinality(St(k, s)) = Cardinality(St(j, s)) + 1
               /\ ~Started(s) => St(k, s) = St(j, s)
    <2>1. k \in Seq(Events) /\ N \in Nat /\ Len(k) = N
      BY Appended
    <2>2. St(k, s) = About(k, "EffectExecutionStarted", s)
      BY <2>1, StartsAppend
    <2>3. St(j, s) = About(j, "EffectExecutionStarted", s) /\ IsFiniteSet(St(j, s))
          /\ St(j, s) \in SUBSET (1..Len(j))
      BY StartsAppend
    <2>4. St(k, s) = St(j, s) \cup (IF Started(s) THEN {N} ELSE {})
      BY <2>2, <2>3, OfAppend
    <2> HIDE DEF St, Started
    <2>5. N \notin St(j, s)
      BY <2>3
    <2>6. ASSUME Started(s)
          PROVE  Latest(St(k, s)) = N /\ Cardinality(St(k, s)) = Cardinality(St(j, s)) + 1
      <3>1. St(k, s) = St(j, s) \cup {N}
        BY <2>4, <2>6
      <3>2. St(k, s) \in SUBSET (1..N) /\ N \in St(k, s) /\ \A m \in St(k, s) : m <= N
        BY <2>1, <2>3, <3>1
      <3>3. Latest(St(k, s)) = N
        <4> HIDE DEF N
        <4> QED
          BY <2>1, <3>2, LatestIs
      <3>4. Cardinality(St(k, s)) = Cardinality(St(j, s)) + 1
        <4> HIDE DEF N
        <4> QED
          BY <2>3, <2>5, <3>1, FS_AddElement
      <3> QED
        BY <3>3, <3>4
    <2> QED
      BY <2>4, <2>6
  <1> HIDE DEF St, Started, k, N
  <1>3. Ix(k).effectStarts =
           [s \in Steps |->
              IF Started(s) THEN [seq |-> N, attempt |-> Ix(j).effectStarts[s].attempt + 1]
              ELSE Ix(j).effectStarts[s]]
    BY <1>1, <1>2
  <1> QED
    BY <1>3 DEF k, N, Started

\* The receipts with the start they answer for.
LEMMA ReceiptEventsAppend ==
  ASSUME NEW j \in Seq(Events), NEW e \in Events
  PROVE  Ix(Append(j, e)).receiptEvents = Ix(j).receiptEvents \cup
           (IF e.kind = "VerificationRecorded"
            THEN {[step |-> s, seq |-> Len(j) + 1, passed |-> e.flag,
                   start |-> Ix(j).effectStarts[s].seq] : s \in Range(e.steps)} ELSE {})
  <1> DEFINE k == Append(j, e)
             N == Len(j) + 1
             I(l) == Of(l, "VerificationRecorded")
             Rec(l, n) == [step |-> l[n].steps[1], seq |-> n, passed |-> l[n].flag,
                           start |-> Latest(Starts(l, l[n].steps[1], n))]
             New == [step |-> e.steps[1], seq |-> N, passed |-> e.flag,
                     start |-> Ix(j).effectStarts[e.steps[1]].seq]
  <1>1. /\ Ix(j).receiptEvents = {Rec(j, n) : n \in I(j)}
        /\ Ix(k).receiptEvents = {Rec(k, n) : n \in I(k)}
    BY DEF Ix, IndexOf, Database
  <1>2. I(k) = I(j) \cup (IF e.kind = "VerificationRecorded" THEN {N} ELSE {})
    BY OfAppend
  <1>3. \A n \in I(j) : Rec(k, n) = Rec(j, n)
    <2>1. \A n \in I(j) : k[n] = j[n] /\ n \in 1..Len(j) + 1
      BY Appended DEF Of
    <2>2. \A n \in I(j) : \A s : Starts(k, s, n) = Starts(j, s, n)
      BY <2>1, StartsAppend
    <2>3. ASSUME NEW n \in I(j) PROVE Rec(k, n) = Rec(j, n)
      <3>1. k[n] = j[n]
        BY <2>1, <2>3
      <3>2. Starts(k, k[n].steps[1], n) = Starts(j, j[n].steps[1], n)
        BY <2>2, <2>3, <3>1
      <3> QED
        BY <3>1, <3>2, Zenon
    <2> HIDE DEF I, Rec
    <2> QED
      BY <2>3
  <1>4. ASSUME e.kind = "VerificationRecorded"
        PROVE  Rec(k, N) = New /\ Range(e.steps) = {e.steps[1]}
    <2>1. Range(e.steps) = {e.steps[1]} /\ e.steps[1] \in Steps
      BY <1>4, EventShape DEF Solo, Flagged
    <2>2. k[N] = e
      BY Appended
    <2>3. Starts(k, e.steps[1], N) = Starts(j, e.steps[1], N)
      <3>1. N \in 1..Len(j) + 1
        OBVIOUS
      <3> QED
        BY <3>1, StartsAppend
    <2>4. Ix(j).effectStarts[e.steps[1]].seq = Latest(Starts(j, e.steps[1], N))
      BY <2>1 DEF Ix, IndexOf, Database
    <2> QED
      BY <2>1, <2>2, <2>3, <2>4
  <1>5. e.kind = "VerificationRecorded" =>
          {[step |-> s, seq |-> N, passed |-> e.flag, start |-> Ix(j).effectStarts[s].seq] :
             s \in Range(e.steps)} = {New}
    BY <1>4
  <1> HIDE DEF I, N, k, Rec, New
  <1>6. Ix(k).receiptEvents = Ix(j).receiptEvents \cup
          (IF e.kind = "VerificationRecorded" THEN {New} ELSE {})
    BY <1>1, <1>2, <1>3, <1>4
  <1> QED
    BY <1>5, <1>6 DEF k, N

\* The outputs with the attempt that made them.
LEMMA ToolOutputEventsAppend ==
  ASSUME NEW j \in Seq(Events), NEW e \in Events
  PROVE  Ix(Append(j, e)).toolOutputEvents = Ix(j).toolOutputEvents \cup
           {[step |-> s, seq |-> Len(j) + 1, attempt |-> Ix(j).effectStarts[s].attempt] :
            s \in IF e.flag THEN (IF e.kind = "EffectSucceeded" THEN Range(e.steps) ELSE {}) ELSE {}}
  <1> DEFINE k == Append(j, e)
             N == Len(j) + 1
             I(l) == {m \in Of(l, "EffectSucceeded") : l[m].flag}
             Rec(l, n) == [step |-> l[n].steps[1], seq |-> n,
                           attempt |-> Cardinality(Starts(l, l[n].steps[1], n))]
             Has == e.kind = "EffectSucceeded" /\ e.flag
             New == [step |-> e.steps[1], seq |-> N, attempt |-> Ix(j).effectStarts[e.steps[1]].attempt]
             Added == IF e.flag THEN (IF e.kind = "EffectSucceeded" THEN Range(e.steps) ELSE {}) ELSE {}
  <1>1. /\ Ix(j).toolOutputEvents = {Rec(j, n) : n \in I(j)}
        /\ Ix(k).toolOutputEvents = {Rec(k, n) : n \in I(k)}
    BY DEF Ix, IndexOf, Database
  <1>2. I(k) = I(j) \cup (IF Has THEN {N} ELSE {})
    <2>1. Of(k, "EffectSucceeded") = Of(j, "EffectSucceeded") \cup
            (IF e.kind = "EffectSucceeded" THEN {N} ELSE {})
      BY OfAppend
    <2>2. (\A n \in Of(j, "EffectSucceeded") : k[n] = j[n]) /\ k[N] = e
      BY Appended DEF Of
    <2> QED
      BY <2>1, <2>2
  <1>3. \A n \in I(j) : Rec(k, n) = Rec(j, n)
    <2>1. \A n \in I(j) : k[n] = j[n] /\ n \in 1..Len(j) + 1
      BY Appended DEF Of
    <2>2. \A n \in I(j) : \A s : Starts(k, s, n) = Starts(j, s, n)
      BY <2>1, StartsAppend
    <2>3. ASSUME NEW n \in I(j) PROVE Rec(k, n) = Rec(j, n)
      <3>1. k[n] = j[n]
        BY <2>1, <2>3
      <3>2. Starts(k, k[n].steps[1], n) = Starts(j, j[n].steps[1], n)
        BY <2>2, <2>3, <3>1
      <3> QED
        BY <3>1, <3>2, Zenon
    <2> HIDE DEF I, Rec
    <2> QED
      BY <2>3
  <1>4. ASSUME Has
        PROVE  Rec(k, N) = New /\ Added = {e.steps[1]}
    <2>1. Range(e.steps) = {e.steps[1]} /\ e.steps[1] \in Steps
      BY <1>4, EventShape DEF Solo, Flagged
    <2>2. k[N] = e
      BY Appended
    <2>3. Starts(k, e.steps[1], N) = Starts(j, e.steps[1], N)
      <3>1. N \in 1..Len(j) + 1
        OBVIOUS
      <3> QED
        BY <3>1, StartsAppend
    <2>4. Ix(j).effectStarts[e.steps[1]].attempt = Cardinality(Starts(j, e.steps[1], N))
      BY <2>1 DEF Ix, IndexOf, Database
    <2> QED
      BY <1>4, <2>1, <2>2, <2>3, <2>4
  <1>5. ~Has => Added = {}
    OBVIOUS
  <1>6. {[step |-> s, seq |-> N, attempt |-> Ix(j).effectStarts[s].attempt] : s \in Added} =
          IF Has THEN {New} ELSE {}
    BY <1>4, <1>5
  <1> HIDE DEF I, N, k, Rec, New, Has, Added
  <1>7. Ix(k).toolOutputEvents = Ix(j).toolOutputEvents \cup (IF Has THEN {New} ELSE {})
    BY <1>1, <1>2, <1>3, <1>4
  <1> QED
    BY <1>6, <1>7 DEF k, N, Added

\* The completion's output.
LEMMA CompletionOutputAppend ==
  ASSUME NEW j \in Seq(Events), NEW e \in Events,
         e.kind = "CompletionCandidateRecorded" => e.flag
  PROVE  Ix(Append(j, e)).completionOutput =
           IF e.kind = "CompletionCandidateRecorded" THEN Len(j) + 1 ELSE Ix(j).completionOutput
  <1> DEFINE k == Append(j, e)
             N == Len(j) + 1
             I(l) == {n \in Of(l, "CompletionCandidateRecorded") : l[n].flag}
  <1>1. Ix(j).completionOutput = Latest(I(j)) /\ Ix(k).completionOutput = Latest(I(k))
    BY DEF Ix, IndexOf, Database
  <1>2. I(k) = I(j) \cup (IF e.kind = "CompletionCandidateRecorded" THEN {N} ELSE {})
    <2>1. Of(k, "CompletionCandidateRecorded") = Of(j, "CompletionCandidateRecorded") \cup
            (IF e.kind = "CompletionCandidateRecorded" THEN {N} ELSE {})
      BY OfAppend
    <2>2. (\A n \in Of(j, "CompletionCandidateRecorded") : k[n] = j[n]) /\ k[N] = e
      BY Appended DEF Of
    <2> QED
      BY <2>1, <2>2
  <1>3. I(j) \in SUBSET (1..Len(j)) /\ N \in Nat
    BY DEF Of
  <1>4. e.kind = "CompletionCandidateRecorded" =>
          I(k) \in SUBSET (1..N) /\ N \in I(k) /\ \A m \in I(k) : m <= N
    <2> HIDE DEF I
    <2> QED
      BY <1>2, <1>3
  <1>5. e.kind = "CompletionCandidateRecorded" => Latest(I(k)) = N
    <2> HIDE DEF I, N
    <2> QED
      BY <1>3, <1>4, LatestIs
  <1> HIDE DEF I, N, k
  <1>6. Ix(k).completionOutput =
          IF e.kind = "CompletionCandidateRecorded" THEN N ELSE Ix(j).completionOutput
    BY <1>1, <1>2, <1>5
  <1> QED
    BY <1>6 DEF k, N

\* The steps that have a row.
LEMMA RowStepsAppend ==
  ASSUME NEW j \in Seq(Events), NEW e \in Events
  PROVE  /\ Ix(Append(j, e)).planInputs = Ix(j).planInputs \cup
              (IF e.kind = "PlanAccepted" THEN Range(e.steps) ELSE {})
         /\ Ix(Append(j, e)).materials = Ix(j).materials \cup
              (IF e.kind = "EffectIntentCommitted" THEN Range(e.steps) ELSE {})
         /\ Ix(Append(j, e)).toolOutputs = Ix(j).toolOutputs \cup
              (IF e.flag THEN (IF e.kind = "EffectSucceeded" THEN Range(e.steps) ELSE {}) ELSE {})
         /\ Ix(Append(j, e)).receipts = Ix(j).receipts \cup
              (IF e.kind = "VerificationRecorded" THEN Range(e.steps) ELSE {})
  <1> DEFINE k == Append(j, e)
             N == Len(j) + 1
             P == Latest(Of(j, "VerificationRecorded"))
             In(l, t) == {r.step : r \in Expected(l, t)}
             Added(t) == {r.step : r \in RowsOf(e, N, P, t)}
  <1>1. ASSUME NEW l
        PROVE  /\ Ix(l).planInputs = In(l, "planned_invocations")
               /\ Ix(l).materials = In(l, "invocation_materials")
               /\ Ix(l).toolOutputs = In(l, "tool_outputs")
               /\ Ix(l).receipts = In(l, "execution_receipts")
    <2>1. \A t \in Tables : StepsIn(Database(l), t) = In(l, t)
      BY DEF StepsIn, Database
    <2>2. /\ Ix(l).planInputs = StepsIn(Database(l), "planned_invocations")
          /\ Ix(l).materials = StepsIn(Database(l), "invocation_materials")
          /\ Ix(l).toolOutputs = StepsIn(Database(l), "tool_outputs")
          /\ Ix(l).receipts = StepsIn(Database(l), "execution_receipts")
      BY DEF Ix, IndexOf
    <2>3. {"planned_invocations", "invocation_materials", "tool_outputs", "execution_receipts"}
            \subseteq Tables
      BY DEF Tables
    <2> HIDE DEF In
    <2> QED
      BY <2>1, <2>2, <2>3
  <1>2. \A t \in Tables : In(k, t) = In(j, t) \cup Added(t)
    <2>1. \A t \in Tables : Expected(k, t) = Expected(j, t) \cup RowsOf(e, N, P, t)
      BY ExpectedAppend
    <2> HIDE DEF k, N, P
    <2> QED
      BY <2>1
  <1>3. e.kind \in {"EffectIntentCommitted", "EffectSucceeded", "VerificationRecorded"} =>
          Range(e.steps) = {e.steps[1]}
    BY EventShape DEF Solo, Flagged
  <1>4. \A s, n, p : Row(s, n, p).step = s
    BY DEF Row
  <1>5. Added("planned_invocations") = IF e.kind = "PlanAccepted" THEN Range(e.steps) ELSE {}
    <2>1. RowsOf(e, N, P, "planned_invocations") =
            IF e.kind = "PlanAccepted" THEN {Row(s, N, 0) : s \in Range(e.steps)} ELSE {}
      BY RowsByTable
    <2> HIDE DEF N, P
    <2> QED
      BY <1>4, <2>1
  <1>6. Added("invocation_materials") =
          IF e.kind = "EffectIntentCommitted" THEN Range(e.steps) ELSE {}
    <2>1. RowsOf(e, N, P, "invocation_materials") =
            IF e.kind = "EffectIntentCommitted" THEN {Row(e.steps[1], N, 0)} ELSE {}
      BY RowsByTable
    <2> HIDE DEF N, P
    <2> QED
      BY <1>3, <1>4, <2>1
  <1>7. Added("tool_outputs") =
          IF e.flag THEN (IF e.kind = "EffectSucceeded" THEN Range(e.steps) ELSE {}) ELSE {}
    <2>1. RowsOf(e, N, P, "tool_outputs") =
            IF e.kind = "EffectSucceeded" /\ e.flag THEN {Row(e.steps[1], N, 0)} ELSE {}
      BY RowsByTable
    <2> HIDE DEF N, P
    <2> QED
      BY <1>3, <1>4, <2>1
  <1>8. Added("execution_receipts") =
          IF e.kind = "VerificationRecorded" THEN Range(e.steps) ELSE {}
    <2>1. RowsOf(e, N, P, "execution_receipts") =
            IF e.kind = "VerificationRecorded" THEN {Row(e.steps[1], N, P)} ELSE {}
      BY RowsByTable
    <2> HIDE DEF N, P
    <2> QED
      BY <1>3, <1>4, <2>1
  <1>9. {"planned_invocations", "invocation_materials", "tool_outputs", "execution_receipts"}
          \subseteq Tables
    BY DEF Tables
  <1> HIDE DEF In, Added
  <1> QED
    BY <1>1, <1>2, <1>5, <1>6, <1>7, <1>8, <1>9

\* The receipts' rows are at their records.
LEMMA ReceiptSeqs ==
  ASSUME NEW j \in Seq(Events)
  PROVE  /\ {r.seq : r \in Expected(j, "execution_receipts")} = Of(j, "VerificationRecorded")
         /\ Ix(j).receiptHead = Latest(Of(j, "VerificationRecorded"))
  <1>1. "execution_receipts" \in Tables
    BY DEF Tables
  <1>2. ASSUME NEW r \in Expected(j, "execution_receipts")
        PROVE  r.seq \in Of(j, "VerificationRecorded")
    <2>1. PICK n \in 1..Len(j) :
            r.seq = n /\ r \in RowsOf(j[n], n, PreviousReceipt(j, n), "execution_receipts")
      BY <1>1, ExpectedRows
    <2> QED
      BY <2>1, RowsByTable DEF Of
  <1>3. ASSUME NEW n \in Of(j, "VerificationRecorded")
        PROVE  \E r \in Expected(j, "execution_receipts") : r.seq = n
    <2>1. n \in 1..Len(j) /\ j[n].kind = "VerificationRecorded"
      BY DEF Of
    <2>2. Row(j[n].steps[1], n, PreviousReceipt(j, n))
            \in RowsOf(j[n], n, PreviousReceipt(j, n), "execution_receipts")
      BY <2>1, RowsByTable
    <2>3. Row(j[n].steps[1], n, PreviousReceipt(j, n)) \in Expected(j, "execution_receipts")
      BY <1>1, <2>1, <2>2, ExpectedRows
    <2> QED
      BY <2>3 DEF Row
  <1>4. {r.seq : r \in Expected(j, "execution_receipts")} = Of(j, "VerificationRecorded")
    BY <1>2, <1>3
  <1>5. Ix(j).receiptHead = Latest({r.seq : r \in Database(j).rows["execution_receipts"]})
    BY DEF Ix, IndexOf
  <1>6. Database(j).rows["execution_receipts"] = Expected(j, "execution_receipts")
    BY <1>1 DEF Database
  <1> QED
    BY <1>4, <1>5, <1>6

\* The head of the receipts.
LEMMA ReceiptHeadAppend ==
  ASSUME NEW j \in Seq(Events), NEW e \in Events
  PROVE  Ix(Append(j, e)).receiptHead =
           IF e.kind = "VerificationRecorded" THEN Len(j) + 1 ELSE Ix(j).receiptHead
  <1> DEFINE k == Append(j, e)
             N == Len(j) + 1
             I(l) == Of(l, "VerificationRecorded")
  <1>1. Ix(j).receiptHead = Latest(I(j)) /\ Ix(k).receiptHead = Latest(I(k))
    BY Appended, ReceiptSeqs
  <1>2. I(k) = I(j) \cup (IF e.kind = "VerificationRecorded" THEN {N} ELSE {})
    BY OfAppend
  <1>3. I(j) \in SUBSET (1..Len(j)) /\ N \in Nat
    BY DEF Of
  <1>4. e.kind = "VerificationRecorded" =>
          I(k) \in SUBSET (1..N) /\ N \in I(k) /\ \A m \in I(k) : m <= N
    <2> HIDE DEF I
    <2> QED
      BY <1>2, <1>3
  <1>5. e.kind = "VerificationRecorded" => Latest(I(k)) = N
    <2> HIDE DEF I, N
    <2> QED
      BY <1>3, <1>4, LatestIs
  <1> HIDE DEF I, N, k
  <1>6. Ix(k).receiptHead = IF e.kind = "VerificationRecorded" THEN N ELSE Ix(j).receiptHead
    BY <1>1, <1>2, <1>5
  <1> QED
    BY <1>6 DEF k, N

\* apply_committed turns the index of a journal into the index of that journal with
\* one record more, whatever the record is that the store appends.
LEMMA IndexAdvances ==
  ASSUME NEW j \in Seq(Events), NEW e \in Events, Accepts(j, e), e.kind # "VerificationPassed",
         e.kind = "CompletionCandidateRecorded" => e.flag
  PROVE  ApplyCommitted(Ix(j), e) = Ix(Append(j, e))
  <1> DEFINE k == Append(j, e)
             ix == Ix(j)
             N == Len(j) + 1
             Record(h, co, ob, sp, in, es, re, te, cp, pl, pi, ma, to, rc, rh) ==
               [head |-> h, completed |-> co, outputBound |-> ob, stepPositions |-> sp,
                intents |-> in, effectStarts |-> es, receiptEvents |-> re,
                toolOutputEvents |-> te, completionOutput |-> cp, planned |-> pl,
                planInputs |-> pi, materials |-> ma, toolOutputs |-> to, receipts |-> rc,
                receiptHead |-> rh]
  <1>1. Ix(k) = Record(Ix(k).head, Ix(k).completed, Ix(k).outputBound, Ix(k).stepPositions,
                       Ix(k).intents, Ix(k).effectStarts, Ix(k).receiptEvents,
                       Ix(k).toolOutputEvents, Ix(k).completionOutput, Ix(k).planned,
                       Ix(k).planInputs, Ix(k).materials, Ix(k).toolOutputs, Ix(k).receipts,
                       Ix(k).receiptHead)
    BY DEF Ix, IndexOf
  <1>2. ix.head = Len(j) /\ Ix(k).head = N
    BY Appended DEF Ix, IndexOf, Database
  <1> DEFINE Named == Range(e.steps)
             Made == IF e.flag THEN (IF e.kind = "EffectSucceeded" THEN Named ELSE {}) ELSE {}
             Completed ==
               ix.completed \cup
                 (IF e.flag THEN (IF e.kind = "VerificationRecorded" THEN Named ELSE {}) ELSE {})
             Positions ==
               ix.stepPositions \cup
                 (IF e.kind \in Planning
                  THEN {[step |-> e.steps[i], seq |-> ix.head + 1, at |-> i] : i \in 1..Len(e.steps)}
                  ELSE {})
             Intended ==
               ix.intents \cup (IF e.kind = "EffectIntentCommitted"
                                THEN {[step |-> s, output |-> e.flag] : s \in Named} ELSE {})
             Started ==
               [s \in Steps |->
                  IF s \in (IF e.kind = "EffectExecutionStarted" THEN Named ELSE {})
                  THEN [seq |-> ix.head + 1, attempt |-> ix.effectStarts[s].attempt + 1]
                  ELSE ix.effectStarts[s]]
             Verifications ==
               ix.receiptEvents \cup
                 (IF e.kind = "VerificationRecorded"
                  THEN {[step |-> s, seq |-> ix.head + 1, passed |-> e.flag,
                         start |-> ix.effectStarts[s].seq] : s \in Named} ELSE {})
             Outputs ==
               ix.toolOutputEvents \cup
                 {[step |-> s, seq |-> ix.head + 1, attempt |-> ix.effectStarts[s].attempt] :
                  s \in Made}
             Completion ==
               IF e.kind = "CompletionCandidateRecorded" THEN ix.head + 1 ELSE ix.completionOutput
             Added(kind) == IF e.kind = kind THEN Named ELSE {}
             Advanced(rh) ==
               Record(ix.head + 1, Completed, ix.outputBound \cup Made, Positions, Intended, Started,
                      Verifications, Outputs, Completion, ix.planned \cup Added("PlanAccepted"),
                      ix.planInputs \cup Added("PlanAccepted"),
                      ix.materials \cup Added("EffectIntentCommitted"), ix.toolOutputs \cup Made,
                      ix.receipts \cup Added("VerificationRecorded"), rh)
             NewHead == IF e.kind = "VerificationRecorded" THEN ix.head + 1 ELSE ix.receiptHead
  <1>3. ApplyCommitted(ix, e) = Advanced(NewHead)
    <2> HIDE DEF ix
    <2> QED
      BY Zenon DEF ApplyCommitted, Advance
  <1> HIDE DEF Record
  <1>4. Ix(k).completed = Completed
    BY CompletedAppend
  <1>5. Ix(k).outputBound = ix.outputBound \cup Made
    BY OutputBoundAppend
  <1>6. Ix(k).stepPositions = Positions
    BY <1>2, StepPositionsAppend
  <1>7. Ix(k).intents = Intended
    BY IntentsAppend
  <1>8. Ix(k).effectStarts = Started
    BY <1>2, EffectStartsAppend
  <1>9. Ix(k).receiptEvents = Verifications
    BY <1>2, ReceiptEventsAppend
  <1>10. Ix(k).toolOutputEvents = Outputs
    BY <1>2, ToolOutputEventsAppend
  <1>11. Ix(k).completionOutput = Completion
    BY <1>2, CompletionOutputAppend
  <1>12. Ix(k).planned = ix.planned \cup Added("PlanAccepted")
    BY PlannedAppend
  <1>13. /\ Ix(k).planInputs = ix.planInputs \cup Added("PlanAccepted")
         /\ Ix(k).materials = ix.materials \cup Added("EffectIntentCommitted")
         /\ Ix(k).toolOutputs = ix.toolOutputs \cup Made
         /\ Ix(k).receipts = ix.receipts \cup Added("VerificationRecorded")
    BY RowStepsAppend
  <1>14. Ix(k).receiptHead = NewHead
    BY <1>2, ReceiptHeadAppend
  <1>15. Ix(k).head = ix.head + 1
    BY <1>2
  <1> HIDE DEF k, ix, N, Named, Made, Completed, Positions, Intended, Started, Verifications,
               Outputs, Completion, Added, NewHead
  <1>16. ApplyCommitted(ix, e) = Ix(k)
    BY <1>1, <1>3, <1>4, <1>5, <1>6, <1>7, <1>8, <1>9, <1>10, <1>11, <1>12, <1>13, <1>14, <1>15,
       Zenon
  <1> QED
    BY <1>16 DEF k, ix

-----------------------------------------------------------------------------
(* The inductive invariant *)

Open == {"Idle", "Writing", "Committed"}
Opening == {"Reserved", "Schema", "Version", "Migrate", "Audit"}

Appending == [event : Events, given : SUBSET Tables, prev : Nat]

TypeOK ==
    /\ db \in Databases \cup {None}
    /\ writer \in Conns \cup {None}
    /\ stage \in 1..Len(Stages) + 1
    /\ pc \in [Conns -> {"Down", "Refused"} \cup Opening \cup Open]
    /\ read \in [Conns -> Nat \cup {None}]
    /\ pending \in [Conns -> Appending \cup {None}]
    /\ DOMAIN cache = Conns /\ cache = [c \in Conns |-> cache[c]]
    /\ foreign \in [Conns -> BOOLEAN]
    /\ held \in [Conns -> [head : Nat \cup {None}, receiptHead : Nat]]
    /\ damaged \in BOOLEAN

\* The tables are those of the version; a file whose schema is being written has
\* none of them or all.
SchemaOk(d) ==
    \/ d.version = 0 /\ d.tables \in {{}, Tables}
    \/ d.version \in 3..StoreSchemaVersion /\ d.tables = TablesAt(d.version)

\* Where a connection is says what the version may have become meanwhile.
SchemaInv ==
    /\ db = None => \A c \in Conns : pc[c] = "Down"
    /\ db # None => SchemaOk(db)
    /\ \A c \in Conns :
        /\ pc[c] \in {"Schema", "Version"} => db.version \in {0, StoreSchemaVersion}
        /\ pc[c] = "Version" => db.tables = Tables
        /\ pc[c] = "Migrate" => read[c] \in Migratable /\ db.version >= read[c]
        /\ pc[c] \in {"Audit"} \cup Open => db.version = StoreSchemaVersion
        /\ pc[c] = "Refused" => damaged

\* The data is sound until someone else changes it; from then on the audit fails
\* and no index can be reused.
DataInv ==
    /\ ~damaged /\ db # None => Sound(db)
    /\ damaged =>
        /\ db # None /\ ~DataOk(db) /\ writer = None
        /\ \A c \in Conns : cache[c] # None => foreign[c]

\* Every index is that of a journal, and unless another connection has committed
\* since, of the one that is stored (or was before the append to acknowledge).
CacheOk(c) ==
    /\ pc[c] \in Open
    /\ \E j \in Seq(Events) :
        /\ cache[c] = Ix(j)
        /\ pc[c] = "Committed" =>
            /\ Accepts(j, pending[c].event)
            /\ pending[c].event.kind # "VerificationPassed"
            /\ pending[c].event.kind = "CompletionCandidateRecorded" => pending[c].event.flag
        /\ ~foreign[c] =>
            db.events = IF pc[c] = "Committed" THEN Append(j, pending[c].event) ELSE j

CacheInv == \A c \in Conns : cache[c] # None => CacheOk(c)

\* The place of a table among the stages.
PlaceOf ==
    [effect_intents |-> 2, authorization_consumption |-> 3, planned_invocations |-> 4,
     invocation_materials |-> 5, tool_outputs |-> 6, completion_outputs |-> 7,
     execution_receipts |-> 8]

\* What the writer has written before stage n: append p, on top of database d.
RowsAt(d, p, n) ==
    [t \in Tables |->
        IF n > PlaceOf[t]
        THEN d.rows[t] \cup RowsOf(p.event, Len(d.events) + 1, p.prev, t) ELSE d.rows[t]]

DraftAt(d, p, n) ==
    [version |-> d.version, tables |-> d.tables,
     events |-> IF n > 1 THEN Append(d.events, p.event) ELSE d.events,
     projection |-> IF n > 9 THEN Len(d.events) + 1 ELSE d.projection,
     rows |-> RowsAt(d, p, n)]

\* The append under way was checked against the journal it extends.
Prepared(c) ==
    /\ pending[c] \in Appending
    /\ Appendable(pending[c].event, pending[c].given)
    /\ Accepts(db.events, pending[c].event)
    /\ pending[c].event.kind = "VerificationRecorded" =>
        pending[c].prev = Latest(Of(db.events, "VerificationRecorded"))

WriterInv ==
    /\ \A c \in Conns : pc[c] = "Writing" <=> writer = c
    /\ \A c \in Conns : pc[c] = "Committed" => pending[c] \in Appending /\ cache[c] # None
    /\ \A c \in Conns : writer = c =>
        /\ Prepared(c)
        /\ cache[c] # None /\ ~foreign[c] /\ held[c].head = Len(db.events)
        /\ draft = DraftAt(db, pending[c], stage)

Inv == SchemaInv /\ DataInv /\ CacheInv /\ WriterInv

-----------------------------------------------------------------------------
(* What the invariant says of a database *)

\* The audit and the soundness of data do not depend on the schema.
LEMMA SameData ==
  ASSUME NEW d \in Databases, NEW b \in Databases,
         d.events = b.events, d.projection = b.projection, d.rows = b.rows
  PROVE  (Sound(d) <=> Sound(b)) /\ (DataOk(d) <=> DataOk(b))
  <1> DEFINE Of5(v, t, j, p, r) ==
                [version |-> v, tables |-> t, events |-> j, projection |-> p, rows |-> r]
  <1>1. d = Of5(d.version, d.tables, d.events, d.projection, d.rows)
    BY DEF Databases
  <1>2. b = Of5(b.version, b.tables, d.events, d.projection, d.rows)
    BY DEF Databases
  <1>3. \A v, t, j, p, r, w, u : DataOk(Of5(v, t, j, p, r)) <=> DataOk(Of5(w, u, j, p, r))
    BY DEF DataOk, ProjectionOk, ForeignKeysOk, EffectIntentsOk, AuthorizationsOk, PlanInputsOk,
           MaterialsOk, ToolOutputsOk, ReceiptsOk, CompletionOutputOk, Matches, StepsIn
  <1>4. Sound(d) <=> Sound(b)
    BY DEF Sound
  <1> HIDE DEF Of5
  <1> QED
    BY <1>1, <1>2, <1>3, <1>4

\* The audit is that of the schema and that of the data.
LEMMA AuditParts ==
  ASSUME NEW d
  PROVE  AuditOk(d) <=> d.tables = Tables /\ DataOk(d)
  BY DEF AuditOk, DataOk

\* The current version has every table, and an older one no table that a later
\* one lacks.
LEMMA TablesGrow ==
  /\ TablesAt(StoreSchemaVersion) = Tables
  /\ \A v, w \in Nat : v <= w => TablesAt(v) \subseteq TablesAt(w)
  BY DEF TablesAt, StoreSchemaVersion

\* Whatever version a migration finds, from the one it read on, it creates
\* exactly the tables that are missing, and planned_invocations at most again.
LEMMA MigrationTables ==
  ASSUME NEW r \in Migratable, NEW v \in Migratable, r <= v
  PROVE  /\ TablesAt(v) \cup CreatedTables(r, v) = Tables
         /\ (CreatedTables(r, v) \ {"planned_invocations"}) \cap TablesAt(v) = {}
  <1>1. v \in {3, 4, 5, 6, 7} /\ r \in {3, 4, 5, 6, 7}
    BY DEF Migratable
  <1>2. CASE v = 7
    BY <1>1, <1>2 DEF TablesAt, CreatedTables, Tables, StoreSchemaVersion
  <1>3. CASE v = 6
    BY <1>1, <1>3 DEF TablesAt, CreatedTables, Tables, StoreSchemaVersion
  <1>4. CASE v = 5
    BY <1>1, <1>4 DEF TablesAt, CreatedTables, Tables, StoreSchemaVersion
  <1>5. CASE v = 4
    BY <1>1, <1>5 DEF TablesAt, CreatedTables, Tables, StoreSchemaVersion
  <1>6. CASE v = 3
    BY <1>1, <1>6 DEF TablesAt, CreatedTables, Tables, StoreSchemaVersion
  <1> QED
    BY <1>1, <1>2, <1>3, <1>4, <1>5, <1>6

\* A migration of sound data succeeds; of any data, if it does, it leaves the
\* current schema and the data as they are.
LEMMA MigrationFits ==
  ASSUME NEW d \in Databases, SchemaOk(d), NEW r \in Migratable, d.version >= r
  PROVE  /\ Migrated(d, r) \in Databases
         /\ Migrated(d, r).version = StoreSchemaVersion /\ Migrated(d, r).tables = Tables
         /\ Migrated(d, r).events = d.events /\ Migrated(d, r).projection = d.projection
         /\ Migrated(d, r).rows = d.rows
         /\ d.version = StoreSchemaVersion => Migrated(d, r) = d
         /\ Sound(d) => Migrates(d, r)
  <1> DEFINE m == Migrated(d, r)
  <1>1. d.version \in 3..StoreSchemaVersion /\ d.tables = TablesAt(d.version) /\ r \in Nat /\ r >= 3
    BY DEF SchemaOk, Migratable
  <1>2. d.tables \cup CreatedTables(r, d.version) = Tables
        /\ (CreatedTables(r, d.version) \ {"planned_invocations"}) \cap d.tables = {}
        /\ (d.version = StoreSchemaVersion => CreatedTables(r, d.version) = {})
    <2>1. CASE d.version = StoreSchemaVersion
      <3>1. CreatedTables(r, d.version) = {}
        BY <2>1 DEF CreatedTables, StoreSchemaVersion
      <3> QED
        BY <1>1, <2>1, <3>1, TablesGrow
    <2>2. CASE d.version # StoreSchemaVersion
      <3>1. d.version \in Migratable /\ r <= d.version
        BY <1>1, <2>2 DEF Migratable, StoreSchemaVersion
      <3> QED
        BY <1>1, <2>2, <3>1, MigrationTables
    <2> QED
      BY <2>1, <2>2
  <1>3. m = [version |-> StoreSchemaVersion, tables |-> Tables, events |-> d.events,
             projection |-> d.projection, rows |-> d.rows]
    <2>1. m = [d EXCEPT !.tables = d.tables \cup CreatedTables(r, d.version),
                        !.version = StoreSchemaVersion]
      BY DEF Migrated
    <2>2. m = [d EXCEPT !.tables = Tables, !.version = StoreSchemaVersion]
      BY <1>2, <2>1
    <2> HIDE DEF m
    <2> QED
      BY <2>2 DEF Databases
  <1>4. /\ m \in Databases
        /\ m.version = StoreSchemaVersion /\ m.tables = Tables
        /\ m.events = d.events /\ m.projection = d.projection /\ m.rows = d.rows
    <2> HIDE DEF m
    <2> QED
      BY <1>3 DEF Databases, StoreSchemaVersion
  <1>5. d.version = StoreSchemaVersion => m = d
    <2>1. d.version = StoreSchemaVersion => d.tables = Tables
      BY <1>2
    <2> QED
      BY <1>3, <2>1 DEF Databases
  <1>6. ASSUME Sound(d) PROVE Migrates(d, r)
    <2>1. Sound(m)
      BY <1>4, <1>6, SameData
    <2>2. AuditOk(m)
      BY <1>4, <2>1, SoundAudit, AuditParts
    <2> QED
      BY <1>1, <1>2, <2>2 DEF Migrates, Handled, CreationFits
  <1> QED
    BY <1>4, <1>5, <1>6

-----------------------------------------------------------------------------
(* What an append writes *)

\* A record without a sidecar in a table calls for no row there.
LEMMA NothingOwed ==
  ASSUME NEW e, NEW given, Appendable(e, given), NEW t \in Tables, t \notin Derived \cup given,
         NEW n, NEW prev
  PROVE  RowsOf(e, n, prev, t) = {}
  <1>1. t \in {"planned_invocations", "invocation_materials", "tool_outputs", "completion_outputs",
               "execution_receipts"}
    BY DEF Tables, Derived
  <1>2. CASE t = "planned_invocations"
    BY <1>2, RowsByTable DEF Appendable, PlanInputBundle
  <1>3. CASE t = "invocation_materials"
    BY <1>3, RowsByTable DEF Appendable, MaterialBundle
  <1>4. CASE t = "tool_outputs"
    BY <1>4, RowsByTable DEF Appendable, ToolOutputBundle
  <1>5. CASE t = "completion_outputs"
    BY <1>5, RowsByTable DEF Appendable, CompletionOutputBundle
  <1>6. CASE t = "execution_receipts"
    BY <1>6, RowsByTable DEF Appendable, ReceiptBundle
  <1> QED
    BY <1>1, <1>2, <1>3, <1>4, <1>5, <1>6

\* The table a stage writes, and the only stage that writes it.
LEMMA StageTables ==
  /\ Len(Stages) = 9 /\ Stages[1] = "run_events" /\ Stages[9] = "run_projection"
  /\ \A n \in 2..8 : Stages[n] \in Tables /\ PlaceOf[Stages[n]] = n
  /\ \A t \in Tables : PlaceOf[t] \in 2..8 /\ Stages[PlaceOf[t]] = t
  /\ "run_events" \notin Tables /\ "run_projection" \notin Tables
  <1>1. Len(Stages) = 9 /\ Stages[1] = "run_events" /\ Stages[9] = "run_projection"
    BY DEF Stages
  <1>2. ASSUME NEW n \in 2..8 PROVE Stages[n] \in Tables /\ PlaceOf[Stages[n]] = n
    <2>1. n \in {2, 3, 4, 5, 6, 7, 8}
      OBVIOUS
    <2> QED
      BY <2>1 DEF Stages, Tables, PlaceOf
  <1>3. ASSUME NEW t \in Tables PROVE PlaceOf[t] \in 2..8 /\ Stages[PlaceOf[t]] = t
    BY DEF Stages, Tables, PlaceOf
  <1>4. "run_events" \notin Tables /\ "run_projection" \notin Tables
    BY DEF Tables
  <1> QED
    BY <1>1, <1>2, <1>3, <1>4

\* The rows before and after a stage.
LEMMA RowsAtStage ==
  ASSUME db \in Databases, NEW p, NEW n \in 1..9
  PROVE  /\ n \in {1, 9} => RowsAt(db, p, n + 1) = RowsAt(db, p, n)
         /\ n \in 2..8 => RowsAt(db, p, n + 1) =
              [RowsAt(db, p, n) EXCEPT ![Stages[n]] =
                 @ \cup RowsOf(p.event, Len(db.events) + 1, p.prev, Stages[n])]
  <1> DEFINE New(t) == RowsOf(p.event, Len(db.events) + 1, p.prev, t)
             R(m) == [t \in Tables |-> IF m > PlaceOf[t] THEN db.rows[t] \cup New(t)
                                       ELSE db.rows[t]]
  <1>1. RowsAt(db, p, n) = R(n) /\ RowsAt(db, p, n + 1) = R(n + 1)
    BY DEF RowsAt
  <1>2. \A t \in Tables : PlaceOf[t] \in 2..8
    BY StageTables
  <1> HIDE DEF New
  <1>3. n \in {1, 9} => R(n + 1) = R(n)
    <2>1. ASSUME n \in {1, 9}, NEW t \in Tables PROVE n + 1 > PlaceOf[t] <=> n > PlaceOf[t]
      BY <1>2, <2>1
    <2> QED
      BY <2>1
  <1>4. n \in 2..8 => R(n + 1) = [R(n) EXCEPT ![Stages[n]] = @ \cup New(Stages[n])]
    <2>1. SUFFICES ASSUME n \in 2..8
                   PROVE  R(n + 1) = [R(n) EXCEPT ![Stages[n]] = @ \cup New(Stages[n])]
      OBVIOUS
    <2> DEFINE s == Stages[n]
    <2>2. s \in Tables /\ PlaceOf[s] = n
      BY <2>1, StageTables
    <2>3. \A t \in Tables : t # s => PlaceOf[t] # n
      BY <2>2, StageTables
    <2>4. R(n)[s] = db.rows[s] /\ R(n + 1)[s] = db.rows[s] \cup New(s)
      BY <2>1, <2>2
    <2>5. \A t \in Tables : t # s => R(n + 1)[t] = R(n)[t]
      <3>1. ASSUME NEW t \in Tables, t # s PROVE n + 1 > PlaceOf[t] <=> n > PlaceOf[t]
        BY <1>2, <2>3, <3>1
      <3> QED
        BY <3>1
    <2> HIDE DEF s
    <2>6. R(n + 1) = [R(n) EXCEPT ![s] = @ \cup New(s)]
      BY <2>2, <2>4, <2>5
    <2> QED
      BY <2>6 DEF s
  <1> QED
    BY <1>1, <1>3, <1>4 DEF New

\* A stage turns the draft before it into the draft after it.
LEMMA StageWrites ==
  ASSUME db \in Databases, NEW p \in Appending, Appendable(p.event, p.given), NEW n \in 1..9
  PROVE  Written(DraftAt(db, p, n), Stages[n], p) = DraftAt(db, p, n + 1)
  <1> DEFINE d == DraftAt(db, p, n)
             f == DraftAt(db, p, n + 1)
             N == Len(db.events) + 1
             Drafted(j, q, r) == [version |-> db.version, tables |-> db.tables, events |-> j,
                                  projection |-> q, rows |-> r]
             Longer == Append(db.events, p.event)
  <1>1. Derived \cup p.given \subseteq Tables
    BY DEF Appending, Derived, Tables
  <1>2. CASE n = 1
    <2>1. Stages[n] = "run_events" /\ "run_events" \notin Derived \cup p.given
      BY <1>1, <1>2, StageTables
    <2>2. Written(d, Stages[n], p) = [d EXCEPT !.events = Append(d.events, p.event)]
      <3> HIDE DEF d
      <3> QED
        BY <2>1 DEF Written
    <2>3. d = Drafted(db.events, db.projection, RowsAt(db, p, n))
      BY <1>2 DEF DraftAt
    <2>4. f = Drafted(Longer, db.projection, RowsAt(db, p, n))
      <3>1. RowsAt(db, p, n + 1) = RowsAt(db, p, n)
        BY <1>2, RowsAtStage
      <3> QED
        BY <1>2, <3>1 DEF DraftAt
    <2> HIDE DEF d, f
    <2>5. Written(d, Stages[n], p) = [d EXCEPT !.events = Longer]
      BY <2>2, <2>3
    <2>6. Written(d, Stages[n], p) = f
      BY <2>3, <2>4, <2>5
    <2> QED
      BY <2>6 DEF d, f
  <1>3. CASE n = 9
    <2>1. Stages[n] = "run_projection" /\ "run_projection" \notin Derived \cup p.given
      BY <1>1, <1>3, StageTables
    <2>2. Written(d, Stages[n], p) = [d EXCEPT !.projection = N]
      <3> HIDE DEF d
      <3> QED
        BY <2>1 DEF Written
    <2>3. d = Drafted(Longer, db.projection, RowsAt(db, p, n))
      BY <1>3 DEF DraftAt
    <2>4. f = Drafted(Longer, N, RowsAt(db, p, n))
      <3>1. RowsAt(db, p, n + 1) = RowsAt(db, p, n)
        BY <1>3, RowsAtStage
      <3> QED
        BY <1>3, <3>1 DEF DraftAt
    <2> HIDE DEF d, f
    <2>5. Written(d, Stages[n], p) = f
      BY <2>2, <2>3, <2>4
    <2> QED
      BY <2>5 DEF d, f
  <1>4. CASE n \in 2..8
    <2> DEFINE s == Stages[n]
               New == RowsOf(p.event, N, p.prev, s)
    <2>1. s \in Tables /\ s # "run_events" /\ s # "run_projection"
      BY <1>4, StageTables
    <2>2. d = Drafted(Longer, db.projection, RowsAt(db, p, n))
      BY <1>4 DEF DraftAt
    <2>3. f = Drafted(Longer, db.projection, [RowsAt(db, p, n) EXCEPT ![s] = @ \cup New])
      <3>1. RowsAt(db, p, n + 1) = [RowsAt(db, p, n) EXCEPT ![s] = @ \cup New]
        BY <1>4, RowsAtStage
      <3>2. f = Drafted(Longer, db.projection, RowsAt(db, p, n + 1))
        BY <1>4 DEF DraftAt
      <3> HIDE DEF f, Drafted, s, New
      <3> QED
        BY <3>1, <3>2
    <2>4. CASE s \in Derived \cup p.given
      <3>1. Written(d, s, p) = [d EXCEPT !.rows[s] = @ \cup New]
        <4> HIDE DEF d, s
        <4> QED
          BY <2>1, <2>4 DEF Written
      <3> HIDE DEF d, f, s, New
      <3>2. Written(d, s, p) = f
        BY <2>2, <2>3, <3>1
      <3> QED
        BY <3>2 DEF d, f, s
    <2>5. CASE s \notin Derived \cup p.given
      <3>1. Written(d, s, p) = d
        <4> HIDE DEF d, s
        <4> QED
          BY <2>1, <2>5 DEF Written
      <3>2. New = {}
        BY <2>1, <2>5, NothingOwed
      <3>3. RowsAt(db, p, n) = [t \in Tables |-> RowsAt(db, p, n)[t]]
        BY DEF RowsAt
      <3> HIDE DEF d, f, s, New
      <3>4. [RowsAt(db, p, n) EXCEPT ![s] = @ \cup New] = RowsAt(db, p, n)
        BY <2>1, <3>2, <3>3
      <3>5. d = f
        BY <2>2, <2>3, <3>4
      <3> QED
        BY <3>1, <3>5 DEF d, f, s
    <2> QED
      BY <2>4, <2>5
  <1> QED
    BY <1>2, <1>3, <1>4

\* The draft after the last stage is sound: the journal with the new record, its
\* rows and its projection.
LEMMA DraftSound ==
  ASSUME db \in Databases, Sound(db), NEW p \in Appending,
         Appendable(p.event, p.given), Accepts(db.events, p.event),
         p.event.kind = "VerificationRecorded" =>
           p.prev = Latest(Of(db.events, "VerificationRecorded"))
  PROVE  LET d == DraftAt(db, p, 10)
         IN  d \in Databases /\ Sound(d) /\ d.version = db.version /\ d.tables = db.tables
             /\ d.events = Append(db.events, p.event)
  <1> DEFINE d == DraftAt(db, p, 10)
             j == db.events
             N == Len(j) + 1
  <1>1. d = [version |-> db.version, tables |-> db.tables, events |-> Append(j, p.event),
             projection |-> N,
             rows |-> [t \in Tables |-> db.rows[t] \cup RowsOf(p.event, N, p.prev, t)]]
    <2>1. \A t \in Tables : 10 > PlaceOf[t]
      BY StageTables
    <2>2. RowsAt(db, p, 10) = [t \in Tables |-> db.rows[t] \cup RowsOf(p.event, N, p.prev, t)]
      BY <2>1 DEF RowsAt
    <2>3. d = [version |-> db.version, tables |-> db.tables, events |-> Append(j, p.event),
               projection |-> N, rows |-> RowsAt(db, p, 10)]
      BY DEF DraftAt
    <2> QED
      BY <2>2, <2>3
  <1>2. j \in Seq(Events) /\ p.event \in Events /\ p.prev \in Nat /\ Replays(j)
        /\ Append(j, p.event) \in Seq(Events) /\ Len(Append(j, p.event)) = N /\ N \in Nat
    BY DEF Databases, Appending, Sound
  <1>3. ASSUME NEW t \in Tables
        PROVE  db.rows[t] \cup RowsOf(p.event, N, p.prev, t) = Expected(Append(j, p.event), t)
    <2>1. db.rows[t] = Expected(j, t)
      BY <1>3 DEF Sound
    <2>2. RowsOf(p.event, N, p.prev, t) =
            RowsOf(p.event, N, Latest(Of(j, "VerificationRecorded")), t)
      <3>1. CASE p.event.kind = "VerificationRecorded"
        BY <3>1
      <3>2. CASE p.event.kind # "VerificationRecorded"
        <4> DEFINE e == p.event
        <4> HIDE DEF e
        <4>1. e.kind # "VerificationRecorded"
          BY <3>2 DEF e
        <4>2. \A a, b : RowsOf(e, N, a, t) = RowsOf(e, N, b, t)
          BY <1>3, <4>1 DEF RowsOf, Tables
        <4> QED
          BY <4>2 DEF e
      <3> QED
        BY <3>1, <3>2
    <2> QED
      BY <1>2, <2>1, <2>2, ExpectedAppend
  <1>4. d.rows = [t \in Tables |-> Expected(Append(j, p.event), t)]
    <2> HIDE DEF d
    <2> QED
      BY <1>1, <1>3
  <1>5. \A t \in Tables : Expected(Append(j, p.event), t) \in SUBSET Rows
    BY <1>2, ExpectedRows
  <1> HIDE DEF d
  <1>6. d.events = Append(j, p.event) /\ d.projection = N /\ d.version = db.version
        /\ d.tables = db.tables
    BY <1>1
  <1>7. Sound(d)
    BY <1>2, <1>4, <1>6, ReplaysAppend DEF Sound
  <1>8. d \in Databases
    <2>1. d = [version |-> db.version, tables |-> db.tables, events |-> Append(j, p.event),
               projection |-> N, rows |-> d.rows]
      BY <1>1
    <2>2. d.rows \in [Tables -> SUBSET Rows]
      BY <1>4, <1>5
    <2> QED
      BY <1>2, <2>1, <2>2 DEF Databases, Rows
  <1> QED
    BY <1>6, <1>7, <1>8 DEF d

-----------------------------------------------------------------------------
(* The invariant holds initially *)

\* The database of a journal under any schema.
UnderSchema(j, v, T) == [Database(j) EXCEPT !.version = v, !.tables = T]

\* It is sound if the journal replays.
LEMMA DatabaseSound ==
  ASSUME NEW j \in Seq(Events), Replays(j), NEW v \in Nat, NEW T \in SUBSET Tables
  PROVE  /\ UnderSchema(j, v, T) \in Databases /\ Sound(UnderSchema(j, v, T))
         /\ UnderSchema(j, v, T).version = v /\ UnderSchema(j, v, T).tables = T
         /\ UnderSchema(j, v, T).events = j
  <1> DEFINE d == UnderSchema(j, v, T)
             R == [t \in Tables |-> Expected(j, t)]
  <1>1. Database(j) = [version |-> 8, tables |-> Tables, events |-> j, projection |-> Len(j),
                       rows |-> R]
    BY DEF Database
  <1>2. d = [version |-> v, tables |-> T, events |-> j, projection |-> Len(j), rows |-> R]
    <2> DEFINE B == Database(j)
    <2>1. d = [B EXCEPT !.version = v, !.tables = T]
      BY DEF UnderSchema
    <2>2. B \in [version : {8}, tables : {Tables}, events : {j}, projection : {Len(j)}, rows : {R}]
      <3> HIDE DEF R
      <3> QED
        BY <1>1
    <2> HIDE DEF B, R, d
    <2> QED
      BY <2>1, <2>2
  <1>3. R \in [Tables -> SUBSET Rows]
    BY ExpectedRows
  <1> HIDE DEF d
  <1>4. d.version = v /\ d.tables = T /\ d.events = j /\ d.projection = Len(j) /\ d.rows = R
    BY <1>2
  <1>5. d \in Databases
    <2> HIDE DEF R
    <2> QED
      BY <1>2, <1>3 DEF Databases, Rows
  <1>6. Sound(d)
    BY <1>4 DEF Sound
  <1> QED
    BY <1>4, <1>5, <1>6 DEF d

\* So is the file a create leaves: an empty journal and no table yet.
LEMMA NewFileSound ==
  /\ NewFile \in Databases /\ Sound(NewFile)
  /\ NewFile.version = 0 /\ NewFile.tables = {} /\ NewFile.events = <<>>
  <1>1. PICK j \in Histories : j = <<>>
    BY StoreAssumption
  <1>2. j \in Seq(Events) /\ Replays(j)
    BY StoreAssumption
  <1>3. PICK v \in Nat : v = 0
    OBVIOUS
  <1>4. PICK T \in SUBSET Tables : T = {}
    OBVIOUS
  <1>5. NewFile = UnderSchema(j, v, T)
    BY <1>1, <1>3, <1>4 DEF NewFile, UnderSchema
  <1>6. UnderSchema(j, v, T) \in Databases /\ Sound(UnderSchema(j, v, T))
    <2> HIDE <1>1, <1>3, <1>4, <1>5
    <2> QED
      BY <1>2, DatabaseSound
  <1>7. /\ UnderSchema(j, v, T).version = v /\ UnderSchema(j, v, T).tables = T
        /\ UnderSchema(j, v, T).events = j
    <2> HIDE <1>1, <1>3, <1>4, <1>5
    <2> QED
      BY <1>2, DatabaseSound
  <1> QED
    BY <1>1, <1>3, <1>4, <1>5, <1>6, <1>7

\* None is neither a connection nor a database.
LEMMA NoneApart == None \notin Conns /\ None \notin Databases
  BY StoreAssumption

\* The program starts without a file or with a sound one.
LEMMA InvInit == Init => TypeOK /\ Inv
  <1> SUFFICES ASSUME Init PROVE TypeOK /\ Inv
    OBVIOUS
  <1>1. db = None \/ (db \in Databases /\ Sound(db) /\ SchemaOk(db))
    <2>1. ASSUME NEW j \in Histories, NEW v \in Versions, db = DatabaseAt(j, v)
          PROVE  db \in Databases /\ Sound(db) /\ SchemaOk(db)
      <3>1. j \in Seq(Events) /\ Replays(j) /\ v \in 3..StoreSchemaVersion /\ v \in Nat
        BY StoreAssumption DEF Migratable, StoreSchemaVersion
      <3>2. TablesAt(v) \in SUBSET Tables
        BY DEF TablesAt
      <3>3. db \in Databases /\ Sound(db) /\ db.version = v /\ db.tables = TablesAt(v)
        <4>1. db = UnderSchema(j, v, TablesAt(v))
          BY <2>1 DEF DatabaseAt, UnderSchema
        <4> QED
          BY <3>1, <3>2, <4>1, DatabaseSound
      <3> QED
        BY <3>1, <3>3 DEF SchemaOk
    <2> QED
      BY <2>1 DEF Init
  <1>2. /\ writer = None /\ stage = 1 /\ damaged = FALSE
        /\ pc = [c \in Conns |-> "Down"] /\ read = [c \in Conns |-> None]
        /\ pending = [c \in Conns |-> None] /\ cache = [c \in Conns |-> None]
        /\ foreign = [c \in Conns |-> FALSE]
        /\ held = [c \in Conns |-> [head |-> None, receiptHead |-> 0]]
    BY DEF Init
  <1>3. TypeOK
    <2>1. stage \in 1..Len(Stages) + 1
      BY <1>2, StageTables
    <2>2. cache = [c \in Conns |-> cache[c]] /\ DOMAIN cache = Conns
      BY <1>2
    <2>3. held \in [Conns -> [head : Nat \cup {None}, receiptHead : Nat]]
      BY <1>2
    <2> QED
      BY <1>1, <1>2, <2>1, <2>2, <2>3 DEF TypeOK
  <1>4. SchemaInv
    BY <1>1, <1>2 DEF SchemaInv, Open
  <1>5. DataInv
    BY <1>1, <1>2 DEF DataInv
  <1>6. CacheInv
    BY <1>2 DEF CacheInv
  <1>7. WriterInv
    BY <1>2, NoneApart DEF WriterInv
  <1> QED
    BY <1>3, <1>4, <1>5, <1>6, <1>7 DEF Inv

-----------------------------------------------------------------------------
(* Every step keeps it: opening *)

\* The index of a journal names its length and its last receipt.
LEMMA IxHead ==
  ASSUME NEW j \in Seq(Events)
  PROVE  Ix(j).head = Len(j) /\ Ix(j).head \in Nat /\ Ix(j).receiptHead \in Nat
         /\ Ix(j).receiptHead = Latest(Of(j, "VerificationRecorded"))
  <1>1. Ix(j).head = Len(j)
    BY DEF Ix, IndexOf, Database
  <1>2. Of(j, "VerificationRecorded") \in SUBSET (1..Len(j))
    BY DEF Of
  <1>3. Latest(Of(j, "VerificationRecorded")) \in Nat
    BY <1>2, LatestOf
  <1> QED
    BY <1>1, <1>3, ReceiptSeqs

\* A connection that is open or about to be finds the audit passing until the data
\* is damaged, and never after.
LEMMA AuditNow ==
  ASSUME TypeOK, Inv, NEW c \in Conns, pc[c] \in {"Audit"} \cup Open
  PROVE  /\ db \in Databases
         /\ AuditOk(db) <=> ~damaged
         /\ ~damaged => Sound(db) /\ db.events \in Seq(Events) /\ IndexOf(db) = Ix(db.events)
  <1>1. db # None
    BY DEF Inv, SchemaInv, Open
  <1>2. db \in Databases
    BY <1>1 DEF TypeOK
  <1>3. db.version = StoreSchemaVersion /\ SchemaOk(db)
    BY <1>1 DEF Inv, SchemaInv
  <1>4. db.tables = Tables
    BY <1>3, TablesGrow DEF SchemaOk, StoreSchemaVersion
  <1>5. ~damaged => Sound(db)
    BY <1>1 DEF Inv, DataInv
  <1>6. damaged => ~DataOk(db)
    BY DEF Inv, DataInv
  <1>7. AuditOk(db) <=> ~damaged
    BY <1>4, <1>5, <1>6, AuditParts, SoundAudit
  <1> QED
    BY <1>2, <1>5, <1>7, SoundIndex DEF Sound

\* ensure_verified_cache gives the index of the stored journal, or nothing once
\* the data is damaged.
LEMMA VerifiedIs ==
  ASSUME TypeOK, Inv, NEW c \in Conns, pc[c] = "Idle"
  PROVE  Verified(c) = IF damaged THEN None ELSE Ix(db.events)
  <1>1. pc[c] \in {"Audit"} \cup Open
    BY DEF Open
  <1>2. /\ AuditOk(db) <=> ~damaged
        /\ ~damaged => IndexOf(db) = Ix(db.events)
    BY <1>1, AuditNow
  <1>3. CASE CacheCurrent(c)
    <2>1. cache[c] # None /\ ~foreign[c]
      BY <1>3 DEF CacheCurrent
    <2>2. ~damaged
      BY <2>1 DEF Inv, DataInv
    <2>3. cache[c] = Ix(db.events)
      BY <2>1 DEF Inv, CacheInv, CacheOk
    <2> QED
      BY <1>3, <2>2, <2>3 DEF Verified
  <1>4. CASE ~CacheCurrent(c)
    BY <1>2, <1>4 DEF Verified
  <1> QED
    BY <1>3, <1>4

\* CreateFile.
LEMMA CreateFileKeeps ==
  ASSUME TypeOK, Inv, NEW c \in Conns, CreateFile(c)
  PROVE  TypeOK' /\ Inv'
  <1>1. /\ db = None /\ db' = NewFile /\ writer = None
        /\ foreign' = [o \in Conns |-> foreign[o] \/ (NewFile # db /\ o # c /\ cache[o] # None)]
        /\ UNCHANGED <<damaged, writer, draft, stage, pending, cache, held, read>>
        /\ pc' = [pc EXCEPT ![c] = "Reserved"]
    BY DEF CreateFile, CommitNow, At, writeVars
  <1>2. \A o \in Conns : pc[o] = "Down" /\ cache[o] = None
    BY <1>1 DEF Inv, SchemaInv, CacheInv, CacheOk, Open
  <1>3. NewFile \in Databases /\ Sound(NewFile) /\ NewFile.version = 0 /\ NewFile.tables = {}
    BY NewFileSound
  <1>4. ~damaged
    BY <1>1 DEF Inv, DataInv
  <1>5. foreign' = foreign
    BY <1>1, <1>2 DEF TypeOK
  <1>6. \A o \in Conns : pc'[o] \in {"Down", "Reserved"}
    BY <1>1, <1>2 DEF TypeOK
  <1>7. TypeOK'
    BY <1>1, <1>3, <1>5 DEF TypeOK, Opening
  <1>8. SchemaInv'
    BY <1>1, <1>3, <1>6, NoneApart DEF SchemaInv, SchemaOk, Open
  <1>9. DataInv'
    BY <1>1, <1>3, <1>4, <1>5 DEF DataInv
  <1>10. CacheInv'
    BY <1>1, <1>2 DEF CacheInv
  <1>11. WriterInv'
    BY <1>1, <1>6, NoneApart DEF WriterInv
  <1> QED
    BY <1>7, <1>8, <1>9, <1>10, <1>11 DEF Inv

\* A connection that is still opening may change the schema, not the data.
LEMMA SchemaStepKeeps ==
  ASSUME TypeOK, Inv, NEW c \in Conns, NEW d \in Databases, db \in Databases, CommitNow(c, d),
         d.events = db.events, d.projection = db.projection, d.rows = db.rows,
         NEW at \in Opening \cup {"Refused"}, At(c, at), pc[c] \in Opening, UNCHANGED read
  PROVE  TypeOK' /\ DataInv' /\ CacheInv' /\ WriterInv'
  <1>1. /\ db' = d /\ writer = None
        /\ foreign' = [o \in Conns |-> foreign[o] \/ (d # db /\ o # c /\ cache[o] # None)]
        /\ UNCHANGED <<damaged, writer, draft, stage, pending, cache, held, read>>
        /\ pc' = [pc EXCEPT ![c] = at]
    BY DEF CommitNow, At, writeVars
  <1>2. \A o \in Conns : foreign[o] => foreign'[o]
    BY <1>1
  <1>3. at \notin Open /\ pc[c] \notin Open
    BY DEF Opening, Open
  <1>4. \A o \in Conns : pc'[o] = IF o = c THEN at ELSE pc[o]
    BY <1>1 DEF TypeOK
  <1>5. foreign' \in [Conns -> BOOLEAN]
    BY <1>1 DEF TypeOK
  <1>6. TypeOK'
    BY <1>1, <1>5 DEF TypeOK, Opening
  <1>7. DataInv'
    <2>1. db # None /\ d # None
      BY NoneApart
    <2>2. (Sound(d) <=> Sound(db)) /\ (DataOk(d) <=> DataOk(db))
      BY SameData
    <2> QED
      BY <1>1, <1>2, <2>1, <2>2 DEF Inv, DataInv
  <1>8. CacheInv'
    <2>1. SUFFICES ASSUME NEW o \in Conns, cache[o] # None
                   PROVE  CacheOk(o)'
      BY <1>1 DEF CacheInv
    <2>2. o # c /\ pc[o] \in Open
      BY <1>3, <2>1 DEF Inv, CacheInv, CacheOk
    <2>3. pc'[o] = pc[o]
      BY <1>4, <2>2
    <2> QED
      BY <1>1, <1>2, <2>1, <2>2, <2>3 DEF Inv, CacheInv, CacheOk
  <1>9. WriterInv'
    <2>1. \A o \in Conns : pc[o] # "Writing" /\ writer # o
      BY <1>1, NoneApart DEF Inv, WriterInv
    <2>2. at # "Writing" /\ at # "Committed"
      BY <1>3 DEF Open
    <2> QED
      BY <1>1, <1>4, <2>1, <2>2 DEF Inv, WriterInv
  <1> QED
    BY <1>6, <1>7, <1>8, <1>9

\* ReadVersion.
LEMMA ReadVersionKeeps ==
  ASSUME TypeOK, Inv, NEW c \in Conns, ReadVersion(c)
  PROVE  TypeOK' /\ Inv'
  <1> DEFINE at == IF db.version = 0 THEN "Schema"
                   ELSE IF pc[c] = "Reserved" THEN "Down"
                   ELSE IF db.version \in Migratable THEN "Migrate"
                   ELSE IF db.version = StoreSchemaVersion THEN "Audit" ELSE "Refused"
  <1>1. /\ pc[c] \in {"Down", "Reserved"} /\ db # None
        /\ read' = [read EXCEPT ![c] = db.version]
        /\ pc' = [pc EXCEPT ![c] = at]
        /\ UNCHANGED <<db, damaged, writer, draft, stage, pending, cache, foreign, held>>
    BY DEF ReadVersion, At, dbVars, writeVars
  <1>2. db \in Databases /\ SchemaOk(db) /\ db.version \in Nat
    BY <1>1 DEF TypeOK, Inv, SchemaInv, Databases
  <1>3. at \in {"Schema", "Down", "Migrate", "Audit"}
    BY <1>2 DEF SchemaOk, Migratable, StoreSchemaVersion
  <1>4. \A o \in Conns : pc'[o] = IF o = c THEN at ELSE pc[o]
    BY <1>1 DEF TypeOK
  <1>5. \A o \in Conns : read'[o] = IF o = c THEN db.version ELSE read[o]
    BY <1>1 DEF TypeOK
  <1>6. /\ at = "Schema" => db.version = 0
        /\ at = "Migrate" => db.version \in Migratable
        /\ at = "Audit" => db.version = StoreSchemaVersion
    BY <1>2 DEF SchemaOk, Migratable, StoreSchemaVersion
  <1> HIDE DEF at
  <1>7. TypeOK'
    <2>1. pc' \in [Conns -> {"Down", "Refused"} \cup Opening \cup Open]
      BY <1>1, <1>3 DEF TypeOK, Opening
    <2>2. read' \in [Conns -> Nat \cup {None}]
      BY <1>1, <1>2 DEF TypeOK
    <2> QED
      BY <1>1, <2>1, <2>2 DEF TypeOK
  <1>8. SchemaInv'
    <2>1. ASSUME NEW o \in Conns
          PROVE  /\ pc'[o] \in {"Schema", "Version"} => db.version \in {0, StoreSchemaVersion}
                 /\ pc'[o] = "Version" => db.tables = Tables
                 /\ pc'[o] = "Migrate" => read'[o] \in Migratable /\ db.version >= read'[o]
                 /\ pc'[o] \in {"Audit"} \cup Open => db.version = StoreSchemaVersion
                 /\ pc'[o] = "Refused" => damaged
      <3>1. CASE o = c
        BY <1>2, <1>3, <1>4, <1>5, <1>6, <3>1 DEF Open
      <3>2. CASE o # c
        BY <1>4, <1>5, <3>2 DEF Inv, SchemaInv
      <3> QED
        BY <3>1, <3>2
    <2> QED
      BY <1>1, <1>2, <2>1 DEF SchemaInv
  <1>9. DataInv'
    BY <1>1 DEF Inv, DataInv
  <1>10. CacheInv'
    <2>1. SUFFICES ASSUME NEW o \in Conns, cache[o] # None
                   PROVE  CacheOk(o)'
      BY <1>1 DEF CacheInv
    <2>2. pc'[o] = pc[o]
      BY <1>1, <1>4, <2>1 DEF Inv, CacheInv, CacheOk, Open
    <2> QED
      BY <1>1, <2>1, <2>2 DEF Inv, CacheInv, CacheOk
  <1>11. WriterInv'
    <2>1. \A o \in Conns : (pc'[o] = "Writing" <=> pc[o] = "Writing")
                           /\ (pc'[o] = "Committed" <=> pc[o] = "Committed")
      BY <1>1, <1>3, <1>4
    <2> QED
      BY <1>1, <2>1 DEF Inv, WriterInv, Prepared
  <1> QED
    BY <1>7, <1>8, <1>9, <1>10, <1>11 DEF Inv

\* CreateSchema.
LEMMA CreateSchemaKeeps ==
  ASSUME TypeOK, Inv, NEW c \in Conns, CreateSchema(c)
  PROVE  TypeOK' /\ Inv'
  <1> DEFINE d == [db EXCEPT !.tables = Tables]
  <1>1. pc[c] = "Schema" /\ CommitNow(c, d) /\ At(c, "Version") /\ UNCHANGED read
    BY DEF CreateSchema
  <1>2. db # None /\ db.version \in {0, StoreSchemaVersion}
    BY <1>1 DEF Inv, SchemaInv
  <1>3. db \in Databases
    BY <1>2 DEF TypeOK
  <1>4. d \in Databases /\ d.events = db.events /\ d.projection = db.projection
        /\ d.rows = db.rows /\ d.version = db.version /\ d.tables = Tables
    BY <1>3 DEF Databases
  <1>5. db' = d /\ damaged' = damaged /\ pc' = [pc EXCEPT ![c] = "Version"] /\ read' = read
    BY <1>1 DEF CommitNow, At
  <1> HIDE DEF d
  <1>6. "Version" \in Opening \cup {"Refused"} /\ pc[c] \in Opening
    BY <1>1 DEF Opening
  <1>7. TypeOK' /\ DataInv' /\ CacheInv' /\ WriterInv'
    BY <1>1, <1>3, <1>4, <1>6, SchemaStepKeeps
  <1>8. SchemaInv'
    <2>1. SchemaOk(d)
      BY <1>2, <1>4, TablesGrow DEF SchemaOk, StoreSchemaVersion
    <2>2. \A o \in Conns : pc'[o] = IF o = c THEN "Version" ELSE pc[o]
      BY <1>5 DEF TypeOK
    <2>3. \A o \in Conns : o # c =>
            /\ pc[o] \in {"Schema", "Version"} => db.version \in {0, StoreSchemaVersion}
            /\ pc[o] = "Migrate" => read[o] \in Migratable /\ db.version >= read[o]
            /\ pc[o] \in {"Audit"} \cup Open => db.version = StoreSchemaVersion
            /\ pc[o] = "Refused" => damaged
      BY DEF Inv, SchemaInv
    <2> QED
      BY <1>2, <1>4, <1>5, <2>1, <2>2, <2>3, NoneApart DEF SchemaInv, Open
  <1> QED
    BY <1>7, <1>8 DEF Inv

\* SetVersion.
LEMMA SetVersionKeeps ==
  ASSUME TypeOK, Inv, NEW c \in Conns, SetVersion(c)
  PROVE  TypeOK' /\ Inv'
  <1> DEFINE d == [db EXCEPT !.version = StoreSchemaVersion]
  <1>1. pc[c] = "Version" /\ CommitNow(c, d) /\ At(c, "Audit") /\ UNCHANGED read
    BY DEF SetVersion
  <1>2. db # None /\ db.version \in {0, StoreSchemaVersion} /\ db.tables = Tables
    BY <1>1 DEF Inv, SchemaInv
  <1>3. db \in Databases
    BY <1>2 DEF TypeOK
  <1>4. d \in Databases /\ d.events = db.events /\ d.projection = db.projection
        /\ d.rows = db.rows /\ d.version = StoreSchemaVersion /\ d.tables = Tables
    BY <1>2, <1>3 DEF Databases, StoreSchemaVersion
  <1>5. db' = d /\ damaged' = damaged /\ pc' = [pc EXCEPT ![c] = "Audit"] /\ read' = read
    BY <1>1 DEF CommitNow, At
  <1> HIDE DEF d
  <1>6. "Audit" \in Opening \cup {"Refused"} /\ pc[c] \in Opening
    BY <1>1 DEF Opening
  <1>7. TypeOK' /\ DataInv' /\ CacheInv' /\ WriterInv'
    BY <1>1, <1>3, <1>4, <1>6, SchemaStepKeeps
  <1>8. SchemaInv'
    <2>1. SchemaOk(d)
      BY <1>4, TablesGrow DEF SchemaOk, StoreSchemaVersion
    <2>2. \A o \in Conns : pc'[o] = IF o = c THEN "Audit" ELSE pc[o]
      BY <1>5 DEF TypeOK
    <2>3. \A o \in Conns :
            /\ pc[o] = "Migrate" => read[o] \in Migratable
            /\ pc[o] = "Refused" => damaged
      BY DEF Inv, SchemaInv
    <2>4. \A r \in Migratable : StoreSchemaVersion >= r
      BY DEF Migratable, StoreSchemaVersion
    <2> QED
      BY <1>4, <1>5, <2>1, <2>2, <2>3, <2>4, NoneApart DEF SchemaInv, Open
  <1> QED
    BY <1>7, <1>8 DEF Inv

\* Migrate.
LEMMA MigrateKeeps ==
  ASSUME TypeOK, Inv, NEW c \in Conns, Migrate(c)
  PROVE  TypeOK' /\ Inv'
  <1> DEFINE ok == Migrates(db, read[c])
             m == Migrated(db, read[c])
             d == IF ok THEN m ELSE db
             at == IF ok THEN "Audit" ELSE "Refused"
  <1>1. pc[c] = "Migrate" /\ CommitNow(c, d) /\ At(c, at) /\ UNCHANGED read
    BY DEF Migrate
  <1>2. db # None /\ read[c] \in Migratable /\ db.version >= read[c] /\ SchemaOk(db)
    BY <1>1 DEF Inv, SchemaInv
  <1>3. db \in Databases
    BY <1>2 DEF TypeOK
  <1>4. /\ m \in Databases /\ m.version = StoreSchemaVersion /\ m.tables = Tables
        /\ m.events = db.events /\ m.projection = db.projection /\ m.rows = db.rows
        /\ Sound(db) => ok
    BY <1>2, <1>3, MigrationFits
  <1>5. db' = d /\ damaged' = damaged /\ pc' = [pc EXCEPT ![c] = at] /\ read' = read
    BY <1>1 DEF CommitNow, At
  <1>6. ok \in BOOLEAN
    BY DEF Migrates
  <1> HIDE DEF m, ok
  <1>7. d \in Databases /\ d.events = db.events /\ d.projection = db.projection
        /\ d.rows = db.rows /\ (ok => d = m) /\ (~ok => d = db)
    BY <1>3, <1>4
  <1>8. at \in Opening \cup {"Refused"} /\ pc[c] \in Opening
        /\ (ok => at = "Audit") /\ (~ok => at = "Refused")
    BY <1>1 DEF Opening
  <1> HIDE DEF d, at
  <1>9. TypeOK' /\ DataInv' /\ CacheInv' /\ WriterInv'
    BY <1>1, <1>3, <1>7, <1>8, SchemaStepKeeps
  <1>10. SchemaInv'
    <2>1. \A o \in Conns : pc'[o] = IF o = c THEN at ELSE pc[o]
      BY <1>5 DEF TypeOK
    <2>2. CASE ok
      <3>1. SchemaOk(m)
        BY <1>4, TablesGrow DEF SchemaOk, StoreSchemaVersion
      <3>2. \A o \in Conns :
              /\ pc[o] = "Migrate" => read[o] \in Migratable
              /\ pc[o] = "Refused" => damaged
        BY DEF Inv, SchemaInv
      <3>3. \A r \in Migratable : StoreSchemaVersion >= r
        BY DEF Migratable, StoreSchemaVersion
      <3>4. db' = m /\ db'.version = StoreSchemaVersion /\ db'.tables = Tables /\ m # None
            /\ SchemaOk(db')
        BY <1>4, <1>5, <1>7, <2>2, <3>1, NoneApart
      <3>5. \A o \in Conns : pc'[o] = IF o = c THEN "Audit" ELSE pc[o]
        BY <1>8, <2>1, <2>2
      <3> QED
        BY <1>5, <3>2, <3>3, <3>4, <3>5 DEF SchemaInv, Open
    <2>3. CASE ~ok
      <3>1. damaged
        BY <1>2, <1>4, <2>3 DEF Inv, DataInv
      <3>2. db' = db
        BY <1>5, <1>7, <2>3
      <3>3. \A o \in Conns : pc'[o] = IF o = c THEN "Refused" ELSE pc[o]
        BY <1>8, <2>1, <2>3
      <3> QED
        BY <1>2, <1>5, <3>1, <3>2, <3>3 DEF Inv, SchemaInv, Open
    <2> QED
      BY <2>2, <2>3
  <1> QED
    BY <1>9, <1>10 DEF Inv

-----------------------------------------------------------------------------
(* Every step keeps it: reading *)

\* A connection that installs what an audit gave it, or drops its index, keeps it.
LEMMA LookKeeps ==
  ASSUME TypeOK, Inv, NEW c \in Conns, pc[c] \in {"Audit", "Idle"}, At(c, "Idle"),
         NEW ix, Install(c, ix), ix = None \/ (~damaged /\ ix = Ix(db.events)),
         UNCHANGED <<db, damaged, writer, draft, stage, pending>>,
         read' \in [Conns -> Nat \cup {None}], \A o \in Conns : o # c => read'[o] = read[o],
         held' \in [Conns -> [head : Nat \cup {None}, receiptHead : Nat]],
         \A o \in Conns : o # c => held'[o] = held[o]
  PROVE  TypeOK' /\ Inv'
  <1>1. /\ \A o \in Conns : pc'[o] = IF o = c THEN "Idle" ELSE pc[o]
        /\ \A o \in Conns : cache'[o] = IF o = c THEN ix ELSE cache[o]
        /\ \A o \in Conns : foreign'[o] = IF o = c THEN FALSE ELSE foreign[o]
    BY DEF At, Install, TypeOK
  <1>2. TypeOK'
    <2>1. pc' \in [Conns -> {"Down", "Refused"} \cup Opening \cup Open]
      BY DEF TypeOK, At, Open
    <2>2. DOMAIN cache' = Conns /\ cache' = [o \in Conns |-> cache'[o]]
      BY DEF TypeOK, Install
    <2>3. foreign' \in [Conns -> BOOLEAN]
      BY DEF TypeOK, Install
    <2> QED
      BY <2>1, <2>2, <2>3 DEF TypeOK
  <1>3. SchemaInv'
    BY <1>1 DEF Inv, SchemaInv, Open
  <1>4. DataInv'
    BY <1>1 DEF Inv, DataInv
  <1>5. CacheInv'
    <2>1. SUFFICES ASSUME NEW o \in Conns, cache'[o] # None
                   PROVE  CacheOk(o)'
      BY DEF CacheInv
    <2>2. CASE o = c
      <3>1. cache'[o] = Ix(db.events) /\ pc'[o] = "Idle" /\ ~damaged
        BY <1>1, <2>1, <2>2
      <3>2. db.events \in Seq(Events)
        BY <3>1, AuditNow DEF Open
      <3> QED
        BY <3>1, <3>2 DEF CacheOk, Open
    <2>3. CASE o # c
      <3>1. cache'[o] = cache[o] /\ foreign'[o] = foreign[o] /\ pc'[o] = pc[o]
        BY <1>1, <2>3
      <3> QED
        BY <2>1, <3>1 DEF Inv, CacheInv, CacheOk
    <2> QED
      BY <2>2, <2>3
  <1>6. WriterInv'
    <2>1. writer # c
      BY DEF Inv, WriterInv
    <2>2. \A o \in Conns : writer = o => o # c
      BY <2>1
    <2>3. \A o \in Conns : o # c =>
            pc'[o] = pc[o] /\ cache'[o] = cache[o] /\ foreign'[o] = foreign[o]
            /\ held'[o] = held[o]
      BY <1>1
    <2>4. pc'[c] = "Idle"
      BY <1>1
    <2>5. \A o \in Conns : pc'[o] = "Writing" <=> writer = o
      BY <2>1, <2>3, <2>4 DEF Inv, WriterInv
    <2>6. \A o \in Conns : pc'[o] = "Committed" => pending[o] \in Appending /\ cache'[o] # None
      BY <2>3, <2>4 DEF Inv, WriterInv
    <2>7. \A o \in Conns : writer = o =>
            /\ Prepared(o)
            /\ cache'[o] # None /\ ~foreign'[o] /\ held'[o].head = Len(db.events)
            /\ draft = DraftAt(db, pending[o], stage)
      BY <2>2, <2>3 DEF Inv, WriterInv
    <2> QED
      BY <2>5, <2>6, <2>7 DEF WriterInv, Prepared
  <1> QED
    BY <1>2, <1>3, <1>4, <1>5, <1>6 DEF Inv

\* FinishOpen.
LEMMA FinishOpenKeeps ==
  ASSUME TypeOK, Inv, NEW c \in Conns, FinishOpen(c)
  PROVE  TypeOK' /\ Inv'
  <1>1. /\ pc[c] = "Audit" /\ read' = [read EXCEPT ![c] = None]
        /\ UNCHANGED <<db, damaged, writer, draft, stage, pending, held>>
        /\ IF AuditOk(db) THEN Install(c, IndexOf(db)) /\ At(c, "Idle")
                          ELSE UNCHANGED <<cache, foreign>> /\ At(c, "Refused")
    BY DEF FinishOpen, dbVars, writeVars
  <1>2. /\ AuditOk(db) <=> ~damaged
        /\ ~damaged => IndexOf(db) = Ix(db.events)
    BY <1>1, AuditNow
  <1>3. read' \in [Conns -> Nat \cup {None}] /\ \A o \in Conns : o # c => read'[o] = read[o]
    BY <1>1 DEF TypeOK
  <1>4. CASE ~damaged
    <2>1. Install(c, Ix(db.events)) /\ At(c, "Idle")
      BY <1>1, <1>2, <1>4
    <2>2. held' \in [Conns -> [head : Nat \cup {None}, receiptHead : Nat]] /\ held' = held
      BY <1>1 DEF TypeOK
    <2> QED
      BY <1>1, <1>3, <1>4, <2>1, <2>2, LookKeeps
  <1>5. CASE damaged
    <2>1. UNCHANGED <<cache, foreign>> /\ pc' = [pc EXCEPT ![c] = "Refused"]
      BY <1>1, <1>2, <1>5 DEF At
    <2>2. \A o \in Conns : pc'[o] = IF o = c THEN "Refused" ELSE pc[o]
      BY <2>1 DEF TypeOK
    <2>3. TypeOK'
      <3>1. pc' \in [Conns -> {"Down", "Refused"} \cup Opening \cup Open]
        BY <2>1 DEF TypeOK
      <3> QED
        BY <1>1, <1>3, <2>1, <3>1 DEF TypeOK
    <2>4. SchemaInv'
      BY <1>1, <1>3, <1>5, <2>2 DEF Inv, SchemaInv, Open
    <2>5. DataInv'
      BY <1>1, <2>1 DEF Inv, DataInv
    <2>6. CacheInv'
      <3>1. SUFFICES ASSUME NEW o \in Conns, cache[o] # None
                     PROVE  CacheOk(o)'
        BY <2>1 DEF CacheInv
      <3>2. pc'[o] = pc[o]
        BY <1>1, <2>2, <3>1 DEF Inv, CacheInv, CacheOk, Open
      <3> QED
        BY <1>1, <2>1, <3>1, <3>2 DEF Inv, CacheInv, CacheOk
    <2>7. WriterInv'
      <3>1. \A o \in Conns : (pc'[o] = "Writing" <=> pc[o] = "Writing")
                             /\ (pc'[o] = "Committed" <=> pc[o] = "Committed")
        BY <1>1, <2>2
      <3> QED
        BY <1>1, <2>1, <3>1 DEF Inv, WriterInv, Prepared
    <2> QED
      BY <2>3, <2>4, <2>5, <2>6, <2>7 DEF Inv
  <1> QED
    BY <1>4, <1>5 DEF TypeOK

\* LoadCurrent, LoadVerificationSnapshot, Load and AppendRefused.
LEMMA LoadsKeep ==
  ASSUME TypeOK, Inv, NEW c \in Conns,
         LoadCurrent(c) \/ LoadVerificationSnapshot(c) \/ Load(c) \/ AppendRefused(c)
  PROVE  TypeOK' /\ Inv'
  <1> DEFINE ix == Verified(c)
             Heads == [head : Nat \cup {None}, receiptHead : Nat]
  <1>1. /\ pc[c] = "Idle"
        /\ UNCHANGED <<db, damaged, writer, draft, stage, pending, pc, read>>
    BY DEF LoadCurrent, LoadVerificationSnapshot, Load, AppendRefused, dbVars, writeVars
  <1>2. pc[c] \in {"Audit", "Idle"} /\ At(c, "Idle") /\ read' \in [Conns -> Nat \cup {None}]
        /\ \A o \in Conns : o # c => read'[o] = read[o]
    BY <1>1 DEF At, TypeOK
  <1>3. ix = IF damaged THEN None ELSE Ix(db.events)
    BY <1>1, VerifiedIs
  <1>4. /\ AuditOk(db) <=> ~damaged
        /\ ~damaged => IndexOf(db) = Ix(db.events) /\ db.events \in Seq(Events)
    BY <1>1, AuditNow DEF Open
  <1> HIDE DEF ix
  <1>5. ix # None => ix.head \in Nat /\ ix.receiptHead \in Nat
    BY <1>3, <1>4, IxHead
  <1>6. held \in [Conns -> Heads]
    BY DEF TypeOK
  <1>7. CASE LoadCurrent(c)
    <2>1. Install(c, ix) /\ held' = IF ix = None THEN held ELSE [held EXCEPT ![c].head = ix.head]
      BY <1>7 DEF LoadCurrent, ix
    <2>2. held' \in [Conns -> Heads] /\ \A o \in Conns : o # c => held'[o] = held[o]
      BY <1>5, <1>6, <2>1
    <2> QED
      BY <1>1, <1>2, <1>3, <2>1, <2>2, LookKeeps
  <1>8. CASE LoadVerificationSnapshot(c)
    <2>1. Install(c, ix)
          /\ held' = IF ix = None THEN held
                     ELSE [held EXCEPT ![c] = [head |-> ix.head, receiptHead |-> ix.receiptHead]]
      BY <1>8 DEF LoadVerificationSnapshot, ix
    <2>2. held' \in [Conns -> Heads] /\ \A o \in Conns : o # c => held'[o] = held[o]
      BY <1>5, <1>6, <2>1
    <2> QED
      BY <1>1, <1>2, <1>3, <2>1, <2>2, LookKeeps
  <1>9. CASE Load(c)
    <2>1. ~damaged /\ Install(c, Ix(db.events)) /\ held' = [held EXCEPT ![c].head = Len(db.events)]
      BY <1>4, <1>9 DEF Load
    <2>2. Len(db.events) \in Nat
      BY <1>4, <2>1
    <2>3. held' \in [Conns -> Heads] /\ \A o \in Conns : o # c => held'[o] = held[o]
      BY <1>6, <2>1, <2>2
    <2> QED
      BY <1>1, <1>2, <2>1, <2>3, LookKeeps
  <1>10. CASE AppendRefused(c)
    <2>1. Install(c, ix) /\ held' = held
      BY <1>10 DEF AppendRefused, ix
    <2>2. held' \in [Conns -> Heads] /\ \A o \in Conns : o # c => held'[o] = held[o]
      BY <1>6, <2>1
    <2> QED
      BY <1>1, <1>2, <1>3, <2>1, <2>2, LookKeeps
  <1> QED
    BY <1>7, <1>8, <1>9, <1>10

-----------------------------------------------------------------------------
(* Every step keeps it: appending *)

\* BeginAppend.
LEMMA BeginAppendKeeps ==
  ASSUME TypeOK, Inv, NEW c \in Conns, BeginAppend(c)
  PROVE  TypeOK' /\ Inv'
  <1> DEFINE ix == Verified(c)
  <1>1. /\ pc[c] = "Idle" /\ writer = None /\ Install(c, ix)
        /\ writer' = c /\ draft' = db /\ stage' = 1 /\ pc' = [pc EXCEPT ![c] = "Writing"]
        /\ UNCHANGED <<db, damaged, read, held>>
    BY DEF BeginAppend, dbVars, At
  <1>2. PICK o \in Fitting(ix, c) :
          pending' = [pending EXCEPT ![c] =
                        [event |-> o.event, given |-> o.given, prev |-> held[c].receiptHead]]
    BY DEF BeginAppend
  <1>3. ix = IF damaged THEN None ELSE Ix(db.events)
    BY <1>1, VerifiedIs
  <1> HIDE DEF ix
  <1>4. ~damaged /\ ix = Ix(db.events) /\ ix # None /\ o \in Candidates
        /\ Fits(ix, held[c], o.event)
    BY <1>2, <1>3 DEF Fitting
  <1>5. db \in Databases /\ Sound(db) /\ db.events \in Seq(Events)
    BY <1>1, <1>4, AuditNow DEF Open
  <1>6. ix.head = Len(db.events)
        /\ ix.receiptHead = Latest(Of(db.events, "VerificationRecorded"))
    BY <1>4, <1>5, IxHead
  <1>7. /\ held[c].head = Len(db.events) /\ Accepts(db.events, o.event)
        /\ o.event.kind = "VerificationRecorded" =>
             held[c].receiptHead = Latest(Of(db.events, "VerificationRecorded"))
    BY <1>4, <1>6 DEF Fits, CandidateFits, ReceiptFits
  <1>8. o.event \in Events /\ o.given \in SUBSET Tables /\ Appendable(o.event, o.given)
    BY <1>4 DEF Candidates
  <1> DEFINE p == [event |-> o.event, given |-> o.given, prev |-> held[c].receiptHead]
  <1>9. held[c].receiptHead \in Nat
    BY DEF TypeOK
  <1>10. p \in Appending /\ p.event = o.event /\ p.given = o.given
         /\ p.prev = held[c].receiptHead
    BY <1>8, <1>9 DEF Appending
  <1>11. pending' = [pending EXCEPT ![c] = p]
    BY <1>2
  <1> HIDE DEF p
  <1>12. /\ \A d \in Conns : pc'[d] = IF d = c THEN "Writing" ELSE pc[d]
         /\ \A d \in Conns : cache'[d] = IF d = c THEN ix ELSE cache[d]
         /\ \A d \in Conns : foreign'[d] = IF d = c THEN FALSE ELSE foreign[d]
         /\ \A d \in Conns : pending'[d] = IF d = c THEN p ELSE pending[d]
    BY <1>1, <1>11 DEF TypeOK, Install
  <1>13. TypeOK'
    <2>1. pc' \in [Conns -> {"Down", "Refused"} \cup Opening \cup Open]
      BY <1>1 DEF TypeOK, Open
    <2>2. DOMAIN cache' = Conns /\ cache' = [d \in Conns |-> cache'[d]]
      BY <1>1 DEF TypeOK, Install
    <2>3. foreign' \in [Conns -> BOOLEAN]
      BY <1>1 DEF TypeOK, Install
    <2>4. pending' \in [Conns -> Appending \cup {None}]
      BY <1>10, <1>11 DEF TypeOK
    <2>5. stage' \in 1..Len(Stages) + 1
      BY <1>1, StageTables
    <2> QED
      BY <1>1, <2>1, <2>2, <2>3, <2>4, <2>5 DEF TypeOK
  <1>14. SchemaInv'
    BY <1>1, <1>12 DEF Inv, SchemaInv, Open
  <1>15. DataInv'
    BY <1>1, <1>4 DEF Inv, DataInv
  <1>16. CacheInv'
    <2>1. SUFFICES ASSUME NEW d \in Conns, cache'[d] # None
                   PROVE  CacheOk(d)'
      BY DEF CacheInv
    <2>2. CASE d = c
      BY <1>1, <1>4, <1>5, <1>12, <2>2 DEF CacheOk, Open
    <2>3. CASE d # c
      <3>1. cache'[d] = cache[d] /\ foreign'[d] = foreign[d] /\ pc'[d] = pc[d]
            /\ pending'[d] = pending[d]
        BY <1>12, <2>3
      <3> QED
        BY <1>1, <2>1, <3>1 DEF Inv, CacheInv, CacheOk
    <2> QED
      BY <2>2, <2>3
  <1>17. WriterInv'
    <2>1. \A d \in Conns : pc'[d] = "Writing" <=> writer' = d
      BY <1>1, <1>12, NoneApart DEF Inv, WriterInv
    <2>2. \A d \in Conns : pc'[d] = "Committed" => pending'[d] \in Appending /\ cache'[d] # None
      BY <1>12 DEF Inv, WriterInv
    <2>3. Prepared(c)'
      BY <1>1, <1>7, <1>8, <1>10, <1>12 DEF Prepared
    <2>4. db = DraftAt(db, p, 1)
      <3>1. \A t \in Tables : ~(1 > PlaceOf[t])
        BY StageTables
      <3>2. RowsAt(db, p, 1) = db.rows
        BY <1>5, <3>1 DEF RowsAt, Databases
      <3>3. DraftAt(db, p, 1) = [version |-> db.version, tables |-> db.tables,
                                 events |-> db.events, projection |-> db.projection,
                                 rows |-> db.rows]
        BY <3>2 DEF DraftAt
      <3> QED
        BY <1>5, <3>3 DEF Databases
    <2>5. draft' = DraftAt(db, pending[c], stage)'
      BY <1>1, <1>12, <2>4
    <2> QED
      BY <1>1, <1>4, <1>7, <1>12, <2>1, <2>2, <2>3, <2>5 DEF WriterInv
  <1> QED
    BY <1>13, <1>14, <1>15, <1>16, <1>17 DEF Inv

\* The writer has its place: nothing is damaged while it writes.
LEMMA WriterNow ==
  ASSUME TypeOK, Inv, NEW c \in Conns, writer = c
  PROVE  /\ pc[c] = "Writing" /\ ~damaged /\ db \in Databases /\ Sound(db)
         /\ db.events \in Seq(Events) /\ Prepared(c) /\ pending[c] \in Appending
         /\ cache[c] # None /\ ~foreign[c] /\ cache[c] = Ix(db.events)
         /\ held[c].head = Len(db.events) /\ draft = DraftAt(db, pending[c], stage)
  <1>1. /\ pc[c] = "Writing" /\ Prepared(c) /\ cache[c] # None /\ ~foreign[c]
        /\ held[c].head = Len(db.events) /\ draft = DraftAt(db, pending[c], stage)
    BY DEF Inv, WriterInv
  <1>2. ~damaged
    BY NoneApart DEF Inv, DataInv
  <1>3. db \in Databases /\ Sound(db) /\ db.events \in Seq(Events)
    BY <1>1, <1>2, AuditNow DEF Open
  <1>4. cache[c] = Ix(db.events)
    BY <1>1 DEF Inv, CacheInv, CacheOk
  <1> QED
    BY <1>1, <1>2, <1>3, <1>4 DEF Prepared

\* WriteStage.
LEMMA WriteStageKeeps ==
  ASSUME TypeOK, Inv, NEW c \in Conns, WriteStage(c)
  PROVE  TypeOK' /\ Inv'
  <1>1. /\ writer = c /\ stage <= Len(Stages)
        /\ draft' = Written(draft, Stages[stage], pending[c]) /\ stage' = stage + 1
        /\ UNCHANGED <<db, damaged, writer, pending, pc, read, cache, foreign, held>>
    BY DEF WriteStage, dbVars
  <1>2. stage \in 1..9 /\ stage' \in 1..Len(Stages) + 1
    BY <1>1, StageTables DEF TypeOK
  <1>3. db \in Databases /\ pending[c] \in Appending /\ draft = DraftAt(db, pending[c], stage)
        /\ Appendable(pending[c].event, pending[c].given)
    BY <1>1, WriterNow DEF Prepared
  <1>4. draft' = DraftAt(db, pending[c], stage + 1)
    BY <1>1, <1>2, <1>3, StageWrites
  <1>5. TypeOK'
    BY <1>1, <1>2 DEF TypeOK
  <1>6. SchemaInv' /\ DataInv'
    BY <1>1 DEF Inv, SchemaInv, DataInv
  <1>7. CacheInv'
    BY <1>1 DEF Inv, CacheInv, CacheOk
  <1>8. WriterInv'
    <2>1. \A d \in Conns : writer = d => d = c
      BY <1>1
    <2>2. Prepared(c)' /\ cache'[c] # None /\ ~foreign'[c] /\ held'[c].head = Len(db'.events)
      BY <1>1 DEF Inv, WriterInv, Prepared
    <2>3. draft' = DraftAt(db', pending'[c], stage')
      BY <1>1, <1>4
    <2>4. \A d \in Conns : pc'[d] = "Writing" <=> writer' = d
      BY <1>1 DEF Inv, WriterInv
    <2>5. \A d \in Conns : pc'[d] = "Committed" => pending'[d] \in Appending /\ cache'[d] # None
      BY <1>1 DEF Inv, WriterInv
    <2> QED
      BY <1>1, <2>1, <2>2, <2>3, <2>4, <2>5 DEF WriterInv
  <1> QED
    BY <1>5, <1>6, <1>7, <1>8 DEF Inv

\* Whatever a connection held, it may drop it: StageFails and Crash.
LEMMA DropKeeps ==
  ASSUME TypeOK, Inv, NEW c \in Conns, NEW at \in {"Down", "Idle"}, At(c, at),
         at = "Idle" => pc[c] = "Writing", Install(c, None),
         pending' = [pending EXCEPT ![c] = None],
         IF writer = c THEN EndWrite(c) ELSE UNCHANGED <<writer, draft, stage>>,
         UNCHANGED <<db, damaged>>, read' \in [Conns -> Nat \cup {None}],
         \A o \in Conns : o # c => read'[o] = read[o],
         held' \in [Conns -> [head : Nat \cup {None}, receiptHead : Nat]],
         \A o \in Conns : o # c => held'[o] = held[o]
  PROVE  TypeOK' /\ Inv'
  <1>1. /\ \A o \in Conns : pc'[o] = IF o = c THEN at ELSE pc[o]
        /\ \A o \in Conns : cache'[o] = IF o = c THEN None ELSE cache[o]
        /\ \A o \in Conns : foreign'[o] = IF o = c THEN FALSE ELSE foreign[o]
        /\ \A o \in Conns : pending'[o] = IF o = c THEN None ELSE pending[o]
    BY DEF At, Install, TypeOK
  <1>2. writer' = (IF writer = c THEN None ELSE writer)
        /\ (writer # c => draft' = draft /\ stage' = stage) /\ stage' \in 1..Len(Stages) + 1
    BY StageTables DEF EndWrite, TypeOK
  <1>3. TypeOK'
    <2>1. pc' \in [Conns -> {"Down", "Refused"} \cup Opening \cup Open]
      BY DEF TypeOK, At, Open
    <2>2. DOMAIN cache' = Conns /\ cache' = [o \in Conns |-> cache'[o]]
      BY DEF TypeOK, Install
    <2>3. foreign' \in [Conns -> BOOLEAN] /\ pending' \in [Conns -> Appending \cup {None}]
      BY DEF TypeOK, Install
    <2>4. writer' \in Conns \cup {None}
      BY <1>2 DEF TypeOK
    <2> QED
      BY <1>2, <2>1, <2>2, <2>3, <2>4 DEF TypeOK
  <1>4. SchemaInv'
    BY <1>1 DEF Inv, SchemaInv, Open
  <1>5. DataInv'
    BY <1>1, <1>2 DEF Inv, DataInv
  <1>6. CacheInv'
    <2>1. SUFFICES ASSUME NEW o \in Conns, cache'[o] # None
                   PROVE  CacheOk(o)'
      BY DEF CacheInv
    <2>2. cache'[o] = cache[o] /\ foreign'[o] = foreign[o] /\ pc'[o] = pc[o]
          /\ pending'[o] = pending[o]
      BY <1>1, <2>1
    <2> QED
      BY <2>1, <2>2 DEF Inv, CacheInv, CacheOk
  <1>7. WriterInv'
    <2>1. \A o \in Conns : pc'[o] = "Writing" <=> writer' = o
      BY <1>1, <1>2, NoneApart DEF Inv, WriterInv
    <2>2. \A o \in Conns : pc'[o] = "Committed" => pending'[o] \in Appending /\ cache'[o] # None
      BY <1>1 DEF Inv, WriterInv
    <2>3. ASSUME NEW o \in Conns, writer' = o
          PROVE  /\ Prepared(o)' /\ cache'[o] # None /\ ~foreign'[o]
                 /\ held'[o].head = Len(db'.events)
                 /\ draft' = DraftAt(db', pending'[o], stage')
      <3>1. writer = o /\ writer # c /\ o # c
        BY <1>2, <2>3, NoneApart
      <3>2. pending'[o] = pending[o] /\ cache'[o] = cache[o] /\ foreign'[o] = foreign[o]
            /\ held'[o] = held[o] /\ draft' = draft /\ stage' = stage
        BY <1>1, <1>2, <3>1
      <3> QED
        BY <3>1, <3>2 DEF Inv, WriterInv, Prepared
    <2> QED
      BY <2>1, <2>2, <2>3 DEF WriterInv
  <1> QED
    BY <1>3, <1>4, <1>5, <1>6, <1>7 DEF Inv

\* StageFails.
LEMMA StageFailsKeeps ==
  ASSUME TypeOK, Inv, NEW c \in Conns, StageFails(c)
  PROVE  TypeOK' /\ Inv'
  <1>1. /\ writer = c /\ EndWrite(c) /\ pending' = [pending EXCEPT ![c] = None]
        /\ At(c, "Idle") /\ Install(c, None) /\ UNCHANGED <<db, damaged, read, held>>
    BY DEF StageFails, dbVars
  <1>2. pc[c] = "Writing"
    BY <1>1, WriterNow
  <1>3. /\ read' \in [Conns -> Nat \cup {None}]
        /\ held' \in [Conns -> [head : Nat \cup {None}, receiptHead : Nat]]
        /\ IF writer = c THEN EndWrite(c) ELSE UNCHANGED <<writer, draft, stage>>
    BY <1>1 DEF TypeOK
  <1> QED
    BY <1>1, <1>2, <1>3, DropKeeps

\* Crash.
LEMMA CrashKeeps ==
  ASSUME TypeOK, Inv, NEW c \in Conns, Crash(c)
  PROVE  TypeOK' /\ Inv'
  <1>1. /\ At(c, "Down") /\ read' = [read EXCEPT ![c] = None] /\ Install(c, None)
        /\ held' = [held EXCEPT ![c] = [head |-> None, receiptHead |-> 0]]
        /\ pending' = [pending EXCEPT ![c] = None] /\ UNCHANGED <<db, damaged>>
        /\ IF writer = c THEN EndWrite(c) ELSE UNCHANGED <<writer, draft, stage>>
    BY DEF Crash, dbVars
  <1>2. /\ read' \in [Conns -> Nat \cup {None}] /\ \A o \in Conns : o # c => read'[o] = read[o]
        /\ held' \in [Conns -> [head : Nat \cup {None}, receiptHead : Nat]]
        /\ \A o \in Conns : o # c => held'[o] = held[o]
    BY <1>1 DEF TypeOK
  <1> QED
    BY <1>1, <1>2, DropKeeps

\* CommitDurable: what becomes durable is sound, and no other connection may reuse
\* its index.
LEMMA CommitDurableKeeps ==
  ASSUME TypeOK, Inv, NEW c \in Conns, CommitDurable(c)
  PROVE  /\ TypeOK' /\ Inv'
         /\ db'.events = Append(db.events, pending[c].event)
  <1> DEFINE p == pending[c]
             d == DraftAt(db, p, 10)
             j == db.events
  <1>1. /\ writer = c /\ stage > Len(Stages) /\ db' = draft
        /\ foreign' = [o \in Conns |-> foreign[o] \/ (o # c /\ cache[o] # None)]
        /\ writer' = None /\ draft' = None /\ stage' = 1 /\ pc' = [pc EXCEPT ![c] = "Committed"]
        /\ UNCHANGED <<damaged, pending, read, cache, held>>
    BY DEF CommitDurable, EndWrite, At
  <1>2. /\ pc[c] = "Writing" /\ ~damaged /\ db \in Databases /\ Sound(db) /\ j \in Seq(Events)
        /\ Prepared(c) /\ p \in Appending /\ cache[c] # None /\ ~foreign[c]
        /\ cache[c] = Ix(j) /\ draft = DraftAt(db, p, stage)
    BY <1>1, WriterNow
  <1>3. stage = 10
    BY <1>1, StageTables DEF TypeOK
  <1>4. /\ d \in Databases /\ Sound(d) /\ d.version = db.version /\ d.tables = db.tables
        /\ d.events = Append(j, p.event)
    BY <1>2, DraftSound DEF Prepared
  <1>5. db' = d
    BY <1>1, <1>2, <1>3
  <1>6. p.event \in Events /\ Accepts(j, p.event) /\ p.event.kind # "VerificationPassed"
        /\ (p.event.kind = "CompletionCandidateRecorded" => p.event.flag)
    BY <1>2 DEF Prepared, Appending, Appendable, ReceiptBundle, CompletionOutputBundle
  <1>7. /\ \A o \in Conns : pc'[o] = IF o = c THEN "Committed" ELSE pc[o]
        /\ \A o \in Conns : foreign'[o] = (foreign[o] \/ (o # c /\ cache[o] # None))
    BY <1>1 DEF TypeOK
  <1> HIDE DEF d
  <1>8. db # None /\ d # None
    BY <1>2, <1>4, NoneApart
  <1>9. TypeOK'
    <2>1. pc' \in [Conns -> {"Down", "Refused"} \cup Opening \cup Open]
      BY <1>1 DEF TypeOK, Open
    <2>2. foreign' \in [Conns -> BOOLEAN]
      BY <1>1 DEF TypeOK
    <2>3. stage' \in 1..Len(Stages) + 1
      BY <1>1, StageTables
    <2> QED
      BY <1>1, <1>4, <1>5, <2>1, <2>2, <2>3 DEF TypeOK
  <1>10. SchemaInv'
    <2>1. SchemaOk(db) /\ \A o \in Conns :
            /\ pc[o] \in {"Schema", "Version"} => db.version \in {0, StoreSchemaVersion}
            /\ pc[o] = "Version" => db.tables = Tables
            /\ pc[o] = "Migrate" => read[o] \in Migratable /\ db.version >= read[o]
            /\ pc[o] \in {"Audit"} \cup Open => db.version = StoreSchemaVersion
            /\ pc[o] = "Refused" => damaged
      BY <1>8 DEF Inv, SchemaInv
    <2>2. SchemaOk(d)
      BY <1>4, <2>1 DEF SchemaOk
    <2>3. db.version = StoreSchemaVersion
      BY <1>2, <2>1 DEF Open
    <2> QED
      BY <1>1, <1>4, <1>5, <1>7, <1>8, <2>1, <2>2, <2>3 DEF SchemaInv, Open
  <1>11. DataInv'
    BY <1>1, <1>2, <1>4, <1>5 DEF DataInv
  <1>12. CacheInv'
    <2>1. SUFFICES ASSUME NEW o \in Conns, cache[o] # None
                   PROVE  CacheOk(o)'
      BY <1>1 DEF CacheInv
    <2>2. CASE o = c
      <3>1. pc'[o] = "Committed" /\ cache'[o] = Ix(j) /\ pending'[o] = p
            /\ db'.events = Append(j, p.event)
        BY <1>1, <1>2, <1>4, <1>5, <1>7, <2>2
      <3> QED
        BY <1>2, <1>6, <3>1 DEF CacheOk, Open
    <2>3. CASE o # c
      <3>1. pc'[o] = pc[o] /\ cache'[o] = cache[o] /\ pending'[o] = pending[o] /\ foreign'[o]
        BY <1>1, <1>7, <2>1, <2>3
      <3> QED
        BY <2>1, <3>1 DEF Inv, CacheInv, CacheOk
    <2> QED
      BY <2>2, <2>3
  <1>13. WriterInv'
    <2>1. \A o \in Conns : o # c => pc[o] # "Writing"
      BY <1>1 DEF Inv, WriterInv
    <2>2. \A o \in Conns : pc'[o] # "Writing" /\ writer' # o
      BY <1>1, <1>7, <2>1, NoneApart
    <2>3. \A o \in Conns : pc'[o] = "Committed" => pending'[o] \in Appending /\ cache'[o] # None
      BY <1>1, <1>2, <1>7 DEF Inv, WriterInv
    <2> QED
      BY <2>2, <2>3 DEF WriterInv
  <1> QED
    BY <1>4, <1>5, <1>9, <1>10, <1>11, <1>12, <1>13 DEF Inv

\* Acknowledge: the advanced index is that of the longer journal.
LEMMA AcknowledgeKeeps ==
  ASSUME TypeOK, Inv, NEW c \in Conns, Acknowledge(c)
  PROVE  TypeOK' /\ Inv'
  <1> DEFINE e == pending[c].event
             ix == ApplyCommitted(cache[c], e)
  <1>1. /\ pc[c] = "Committed" /\ cache' = [cache EXCEPT ![c] = ix]
        /\ held' = [held EXCEPT ![c].head = cache[c].head + 1]
        /\ pending' = [pending EXCEPT ![c] = None] /\ pc' = [pc EXCEPT ![c] = "Idle"]
        /\ UNCHANGED <<db, damaged, writer, draft, stage, read, foreign>>
    BY DEF Acknowledge, dbVars, At
  <1>2. cache[c] # None /\ pending[c] \in Appending
    BY <1>1 DEF Inv, WriterInv
  <1>3. PICK j \in Seq(Events) :
          /\ cache[c] = Ix(j) /\ Accepts(j, e) /\ e.kind # "VerificationPassed"
          /\ e.kind = "CompletionCandidateRecorded" => e.flag
          /\ ~foreign[c] => db.events = Append(j, e)
    BY <1>1, <1>2 DEF Inv, CacheInv, CacheOk
  <1>4. e \in Events /\ Append(j, e) \in Seq(Events)
    BY <1>2 DEF Appending
  <1>5. ix = Ix(Append(j, e))
    BY <1>3, <1>4, IndexAdvances
  <1> HIDE DEF ix
  <1>6. cache[c].head \in Nat
    BY <1>3, IxHead
  <1>7. /\ \A o \in Conns : pc'[o] = IF o = c THEN "Idle" ELSE pc[o]
        /\ \A o \in Conns : cache'[o] = IF o = c THEN ix ELSE cache[o]
        /\ \A o \in Conns : pending'[o] = IF o = c THEN None ELSE pending[o]
        /\ \A o \in Conns : o # c => held'[o] = held[o]
    BY <1>1 DEF TypeOK
  <1>8. TypeOK'
    <2>1. pc' \in [Conns -> {"Down", "Refused"} \cup Opening \cup Open]
      BY <1>1 DEF TypeOK, Open
    <2>2. DOMAIN cache' = Conns /\ cache' = [o \in Conns |-> cache'[o]]
      BY <1>1 DEF TypeOK
    <2>3. pending' \in [Conns -> Appending \cup {None}]
      BY <1>1 DEF TypeOK
    <2>4. held' \in [Conns -> [head : Nat \cup {None}, receiptHead : Nat]]
      <3>1. PICK n \in Nat : n = cache[c].head + 1
        BY <1>6
      <3>2. held' = [held EXCEPT ![c].head = n]
        BY <1>1, <3>1
      <3> HIDE <3>1
      <3> QED
        BY <3>2, ZenonT(40) DEF TypeOK
    <2> QED
      BY <1>1, <2>1, <2>2, <2>3, <2>4 DEF TypeOK
  <1>9. SchemaInv'
    BY <1>1, <1>7 DEF Inv, SchemaInv, Open
  <1>10. DataInv'
    BY <1>1, <1>2, <1>7 DEF Inv, DataInv
  <1>11. CacheInv'
    <2>1. SUFFICES ASSUME NEW o \in Conns, cache'[o] # None
                   PROVE  CacheOk(o)'
      BY DEF CacheInv
    <2>2. CASE o = c
      <3>1. pc'[o] = "Idle" /\ cache'[o] = Ix(Append(j, e))
            /\ (~foreign'[o] => db'.events = Append(j, e))
        BY <1>1, <1>3, <1>5, <1>7, <2>2
      <3> QED
        BY <1>4, <3>1 DEF CacheOk, Open
    <2>3. CASE o # c
      <3>1. cache'[o] = cache[o] /\ pc'[o] = pc[o] /\ pending'[o] = pending[o]
        BY <1>7, <2>3
      <3> QED
        BY <1>1, <2>1, <3>1 DEF Inv, CacheInv, CacheOk
    <2> QED
      BY <2>2, <2>3
  <1>12. WriterInv'
    <2>1. writer # c
      BY <1>1 DEF Inv, WriterInv
    <2>2. \A o \in Conns : pc'[o] = "Writing" <=> writer' = o
      BY <1>1, <1>7, <2>1 DEF Inv, WriterInv
    <2>3. \A o \in Conns : pc'[o] = "Committed" => pending'[o] \in Appending /\ cache'[o] # None
      BY <1>7 DEF Inv, WriterInv
    <2>4. ASSUME NEW o \in Conns, writer' = o
          PROVE  /\ Prepared(o)' /\ cache'[o] # None /\ ~foreign'[o]
                 /\ held'[o].head = Len(db'.events)
                 /\ draft' = DraftAt(db', pending'[o], stage')
      <3>1. o # c /\ writer = o
        BY <1>1, <2>1, <2>4
      <3>2. pending'[o] = pending[o] /\ cache'[o] = cache[o] /\ held'[o] = held[o]
        BY <1>7, <3>1
      <3> QED
        BY <1>1, <3>1, <3>2 DEF Inv, WriterInv, Prepared
    <2> QED
      BY <2>2, <2>3, <2>4 DEF WriterInv
  <1> QED
    BY <1>8, <1>9, <1>10, <1>11, <1>12 DEF Inv

-----------------------------------------------------------------------------
(* Every step keeps it: the environment *)

\* Damage.
LEMMA DamageKeeps ==
  ASSUME TypeOK, Inv, Damage
  PROVE  /\ TypeOK' /\ Inv'
         /\ db.events \in Seq(Events)
         /\ db'.events = db.events \/ (db.events # <<>> /\ db'.events = Front(db.events))
  <1>1. /\ ~damaged /\ writer = None /\ db # None /\ db' \in Damaged(db) /\ damaged' = TRUE
        /\ foreign' = [c \in Conns |-> cache[c] # None]
        /\ UNCHANGED <<writer, draft, stage, pending, pc, read, cache, held>>
    BY DEF Damage, writeVars
  <1>2. db \in Databases /\ Sound(db) /\ db.events \in Seq(Events)
    BY <1>1 DEF TypeOK, Inv, DataInv, Sound
  <1>3. /\ db' \in Databases /\ ~DataOk(db') /\ db'.version = db.version
        /\ db'.tables = db.tables
        /\ db'.events = db.events \/ (db.events # <<>> /\ db'.events = Front(db.events))
    BY <1>1, <1>2, DamageShows
  <1>4. db' # None
    BY <1>3, NoneApart
  <1>5. \A c \in Conns : foreign'[c] = (cache[c] # None)
    BY <1>1
  <1>6. TypeOK'
    <2>1. foreign' \in [Conns -> BOOLEAN]
      BY <1>1
    <2> QED
      BY <1>1, <1>3, <2>1 DEF TypeOK
  <1>7. SchemaInv'
    BY <1>1, <1>3, <1>4 DEF Inv, SchemaInv, SchemaOk
  <1>8. DataInv'
    BY <1>1, <1>3, <1>4, <1>5 DEF DataInv
  <1>9. CacheInv'
    BY <1>1, <1>5 DEF Inv, CacheInv, CacheOk
  <1>10. WriterInv'
    <2>1. \A c \in Conns : pc[c] # "Writing" /\ writer # c
      BY <1>1, NoneApart DEF Inv, WriterInv
    <2> QED
      BY <1>1, <2>1 DEF Inv, WriterInv
  <1> QED
    BY <1>2, <1>3, <1>6, <1>7, <1>8, <1>9, <1>10 DEF Inv

\* OlderBinary.
LEMMA OlderBinaryKeeps ==
  ASSUME TypeOK, Inv, OlderBinary
  PROVE  TypeOK' /\ Inv' /\ db'.events = db.events /\ db' # None
  <1>1. /\ db # None /\ writer = None /\ db.version \in Migratable
        /\ UNCHANGED <<damaged, writer, draft, stage, pending, pc, read, cache, foreign, held>>
    BY DEF OlderBinary, writeVars
  <1>2. PICK v \in db.version + 1..StoreSchemaVersion - 1 :
          db' = [db EXCEPT !.version = v, !.tables = @ \cup TablesAt(v)]
    BY DEF OlderBinary
  <1>3. db \in Databases /\ SchemaOk(db)
    BY <1>1 DEF TypeOK, Inv, SchemaInv
  <1>4. v \in Nat /\ v \in 3..StoreSchemaVersion /\ v >= db.version /\ db.version \in Nat
        /\ db.version # 0 /\ db.version # StoreSchemaVersion
    BY <1>1, <1>2 DEF Migratable, StoreSchemaVersion
  <1>5. db.tables \cup TablesAt(v) = TablesAt(v) /\ TablesAt(v) \in SUBSET Tables
    <2>1. db.tables = TablesAt(db.version)
      BY <1>3, <1>4 DEF SchemaOk
    <2>2. TablesAt(db.version) \subseteq TablesAt(v)
      BY <1>4, TablesGrow
    <2> QED
      BY <2>1, <2>2 DEF TablesAt
  <1>6. /\ db' \in Databases /\ db'.version = v /\ db'.tables = TablesAt(v)
        /\ db'.events = db.events /\ db'.projection = db.projection /\ db'.rows = db.rows
    <2> DEFINE T == db.tables \cup TablesAt(v)
    <2>1. db' = [db EXCEPT !.version = v, !.tables = T] /\ T \in SUBSET Tables /\ T = TablesAt(v)
      BY <1>2, <1>3, <1>5 DEF Databases
    <2> HIDE DEF T
    <2> QED
      BY <1>3, <1>4, <2>1 DEF Databases
  <1>7. db' # None
    BY <1>6, NoneApart
  <1>8. \A c \in Conns : pc[c] \notin {"Schema", "Version", "Audit"} \cup Open
    BY <1>1, <1>4 DEF Inv, SchemaInv
  <1>9. \A c \in Conns : cache[c] = None
    BY <1>8 DEF Inv, CacheInv, CacheOk
  <1>10. TypeOK'
    BY <1>1, <1>6 DEF TypeOK
  <1>11. SchemaInv'
    <2>1. SchemaOk(db')
      BY <1>4, <1>6 DEF SchemaOk
    <2>2. \A c \in Conns : /\ pc[c] = "Migrate" => read[c] \in Migratable /\ v >= read[c]
                           /\ pc[c] = "Refused" => damaged
      BY <1>4 DEF Inv, SchemaInv, Migratable
    <2> QED
      BY <1>1, <1>6, <1>7, <1>8, <2>1, <2>2 DEF SchemaInv
  <1>12. DataInv'
    <2>1. (Sound(db') <=> Sound(db)) /\ (DataOk(db') <=> DataOk(db))
      BY <1>3, <1>6, SameData
    <2> QED
      BY <1>1, <1>7, <2>1 DEF Inv, DataInv
  <1>13. CacheInv'
    BY <1>1, <1>9 DEF CacheInv
  <1>14. WriterInv'
    <2>1. \A c \in Conns : writer # c /\ pc[c] # "Writing" /\ pc[c] # "Committed"
      BY <1>1, <1>8, NoneApart DEF Open
    <2> QED
      BY <1>1, <2>1 DEF WriterInv
  <1> QED
    BY <1>6, <1>7, <1>10, <1>11, <1>12, <1>13, <1>14 DEF Inv

\* A step that changes nothing.
LEMMA StutterKeeps ==
  ASSUME TypeOK, Inv, UNCHANGED vars
  PROVE  TypeOK' /\ Inv'
  <1>1. UNCHANGED <<db, writer, draft, stage, pc, read, pending, cache, foreign, held, damaged>>
    BY DEF vars
  <1>2. TypeOK'
    BY <1>1 DEF TypeOK
  <1>3. SchemaInv' /\ DataInv'
    BY <1>1 DEF Inv, SchemaInv, DataInv
  <1>4. CacheInv'
    BY <1>1 DEF Inv, CacheInv, CacheOk
  <1>5. WriterInv'
    BY <1>1 DEF Inv, WriterInv, Prepared
  <1> QED
    BY <1>2, <1>3, <1>4, <1>5 DEF Inv

\* Every step keeps the invariant.
LEMMA InvNext == TypeOK /\ Inv /\ [Next]_vars => TypeOK' /\ Inv'
  <1> SUFFICES ASSUME TypeOK, Inv, [Next]_vars PROVE TypeOK' /\ Inv'
    OBVIOUS
  <1>1. ASSUME NEW c \in Conns, CreateFile(c) PROVE TypeOK' /\ Inv'
    BY <1>1, CreateFileKeeps
  <1>2. ASSUME NEW c \in Conns, ReadVersion(c) PROVE TypeOK' /\ Inv'
    BY <1>2, ReadVersionKeeps
  <1>3. ASSUME NEW c \in Conns, CreateSchema(c) PROVE TypeOK' /\ Inv'
    BY <1>3, CreateSchemaKeeps
  <1>4. ASSUME NEW c \in Conns, SetVersion(c) PROVE TypeOK' /\ Inv'
    BY <1>4, SetVersionKeeps
  <1>5. ASSUME NEW c \in Conns, Migrate(c) PROVE TypeOK' /\ Inv'
    BY <1>5, MigrateKeeps
  <1>6. ASSUME NEW c \in Conns, FinishOpen(c) PROVE TypeOK' /\ Inv'
    BY <1>6, FinishOpenKeeps
  <1>7. ASSUME NEW c \in Conns,
               LoadCurrent(c) \/ LoadVerificationSnapshot(c) \/ Load(c) \/ AppendRefused(c)
        PROVE  TypeOK' /\ Inv'
    BY <1>7, LoadsKeep
  <1>8. ASSUME NEW c \in Conns, BeginAppend(c) PROVE TypeOK' /\ Inv'
    BY <1>8, BeginAppendKeeps
  <1>9. ASSUME NEW c \in Conns, WriteStage(c) PROVE TypeOK' /\ Inv'
    BY <1>9, WriteStageKeeps
  <1>10. ASSUME NEW c \in Conns, StageFails(c) PROVE TypeOK' /\ Inv'
    BY <1>10, StageFailsKeeps
  <1>11. ASSUME NEW c \in Conns, CommitDurable(c) PROVE TypeOK' /\ Inv'
    BY <1>11, CommitDurableKeeps
  <1>12. ASSUME NEW c \in Conns, Acknowledge(c) PROVE TypeOK' /\ Inv'
    BY <1>12, AcknowledgeKeeps
  <1>13. ASSUME NEW c \in Conns, Crash(c) PROVE TypeOK' /\ Inv'
    BY <1>13, CrashKeeps
  <1>14. CASE Damage
    BY <1>14, DamageKeeps
  <1>15. CASE OlderBinary
    BY <1>15, OlderBinaryKeeps
  <1>16. CASE UNCHANGED vars
    BY <1>16, StutterKeeps
  <1> QED
    BY <1>1, <1>2, <1>3, <1>4, <1>5, <1>6, <1>7, <1>8, <1>9, <1>10, <1>11, <1>12, <1>13,
       <1>14, <1>15, <1>16 DEF Next

\* The database file always has its type, and the four parts of the invariant hold:
\* what each connection may have found, read, cached and written.
THEOREM InvAlways == Spec => [](TypeOK /\ Inv)
  BY InvInit, InvNext, PTL DEF Spec

-----------------------------------------------------------------------------
(* What the runs check *)

\* However many binaries open, migrate and crash on one database, a connection
\* that is open has the current schema with every table, and none is refused.
THEOREM SchemaConvergesAlways == Spec => []SchemaConverges
  <1>1. ASSUME TypeOK, Inv PROVE SchemaConverges
    <2>1. ASSUME NEW c \in Conns, pc[c] \in Open
          PROVE  db.version = StoreSchemaVersion /\ db.tables = Tables
      <3>1. db # None /\ db.version = StoreSchemaVersion
        BY <1>1, <2>1 DEF Inv, SchemaInv, Open
      <3>2. SchemaOk(db)
        BY <1>1, <3>1 DEF Inv, SchemaInv
      <3> QED
        BY <3>1, <3>2, TablesGrow DEF SchemaOk, StoreSchemaVersion
    <2> QED
      BY <1>1, <2>1 DEF SchemaConverges, Inv, SchemaInv, Open
  <1> QED
    BY <1>1, InvAlways, PTL

\* An index that ensure_verified_cache reuses equals the one a full audit would
\* build now, and that audit would pass.
THEOREM HotIndexIsAuditedAlways == Spec => []HotIndexIsAudited
  <1>1. ASSUME TypeOK, Inv PROVE HotIndexIsAudited
    <2>1. SUFFICES ASSUME NEW c \in Conns, CacheCurrent(c), pc[c] = "Idle"
                   PROVE  AuditOk(db) /\ cache[c] = IndexOf(db)
      BY DEF HotIndexIsAudited
    <2>2. cache[c] # None /\ ~foreign[c]
      BY <2>1 DEF CacheCurrent
    <2>3. ~damaged /\ cache[c] = Ix(db.events)
      BY <1>1, <2>1, <2>2 DEF Inv, DataInv, CacheInv, CacheOk
    <2> QED
      BY <1>1, <2>1, <2>3, AuditNow DEF Open
  <1> QED
    BY <1>1, InvAlways, PTL

\* What append_internal made durable always passes the cold audit.
THEOREM CommittedIsAuditableAlways == Spec => []CommittedIsAuditable
  <1>1. ASSUME TypeOK, Inv PROVE CommittedIsAuditable
    <2>1. SUFFICES ASSUME ~damaged, db # None, db.version = StoreSchemaVersion
                   PROVE  AuditOk(db)
      BY DEF CommittedIsAuditable
    <2>2. Sound(db) /\ SchemaOk(db)
      BY <1>1, <2>1 DEF Inv, DataInv, SchemaInv
    <2>3. db.tables = Tables
      BY <2>1, <2>2, TablesGrow DEF SchemaOk, StoreSchemaVersion
    <2> QED
      BY <2>2, <2>3, SoundAudit, AuditParts
  <1> QED
    BY <1>1, InvAlways, PTL

-----------------------------------------------------------------------------
(* The refinement *)

LogOf == IF db = None THEN <<>> ELSE db.events
KnownOf ==
    [c \in Conns |-> IF pc[c] = "Committed" THEN cache[c].head + 1 ELSE held[c].head]

\* The journal starts as one of the histories.
LEMMA LogInit == Init => LogOf \in Histories
  <1> SUFFICES ASSUME Init PROVE LogOf \in Histories
    OBVIOUS
  <1>1. CASE db = None
    BY <1>1, StoreAssumption DEF LogOf
  <1>2. ASSUME NEW j \in Histories, NEW v \in Versions, db = DatabaseAt(j, v)
        PROVE  LogOf \in Histories
    <2>1. j \in Seq(Events) /\ Replays(j) /\ v \in Nat /\ TablesAt(v) \in SUBSET Tables
      BY StoreAssumption DEF Migratable, StoreSchemaVersion, TablesAt
    <2>2. db = UnderSchema(j, v, TablesAt(v))
      BY <1>2 DEF DatabaseAt, UnderSchema
    <2>3. db \in Databases /\ db.events = j
      BY <2>1, <2>2, DatabaseSound
    <2> QED
      BY <2>3, NoneApart DEF LogOf
  <1> QED
    BY <1>1, <1>2 DEF Init

\* The initial states are initial states of the journal.
LEMMA JournalInit == Init => Journal!Init
  <1> SUFFICES ASSUME Init PROVE Journal!Init
    OBVIOUS
  <1>1. LogOf \in Histories
    BY LogInit
  <1>2. KnownOf = [c \in Conns |-> None]
    BY DEF KnownOf, Init
  <1>3. damaged = FALSE
    BY DEF Init
  <1> QED
    BY <1>1, <1>2, <1>3 DEF Journal!Init, LogOf, KnownOf

\* A step that changes neither the journal nor what a connection knows is a
\* stuttering step of the journal.
LEMMA JournalStutters ==
  ASSUME TypeOK, LogOf' = LogOf, damaged' = damaged,
         \A c \in Conns : KnownOf'[c] = KnownOf[c]
  PROVE  UNCHANGED Journal!vars
  <1>1. KnownOf' = KnownOf
    BY DEF KnownOf
  <1> QED
    BY <1>1 DEF Journal!vars, LogOf, KnownOf

\* A step in which one connection is told the length of the journal.
LEMMA JournalLearns ==
  ASSUME TypeOK, NEW c \in Conns, ~damaged, UNCHANGED <<db, damaged>>,
         \A o \in Conns : KnownOf'[o] = IF o = c THEN Len(LogOf) ELSE KnownOf[o]
  PROVE  Journal!Next
  <1>1. KnownOf' = [KnownOf EXCEPT ![c] = Len(LogOf)]
    BY DEF KnownOf
  <1>2. LogOf' = LogOf
    BY DEF LogOf
  <1>3. Journal!Learn(c)
    BY <1>1, <1>2 DEF Journal!Learn, LogOf, KnownOf
  <1> QED
    BY <1>3 DEF Journal!Next

\* Opening a database leaves the journal alone.
LEMMA OpeningKeepsLog ==
  ASSUME TypeOK, Inv, NEW c \in Conns,
         CreateFile(c) \/ ReadVersion(c) \/ CreateSchema(c) \/ SetVersion(c) \/ Migrate(c)
           \/ FinishOpen(c)
  PROVE  LogOf' = LogOf
  <1>1. CASE CreateFile(c)
    <2>1. db = None /\ db' = NewFile
      BY <1>1 DEF CreateFile, CommitNow
    <2>2. NewFile \in Databases /\ NewFile.events = <<>>
      BY NewFileSound
    <2> QED
      BY <2>1, <2>2, NoneApart DEF LogOf
  <1>2. CASE ReadVersion(c) \/ FinishOpen(c)
    BY <1>2 DEF ReadVersion, FinishOpen, dbVars, LogOf
  <1>3. CASE CreateSchema(c) \/ SetVersion(c) \/ Migrate(c)
    <2>1. db # None
      BY <1>3 DEF CreateSchema, SetVersion, Migrate, Inv, SchemaInv
    <2>2. db \in Databases
      BY <2>1 DEF TypeOK
    <2>3. db'.events = db.events
      BY <1>3, <2>2 DEF CreateSchema, SetVersion, Migrate, CommitNow, Migrated, Databases
    <2>4. db' # None
      <3>1. TypeOK' /\ Inv'
        BY <1>3, CreateSchemaKeeps, SetVersionKeeps, MigrateKeeps
      <3>2. pc'[c] # "Down"
        BY <1>3 DEF CreateSchema, SetVersion, Migrate, At, TypeOK
      <3> QED
        BY <3>1, <3>2 DEF Inv, SchemaInv
    <2> QED
      BY <2>1, <2>3, <2>4 DEF LogOf
  <1> QED
    BY <1>1, <1>2, <1>3

\* Nor does it tell a connection anything.
LEMMA OpeningStutters ==
  ASSUME TypeOK, Inv, NEW c \in Conns,
         CreateFile(c) \/ ReadVersion(c) \/ CreateSchema(c) \/ SetVersion(c) \/ Migrate(c)
           \/ FinishOpen(c)
  PROVE  UNCHANGED Journal!vars
  <1>1. /\ held' = held /\ damaged' = damaged
        /\ \E at \in {"Reserved", "Schema", "Down", "Migrate", "Audit", "Refused", "Version",
                      "Idle"} : pc' = [pc EXCEPT ![c] = at]
        /\ pc[c] # "Committed"
    BY DEF CreateFile, ReadVersion, CreateSchema, SetVersion, Migrate, FinishOpen, At, CommitNow,
           dbVars, writeVars
  <1>2. \A o \in Conns : o # c => pc'[o] = pc[o]
    BY <1>1 DEF TypeOK
  <1>3. pc'[c] # "Committed"
    BY <1>1 DEF TypeOK
  <1>4. \A o \in Conns : o # c => cache'[o] = cache[o]
    BY DEF CreateFile, ReadVersion, CreateSchema, SetVersion, Migrate, FinishOpen, CommitNow,
           writeVars, Install, TypeOK
  <1>5. \A o \in Conns : KnownOf'[o] = KnownOf[o]
    BY <1>1, <1>2, <1>3, <1>4 DEF KnownOf
  <1>6. LogOf' = LogOf
    BY OpeningKeepsLog
  <1> QED
    BY <1>1, <1>5, <1>6, JournalStutters

\* A load tells one connection the length of the journal, or nothing.
LEMMA LoadsRefine ==
  ASSUME TypeOK, Inv, NEW c \in Conns,
         LoadCurrent(c) \/ LoadVerificationSnapshot(c) \/ Load(c) \/ AppendRefused(c)
  PROVE  Journal!Next \/ UNCHANGED Journal!vars
  <1> DEFINE ix == Verified(c)
  <1>1. /\ pc[c] = "Idle" /\ UNCHANGED <<db, damaged, pc>>
        /\ \E x : cache' = [cache EXCEPT ![c] = x]
    BY DEF LoadCurrent, LoadVerificationSnapshot, Load, AppendRefused, dbVars, Install
  <1>2. ix = IF damaged THEN None ELSE Ix(db.events)
    BY <1>1, VerifiedIs
  <1>3. /\ AuditOk(db) <=> ~damaged /\ db \in Databases
        /\ ~damaged => db.events \in Seq(Events)
    BY <1>1, AuditNow DEF Open
  <1>4. db \in Databases
    BY <1>1, AuditNow DEF Open
  <1>5. LogOf = db.events
    BY <1>4, NoneApart DEF LogOf
  <1> HIDE DEF ix
  <1>6. ~damaged => ix.head = Len(LogOf)
    BY <1>2, <1>3, <1>5, IxHead
  <1>7. \A o \in Conns : o # c => cache'[o] = cache[o]
    BY <1>1 DEF TypeOK
  <1>8. held' = held \/ (~damaged /\ held'[c].head = Len(LogOf)
                         /\ \A o \in Conns : o # c => held'[o] = held[o])
    <2>1. CASE LoadCurrent(c)
      <3>1. held' = IF ix = None THEN held ELSE [held EXCEPT ![c].head = ix.head]
        BY <2>1 DEF LoadCurrent, ix
      <3> QED
        BY <1>2, <1>6, <3>1 DEF TypeOK
    <2>2. CASE LoadVerificationSnapshot(c)
      <3>1. held' = IF ix = None THEN held
                    ELSE [held EXCEPT ![c] = [head |-> ix.head, receiptHead |-> ix.receiptHead]]
        BY <2>2 DEF LoadVerificationSnapshot, ix
      <3> QED
        BY <1>2, <1>6, <3>1 DEF TypeOK
    <2>3. CASE Load(c)
      <3>1. ~damaged /\ held' = [held EXCEPT ![c].head = Len(LogOf)]
        BY <1>3, <1>5, <2>3 DEF Load
      <3> QED
        BY <3>1 DEF TypeOK
    <2>4. CASE AppendRefused(c)
      BY <2>4 DEF AppendRefused
    <2> QED
      BY <2>1, <2>2, <2>3, <2>4
  <1>9. CASE held' = held
    <2>1. \A o \in Conns : KnownOf'[o] = KnownOf[o]
      BY <1>1, <1>7, <1>9 DEF KnownOf
    <2>2. LogOf' = LogOf
      BY <1>1 DEF LogOf
    <2> QED
      BY <1>1, <2>1, <2>2, JournalStutters
  <1>10. CASE ~damaged /\ held'[c].head = Len(LogOf)
              /\ \A o \in Conns : o # c => held'[o] = held[o]
    <2>1. \A o \in Conns : KnownOf'[o] = IF o = c THEN Len(LogOf) ELSE KnownOf[o]
      BY <1>1, <1>7, <1>10 DEF KnownOf
    <2> QED
      BY <1>1, <1>10, <2>1, JournalLearns
  <1> QED
    BY <1>8, <1>9, <1>10

\* Writing is not seen outside; neither is the acknowledgement of what is durable.
LEMMA WritingStutters ==
  ASSUME TypeOK, Inv, NEW c \in Conns,
         BeginAppend(c) \/ WriteStage(c) \/ StageFails(c) \/ Acknowledge(c)
  PROVE  UNCHANGED Journal!vars
  <1>1. UNCHANGED <<db, damaged>>
    BY DEF BeginAppend, WriteStage, StageFails, Acknowledge, dbVars
  <1>2. CASE BeginAppend(c) \/ WriteStage(c) \/ StageFails(c)
    <2>1. /\ held' = held /\ pc[c] # "Committed"
          /\ pc' = pc \/ \E at \in {"Writing", "Idle"} : pc' = [pc EXCEPT ![c] = at]
          /\ cache' = cache \/ \E x : cache' = [cache EXCEPT ![c] = x]
      BY <1>2, WriterNow DEF BeginAppend, WriteStage, StageFails, At, Install
    <2>2. \A o \in Conns : o # c => pc'[o] = pc[o] /\ cache'[o] = cache[o]
      BY <2>1 DEF TypeOK
    <2>3. pc'[c] # "Committed"
      BY <2>1 DEF TypeOK
    <2>4. \A o \in Conns : KnownOf'[o] = KnownOf[o]
      BY <2>1, <2>2, <2>3 DEF KnownOf
    <2> QED
      BY <1>1, <2>4, JournalStutters DEF LogOf
  <1>3. CASE Acknowledge(c)
    <2>1. /\ pc[c] = "Committed" /\ pc' = [pc EXCEPT ![c] = "Idle"]
          /\ held' = [held EXCEPT ![c].head = cache[c].head + 1]
          /\ \E x : cache' = [cache EXCEPT ![c] = x]
      BY <1>3 DEF Acknowledge, At
    <2>2. \A o \in Conns : o # c => pc'[o] = pc[o] /\ cache'[o] = cache[o] /\ held'[o] = held[o]
      BY <2>1 DEF TypeOK
    <2>3. pc'[c] = "Idle" /\ held'[c].head = cache[c].head + 1
      BY <2>1 DEF TypeOK
    <2>4. \A o \in Conns : KnownOf'[o] = KnownOf[o]
      BY <2>1, <2>2, <2>3 DEF KnownOf
    <2> QED
      BY <1>1, <2>4, JournalStutters DEF LogOf
  <1> QED
    BY <1>2, <1>3

\* The commit extends the journal, by an event of a connection that knew all of it.
LEMMA CommitExtends ==
  ASSUME TypeOK, Inv, NEW c \in Conns, CommitDurable(c)
  PROVE  Journal!Next
  <1>1. /\ writer = c /\ pc' = [pc EXCEPT ![c] = "Committed"]
        /\ UNCHANGED <<damaged, cache, held>>
    BY DEF CommitDurable, EndWrite, At
  <1>2. /\ pc[c] = "Writing" /\ ~damaged /\ db \in Databases /\ db.events \in Seq(Events)
        /\ pending[c] \in Appending /\ cache[c] = Ix(db.events)
        /\ held[c].head = Len(db.events)
    BY <1>1, WriterNow
  <1>3. PICK e \in Events : e = pending[c].event
    BY <1>2 DEF Appending
  <1>4. TypeOK' /\ Inv' /\ db'.events = Append(db.events, e)
    BY <1>3, CommitDurableKeeps
  <1>5. pc'[c] = "Committed" /\ \A o \in Conns : o # c => pc'[o] = pc[o]
    BY <1>1 DEF TypeOK
  <1>6. db # None /\ db' # None
    BY <1>2, <1>4, <1>5, NoneApart DEF Inv, SchemaInv
  <1>7. LogOf = db.events /\ LogOf' = Append(LogOf, e)
    BY <1>4, <1>6 DEF LogOf
  <1>8. e \in Events /\ cache[c].head = Len(db.events) /\ Len(db.events) \in Nat
        /\ Len(Append(db.events, e)) = Len(db.events) + 1
    BY <1>2, IxHead
  <1>9. KnownOf[c] = Len(LogOf)
    BY <1>2, <1>7 DEF KnownOf
  <1>10. \A o \in Conns : KnownOf'[o] = IF o = c THEN Len(LogOf') ELSE KnownOf[o]
    BY <1>1, <1>5, <1>7, <1>8 DEF KnownOf
  <1>11. KnownOf' = [KnownOf EXCEPT ![c] = Len(LogOf')]
    BY <1>10 DEF KnownOf
  <1>12. Journal!Extend(c, e)
    BY <1>1, <1>2, <1>7, <1>9, <1>11 DEF Journal!Extend, LogOf, KnownOf
  <1> QED
    BY <1>12 DEF Journal!Next

\* A crash makes its connection forget.
LEMMA CrashForgets ==
  ASSUME TypeOK, Inv, NEW c \in Conns, Crash(c)
  PROVE  Journal!Next
  <1>1. /\ pc' = [pc EXCEPT ![c] = "Down"] /\ cache' = [cache EXCEPT ![c] = None]
        /\ held' = [held EXCEPT ![c] = [head |-> None, receiptHead |-> 0]]
        /\ UNCHANGED <<db, damaged>>
    BY DEF Crash, At, Install, dbVars
  <1>2. pc'[c] = "Down" /\ held'[c].head = None
        /\ \A o \in Conns : o # c => pc'[o] = pc[o] /\ cache'[o] = cache[o] /\ held'[o] = held[o]
    BY <1>1 DEF TypeOK
  <1>3. \A o \in Conns : KnownOf'[o] = IF o = c THEN None ELSE KnownOf[o]
    BY <1>2 DEF KnownOf
  <1>4. KnownOf' = [KnownOf EXCEPT ![c] = None]
    BY <1>3 DEF KnownOf
  <1>5. LogOf' = LogOf
    BY <1>1 DEF LogOf
  <1>6. Journal!Forget(c)
    BY <1>1, <1>4, <1>5 DEF Journal!Forget, LogOf, KnownOf
  <1> QED
    BY <1>6 DEF Journal!Next

\* A foreign change is the journal's own damage, or leaves the journal alone.
LEMMA EnvironmentRefines ==
  ASSUME TypeOK, Inv, Damage \/ OlderBinary
  PROVE  Journal!Next \/ UNCHANGED Journal!vars
  <1>1. CASE Damage
    <2>1. db # None /\ damaged' = TRUE /\ UNCHANGED <<pc, cache, held>>
      BY <1>1 DEF Damage
    <2>2. TypeOK' /\ Inv'
          /\ (db'.events = db.events \/ (db.events # <<>> /\ db'.events = Front(db.events)))
      BY <1>1, DamageKeeps
    <2>3. db' # None
      BY <2>1, <2>2 DEF Inv, DataInv
    <2>4. LogOf' = LogOf \/ (LogOf # <<>> /\ LogOf' = Front(LogOf))
      BY <2>1, <2>2, <2>3 DEF LogOf
    <2>5. KnownOf' = KnownOf
      BY <2>1 DEF KnownOf
    <2>6. Journal!Damage
      BY <2>1, <2>4, <2>5 DEF Journal!Damage, Journal!Front, Front, LogOf, KnownOf
    <2> QED
      BY <2>6 DEF Journal!Next
  <1>2. CASE OlderBinary
    <2>1. db # None /\ UNCHANGED <<damaged, pc, cache, held>>
      BY <1>2 DEF OlderBinary
    <2>2. db'.events = db.events /\ db' # None
      BY <1>2, OlderBinaryKeeps
    <2>3. LogOf' = LogOf
      BY <2>1, <2>2 DEF LogOf
    <2>4. \A c \in Conns : KnownOf'[c] = KnownOf[c]
      BY <2>1 DEF KnownOf
    <2> QED
      BY <2>1, <2>3, <2>4, JournalStutters
  <1> QED
    BY <1>1, <1>2

\* Every step of the store is one of the journal or changes nothing it tells.
LEMMA JournalNext ==
  TypeOK /\ Inv /\ [Next]_vars => [Journal!Next]_(Journal!vars)
  <1> SUFFICES ASSUME TypeOK, Inv, [Next]_vars PROVE Journal!Next \/ UNCHANGED Journal!vars
    OBVIOUS
  <1> DEFINE Goal == Journal!Next \/ UNCHANGED Journal!vars
  <1>1. ASSUME NEW c \in Conns,
               CreateFile(c) \/ ReadVersion(c) \/ CreateSchema(c) \/ SetVersion(c) \/ Migrate(c)
                 \/ FinishOpen(c)
        PROVE  Goal
    BY <1>1, OpeningStutters
  <1>2. ASSUME NEW c \in Conns,
               LoadCurrent(c) \/ LoadVerificationSnapshot(c) \/ Load(c) \/ AppendRefused(c)
        PROVE  Goal
    BY <1>2, LoadsRefine
  <1>3. ASSUME NEW c \in Conns, BeginAppend(c) \/ WriteStage(c) \/ StageFails(c) \/ Acknowledge(c)
        PROVE  Goal
    BY <1>3, WritingStutters
  <1>4. ASSUME NEW c \in Conns, CommitDurable(c) PROVE Goal
    BY <1>4, CommitExtends
  <1>5. ASSUME NEW c \in Conns, Crash(c) PROVE Goal
    BY <1>5, CrashForgets
  <1>6. ASSUME Damage \/ OlderBinary PROVE Goal
    BY <1>6, EnvironmentRefines
  <1>7. ASSUME UNCHANGED vars PROVE Goal
    <2>1. UNCHANGED <<db, damaged, pc, cache, held>>
      BY <1>7 DEF vars
    <2>2. \A c \in Conns : KnownOf'[c] = KnownOf[c]
      BY <2>1 DEF KnownOf
    <2> QED
      BY <2>1, <2>2, JournalStutters DEF LogOf
  <1> HIDE DEF Goal
  <1>8. Goal
    BY <1>1, <1>2, <1>3, <1>4, <1>5, <1>6, <1>7 DEF Next
  <1> QED
    BY <1>8 DEF Goal

\* The store implements the journal: one log that only grows, by events of
\* connections that knew all of it, and that tells nothing once it is damaged.
THEOREM ImplementsJournalAlways == Spec => ImplementsJournal
  BY JournalInit, JournalNext, InvAlways, PTL DEF Spec, ImplementsJournal, Journal!Spec

-----------------------------------------------------------------------------
(* Sorted sequences *)

\* As many pairwise different elements of a finite set as it has are all of it.
LEMMA AllOccur ==
  ASSUME NEW S, IsFiniteSet(S), NEW n \in Nat, n = Cardinality(S), NEW f \in Injection(1..n, S)
  PROVE  f \in Surjection(1..n, S)
  <1>1. IsFiniteSet(1..n) /\ Cardinality(1..n) = n
    BY FS_Interval
  <1> QED
    BY <1>1, FS_Injection

\* R is asymmetric on S; the first n values of f ascend in it.
Strict(R, S) == \A p, q \in S : <<p, q>> \in R => <<q, p>> \notin R
Ascends(f, n, R) == \A i, k \in 1..n : i < k => <<f[i], f[k]>> \in R

\* The elements of a finite set have one strict order at most.
LEMMA OneOrder ==
  ASSUME NEW S, IsFiniteSet(S), NEW n \in Nat, n = Cardinality(S), NEW R, Strict(R, S),
         NEW f \in [1..n -> S], Ascends(f, n, R), NEW g \in [1..n -> S], Ascends(g, n, R)
  PROVE  f = g
  <1>1. \A i, k \in 1..n : i < k => f[i] # f[k] /\ g[i] # g[k]
    <2>1. \A p \in S : <<p, p>> \notin R
      BY DEF Strict
    <2> QED
      BY <2>1 DEF Ascends
  <1>2. /\ \A x \in S : \E i \in 1..n : f[i] = x
        /\ \A x \in S : \E i \in 1..n : g[i] = x
    <2>1. \A i, k \in 1..n : (f[i] = f[k] => i = k) /\ (g[i] = g[k] => i = k)
      BY <1>1
    <2>2. f \in Injection(1..n, S) /\ g \in Injection(1..n, S)
      BY <2>1 DEF Injection, IsInjective
    <2>3. f \in Surjection(1..n, S) /\ g \in Surjection(1..n, S)
      BY <2>2, AllOccur
    <2> QED
      BY <2>3 DEF Surjection
  <1> DEFINE Bad == {i \in 1..n : f[i] # g[i]}
  <1>3. SUFFICES ASSUME Bad # {} PROVE FALSE
    OBVIOUS
  <1>4. PICK i \in Bad : \A k \in Bad : i <= k
    <2>1. Bad \subseteq Nat
      OBVIOUS
    <2> HIDE DEF Bad
    <2> QED
      BY <1>3, <2>1, LeastOf
  <1>5. i \in 1..n /\ f[i] # g[i] /\ f[i] \in S /\ g[i] \in S
    BY <1>4
  <1>6. \A k \in 1..n : k < i => f[k] = g[k]
    BY <1>4, <1>5
  <1>7. PICK k \in 1..n : f[k] = g[i]
    BY <1>2, <1>5
  <1>8. k > i
    <2>1. k # i
      BY <1>5, <1>7
    <2>2. ~(k < i)
      BY <1>1, <1>5, <1>6, <1>7
    <2> QED
      BY <1>5, <2>1, <2>2
  <1>9. <<f[i], g[i]>> \in R
    BY <1>5, <1>7, <1>8 DEF Ascends
  <1>10. PICK m \in 1..n : g[m] = f[i]
    BY <1>2, <1>5
  <1>11. m > i
    <2>1. m # i
      BY <1>5, <1>10
    <2>2. ~(m < i)
      BY <1>1, <1>5, <1>6, <1>10
    <2> QED
      BY <1>5, <2>1, <2>2
  <1>12. <<g[i], f[i]>> \in R
    BY <1>5, <1>10, <1>11 DEF Ascends
  <1> QED
    BY <1>5, <1>9, <1>12 DEF Strict

\* g is the recursion of FlattenSeq(seqs), up to n.
Flat(seqs, n, g) == g = [i \in 1..n |-> IF i = 1 THEN seqs[i] ELSE g[i - 1] \o seqs[i]]

\* It has a solution.
LEMMA FlatSolved ==
  ASSUME NEW seqs, NEW N \in Nat
  PROVE  \E g : Flat(seqs, N, g)
  <1> DEFINE Bad == {n \in 0..N : ~ \E g : Flat(seqs, n, g)}
  <1>1. SUFFICES ASSUME Bad # {} PROVE FALSE
    OBVIOUS
  <1>2. PICK n \in Bad : \A m \in Bad : n <= m
    <2>1. Bad \subseteq Nat
      OBVIOUS
    <2> HIDE DEF Bad
    <2> QED
      BY <1>1, <2>1, LeastOf
  <1>3. n # 0
    <2>1. Flat(seqs, 0, [i \in 1..0 |-> 0])
      BY DEF Flat
    <2> QED
      BY <1>2, <2>1
  <1>4. n - 1 \in 0..N /\ n - 1 \notin Bad
    BY <1>2, <1>3
  <1>5. PICK g : Flat(seqs, n - 1, g)
    BY <1>4
  <1> DEFINE last == IF n = 1 THEN seqs[n] ELSE g[n - 1] \o seqs[n]
             h == [i \in 1..n |-> IF i = n THEN last ELSE g[i]]
  <1>6. ASSUME NEW i \in 1..n
        PROVE  h[i] = IF i = 1 THEN seqs[i] ELSE h[i - 1] \o seqs[i]
    <2>1. g = [k \in 1..n - 1 |-> IF k = 1 THEN seqs[k] ELSE g[k - 1] \o seqs[k]]
      BY <1>5 DEF Flat
    <2>2. CASE i = n
      BY <1>2, <1>3, <2>2
    <2>3. CASE i # n
      <3>1. i \in 1..n - 1 /\ (i # 1 => i - 1 \in 1..n /\ i - 1 # n)
        BY <1>2, <2>3
      <3>2. g[i] = IF i = 1 THEN seqs[i] ELSE g[i - 1] \o seqs[i]
        BY <2>1, <3>1
      <3> QED
        BY <2>3, <3>1, <3>2
    <2> QED
      BY <2>2, <2>3
  <1>7. Flat(seqs, n, h)
    BY <1>6 DEF Flat
  <1> QED
    BY <1>2, <1>7

\* FlattenSeq appends one sequence after the other.
LEMMA FlattenSteps ==
  ASSUME NEW Q, Len(Q) \in Nat, Len(Q) # 0
  PROVE  \E F : /\ FlattenSeq(Q) = F[Len(Q)] /\ F[1] = Q[1]
                /\ \A n \in 2..Len(Q) : F[n] = F[n - 1] \o Q[n]
  <1> DEFINE N == Len(Q)
             F == CHOOSE g : g = [i \in 1..N |-> IF i = 1 THEN Q[i] ELSE g[i - 1] \o Q[i]]
  <1>1. FlattenSeq(Q) = F[N]
    BY DEF FlattenSeq
  <1>2. \E g : g = [i \in 1..N |-> IF i = 1 THEN Q[i] ELSE g[i - 1] \o Q[i]]
    <2>1. PICK g : Flat(Q, N, g)
      <3> HIDE DEF N
      <3>1. N \in Nat
        BY DEF N
      <3> QED
        BY <3>1, FlatSolved
    <2> QED
      BY <2>1 DEF Flat
  <1>3. F = [i \in 1..N |-> IF i = 1 THEN Q[i] ELSE F[i - 1] \o Q[i]]
    BY <1>2
  <1> HIDE DEF F
  <1>4. \A i \in 1..N : F[i] = IF i = 1 THEN Q[i] ELSE F[i - 1] \o Q[i]
    BY <1>3
  <1>5. F[1] = Q[1]
    <2>1. 1 \in 1..N
      OBVIOUS
    <2> QED
      BY <1>4, <2>1
  <1>6. ASSUME NEW n \in 2..N PROVE F[n] = F[n - 1] \o Q[n]
    <2>1. n \in 1..N /\ n # 1
      OBVIOUS
    <2> QED
      BY <1>4, <2>1
  <1> QED
    BY <1>1, <1>5, <1>6

\* What a concatenation holds, and where.
LEMMA Joined ==
  ASSUME NEW X, NEW a \in Seq(X), NEW b \in Seq(X)
  PROVE  /\ a \o b \in Seq(X) /\ Len(a \o b) = Len(a) + Len(b)
         /\ \A i \in 1..Len(a) : (a \o b)[i] = a[i]
         /\ \A i \in 1..Len(b) : (a \o b)[Len(a) + i] = b[i]
         /\ \A i \in 1..Len(a \o b) : i \in 1..Len(a) \/ i - Len(a) \in 1..Len(b)
         /\ \A i \in 1..Len(a \o b) : i \notin 1..Len(a) => (a \o b)[i] = b[i - Len(a)]
  OBVIOUS

\* What the first n of the sequences Q hold, in s, in the order R.
Holds(s, Q, n, X, R) ==
    /\ s \in Seq(X)
    /\ \A i \in 1..Len(s) : \E m \in 1..n : \E k \in 1..Len(Q[m]) : s[i] = Q[m][k]
    /\ \A m \in 1..n : \A k \in 1..Len(Q[m]) : \E i \in 1..Len(s) : s[i] = Q[m][k]
    /\ Ascends(s, Len(s), R)

\* Each sequence is in order R, and each element before those of a later one.
Graded(Q, R) ==
    /\ \A n \in 1..Len(Q) : Ascends(Q[n], Len(Q[n]), R)
    /\ \A m, n \in 1..Len(Q) : m < n =>
        \A i \in 1..Len(Q[m]), k \in 1..Len(Q[n]) : <<Q[m][i], Q[n][k]>> \in R

\* One sequence more.
LEMMA HoldsMore ==
  ASSUME NEW X, NEW R, NEW Q \in Seq(Seq(X)), Graded(Q, R), NEW n \in 2..Len(Q), NEW a,
         Holds(a, Q, n - 1, X, R)
  PROVE  Holds(a \o Q[n], Q, n, X, R)
  <1> DEFINE b == Q[n]
             c == a \o b
  <1>1. b \in Seq(X) /\ a \in Seq(X) /\ Len(a) \in Nat /\ Len(b) \in Nat
    BY DEF Holds
  <1>2. /\ c \in Seq(X) /\ Len(c) = Len(a) + Len(b)
        /\ \A i \in 1..Len(a) : c[i] = a[i]
        /\ \A i \in 1..Len(b) : c[Len(a) + i] = b[i]
        /\ \A i \in 1..Len(c) : i \in 1..Len(a) \/ i - Len(a) \in 1..Len(b)
        /\ \A i \in 1..Len(c) : i \notin 1..Len(a) => c[i] = b[i - Len(a)]
    BY <1>1, Joined
  <1> HIDE DEF c
  <1>3. ASSUME NEW i \in 1..Len(c)
        PROVE  \E m \in 1..n : \E k \in 1..Len(Q[m]) : c[i] = Q[m][k]
    <2>1. CASE i \in 1..Len(a)
      <3>1. PICK m \in 1..n - 1 : \E k \in 1..Len(Q[m]) : a[i] = Q[m][k]
        BY <2>1 DEF Holds
      <3> QED
        BY <1>2, <2>1, <3>1
    <2>2. CASE i \notin 1..Len(a)
      <3>1. n \in 1..n
        OBVIOUS
      <3>2. i - Len(a) \in 1..Len(b) /\ c[i] = b[i - Len(a)]
        <4> HIDE DEF b
        <4> QED
          BY <1>2, <2>2
      <3> QED
        BY <3>1, <3>2
    <2> QED
      BY <2>1, <2>2
  <1>4. ASSUME NEW m \in 1..n, NEW k \in 1..Len(Q[m])
        PROVE  \E i \in 1..Len(c) : c[i] = Q[m][k]
    <2>1. CASE m = n
      <3>1. Len(a) + k \in 1..Len(c) /\ c[Len(a) + k] = Q[m][k]
        BY <1>1, <1>2, <2>1, SMTT(30)
      <3> QED
        BY <3>1
    <2>2. CASE m # n
      <3>1. PICK i \in 1..Len(a) : a[i] = Q[m][k]
        BY <2>2 DEF Holds
      <3>2. i \in 1..Len(c) /\ c[i] = Q[m][k]
        BY <1>1, <1>2, <3>1
      <3> QED
        BY <3>2
    <2> QED
      BY <2>1, <2>2
  <1>5. ASSUME NEW i \in 1..Len(c), NEW k \in 1..Len(c), i < k
        PROVE  <<c[i], c[k]>> \in R
    <2>1. CASE k \in 1..Len(a)
      <3>1. i \in 1..Len(a)
        BY <1>1, <1>5, <2>1
      <3> QED
        BY <1>2, <1>5, <2>1, <3>1 DEF Holds, Ascends
    <2>2. CASE i \in 1..Len(a) /\ k \notin 1..Len(a)
      <3>1. PICK m \in 1..n - 1 : \E l \in 1..Len(Q[m]) : a[i] = Q[m][l]
        BY <2>2 DEF Holds
      <3>2. k - Len(a) \in 1..Len(b) /\ c[k] = b[k - Len(a)] /\ c[i] = a[i]
        BY <1>2, <2>2
      <3>3. m \in 1..Len(Q) /\ n \in 1..Len(Q) /\ m < n
        BY <3>1
      <3> QED
        BY <3>1, <3>2, <3>3 DEF Graded
    <2>3. CASE i \notin 1..Len(a) /\ k \notin 1..Len(a)
      <3>1. /\ i - Len(a) \in 1..Len(b) /\ c[i] = b[i - Len(a)]
            /\ k - Len(a) \in 1..Len(b) /\ c[k] = b[k - Len(a)]
            /\ i - Len(a) < k - Len(a) /\ n \in 1..Len(Q)
        BY <1>1, <1>2, <1>5, <2>3
      <3> QED
        BY <3>1 DEF Graded, Ascends
    <2> QED
      BY <2>1, <2>2, <2>3
  <1> QED
    BY <1>2, <1>3, <1>4, <1>5 DEF Holds, Ascends, c

\* Flattening graded sequences keeps their elements and their order.
LEMMA FlattenGraded ==
  ASSUME NEW X, NEW R, NEW Q \in Seq(Seq(X)), Graded(Q, R)
  PROVE  Holds(FlattenSeq(Q), Q, Len(Q), X, R)
  <1>1. CASE Len(Q) = 0
    <2>1. FlattenSeq(Q) = Q /\ Q = << >>
      BY <1>1 DEF FlattenSeq
    <2>2. << >> \in Seq(X) /\ Len(<< >>) = 0
      OBVIOUS
    <2> QED
      BY <1>1, <2>1, <2>2 DEF Holds, Ascends
  <1>2. CASE Len(Q) # 0
    <2>1. PICK F : /\ FlattenSeq(Q) = F[Len(Q)] /\ F[1] = Q[1]
                   /\ \A n \in 2..Len(Q) : F[n] = F[n - 1] \o Q[n]
      <3>1. Len(Q) \in Nat
        OBVIOUS
      <3> QED
        BY <1>2, <3>1, FlattenSteps
    <2>2. Holds(F[1], Q, 1, X, R)
      <3>1. 1 \in 1..Len(Q) /\ Q[1] \in Seq(X) /\ 1 \in 1..1
        BY <1>2
      <3> QED
        BY <2>1, <3>1 DEF Holds, Graded
    <2> DEFINE Bad == {n \in 1..Len(Q) : ~Holds(F[n], Q, n, X, R)}
    <2>3. Bad = {}
      <3>1. SUFFICES ASSUME Bad # {} PROVE FALSE
        OBVIOUS
      <3>2. PICK n \in Bad : \A m \in Bad : n <= m
        <4>1. Bad \subseteq Nat
          OBVIOUS
        <4> HIDE DEF Bad
        <4> QED
          BY <3>1, <4>1, LeastOf
      <3>3. n # 1
        BY <2>2, <3>2
      <3>4. n \in 2..Len(Q) /\ n - 1 \in 1..Len(Q) /\ n - 1 \notin Bad
        BY <3>2, <3>3
      <3>5. Holds(F[n - 1], Q, n - 1, X, R)
        BY <3>4
      <3>6. Holds(F[n - 1] \o Q[n], Q, n, X, R)
        BY <3>4, <3>5, HoldsMore
      <3> QED
        BY <2>1, <3>2, <3>4, <3>6
    <2>4. Len(Q) \in 1..Len(Q)
      BY <1>2
    <2> QED
      BY <2>1, <2>3, <2>4
  <1> QED
    BY <1>1, <1>2

\* p is q with h applied to every element.
Imaged(p, q, h) == Len(p) = Len(q) /\ \A i \in 1..Len(q) : p[i] = h[q[i]]

\* So are concatenations.
LEMMA ImagedJoin ==
  ASSUME NEW X, NEW Y, NEW h, NEW p \in Seq(Y), NEW q \in Seq(X), NEW u \in Seq(Y),
         NEW v \in Seq(X), Imaged(p, q, h), Imaged(u, v, h)
  PROVE  Imaged(p \o u, q \o v, h)
  <1>1. /\ p \o u \in Seq(Y) /\ Len(p \o u) = Len(p) + Len(u)
        /\ \A i \in 1..Len(p) : (p \o u)[i] = p[i]
        /\ \A i \in 1..Len(p \o u) : i \notin 1..Len(p) => (p \o u)[i] = u[i - Len(p)]
    BY Joined
  <1>2. /\ q \o v \in Seq(X) /\ Len(q \o v) = Len(q) + Len(v)
        /\ \A i \in 1..Len(q) : (q \o v)[i] = q[i]
        /\ \A i \in 1..Len(q \o v) : i \in 1..Len(q) \/ i - Len(q) \in 1..Len(v)
        /\ \A i \in 1..Len(q \o v) : i \notin 1..Len(q) => (q \o v)[i] = v[i - Len(q)]
    BY Joined
  <1> DEFINE a == p \o u
             b == q \o v
  <1>3. Len(p) = Len(q) /\ Len(u) = Len(v)
    BY DEF Imaged
  <1>4. Len(a) = Len(b)
    BY <1>1, <1>2, <1>3
  <1> HIDE DEF a, b
  <1>5. ASSUME NEW i \in 1..Len(b) PROVE a[i] = h[b[i]]
    <2>1. CASE i \in 1..Len(q)
      BY <1>1, <1>2, <1>3, <2>1 DEF Imaged, a, b
    <2>2. CASE i \notin 1..Len(q)
      <3>1. i - Len(q) \in 1..Len(v) /\ b[i] = v[i - Len(q)]
        BY <1>2, <1>5, <2>2 DEF b
      <3>2. a[i] = u[i - Len(q)]
        BY <1>1, <1>3, <1>4, <1>5, <2>2 DEF a
      <3> QED
        BY <3>1, <3>2 DEF Imaged
    <2> QED
      BY <2>1, <2>2
  <1> QED
    BY <1>4, <1>5 DEF Imaged, a, b

\* And flattenings.
LEMMA ImagedFlatten ==
  ASSUME NEW X, NEW Y, NEW h, NEW P \in Seq(Seq(Y)), NEW Q \in Seq(Seq(X)),
         Len(P) = Len(Q), \A n \in 1..Len(Q) : Imaged(P[n], Q[n], h)
  PROVE  /\ FlattenSeq(P) \in Seq(Y) /\ FlattenSeq(Q) \in Seq(X)
         /\ Imaged(FlattenSeq(P), FlattenSeq(Q), h)
  <1>1. CASE Len(Q) = 0
    <2>1. FlattenSeq(Q) = Q /\ FlattenSeq(P) = P /\ Q = << >> /\ P = << >>
      BY <1>1 DEF FlattenSeq
    <2>2. << >> \in Seq(X) /\ << >> \in Seq(Y) /\ Len(<< >>) = 0
      OBVIOUS
    <2> QED
      BY <2>1, <2>2 DEF Imaged
  <1>2. CASE Len(Q) # 0
    <2>0. Len(Q) \in Nat /\ Len(P) \in Nat
      OBVIOUS
    <2>1. PICK F : /\ FlattenSeq(Q) = F[Len(Q)] /\ F[1] = Q[1]
                   /\ \A n \in 2..Len(Q) : F[n] = F[n - 1] \o Q[n]
      BY <1>2, <2>0, FlattenSteps
    <2>2. PICK G : /\ FlattenSeq(P) = G[Len(Q)] /\ G[1] = P[1]
                   /\ \A n \in 2..Len(Q) : G[n] = G[n - 1] \o P[n]
      <3>1. Len(P) # 0
        BY <1>2
      <3>2. \E G : /\ FlattenSeq(P) = G[Len(P)] /\ G[1] = P[1]
                   /\ \A n \in 2..Len(P) : G[n] = G[n - 1] \o P[n]
        BY <2>0, <3>1, FlattenSteps
      <3> QED
        BY <3>2
    <2> DEFINE Ok(n) == G[n] \in Seq(Y) /\ F[n] \in Seq(X) /\ Imaged(G[n], F[n], h)
               Bad == {n \in 1..Len(Q) : ~Ok(n)}
    <2>3. Bad = {}
      <3>1. SUFFICES ASSUME Bad # {} PROVE FALSE
        OBVIOUS
      <3>2. PICK n \in Bad : \A m \in Bad : n <= m
        <4>1. Bad \subseteq Nat
          OBVIOUS
        <4> HIDE DEF Bad
        <4> QED
          BY <3>1, <4>1, LeastOf
      <3>3. n \in 1..Len(Q) /\ Q[n] \in Seq(X) /\ P[n] \in Seq(Y) /\ Imaged(P[n], Q[n], h)
            /\ ~Ok(n)
        <4>1. n \in 1..Len(Q) /\ n \in 1..Len(P) /\ ~Ok(n)
          BY <3>2
        <4> HIDE DEF Ok
        <4> QED
          BY <4>1
      <3>4. n # 1
        BY <2>1, <2>2, <3>3
      <3>5. n \in 2..Len(Q) /\ n - 1 \in 1..Len(Q) /\ n - 1 \notin Bad
        <4>1. n \in 2..Len(Q) /\ n - 1 \in 1..Len(Q) /\ ~(n <= n - 1)
          BY <3>3, <3>4
        <4> HIDE DEF Bad
        <4> QED
          BY <3>2, <4>1
      <3>6. Ok(n - 1) /\ F[n] = F[n - 1] \o Q[n] /\ G[n] = G[n - 1] \o P[n]
        BY <2>1, <2>2, <3>5
      <3>7. Imaged(G[n], F[n], h)
        BY <3>3, <3>6, ImagedJoin
      <3>8. G[n] \in Seq(Y) /\ F[n] \in Seq(X)
        BY <3>3, <3>6
      <3> QED
        BY <3>3, <3>7, <3>8
    <2>4. Len(Q) \in 1..Len(Q)
      BY <1>2
    <2> QED
      BY <2>1, <2>2, <2>3, <2>4
  <1> QED
    BY <1>1, <1>2

\* A sequence that holds each element of S in the strict order R is as long as S,
\* and no other function like it is.
LEMMA SortedIs ==
  ASSUME NEW S, NEW R, Strict(R, S), NEW f \in Seq(S),
         \A x \in S : \E i \in 1..Len(f) : f[i] = x, Ascends(f, Len(f), R)
  PROVE  /\ IsFiniteSet(S) /\ Cardinality(S) = Len(f) /\ f \in [1..Cardinality(S) -> S]
         /\ \A g \in [1..Cardinality(S) -> S] : Ascends(g, Cardinality(S), R) => g = f
  <1> DEFINE n == Len(f)
  <1>1. n \in Nat /\ f \in [1..n -> S]
    OBVIOUS
  <1>2. \A i, k \in 1..n : f[i] = f[k] => i = k
    <2>1. \A p \in S : <<p, p>> \notin R
      BY DEF Strict
    <2>2. \A i, k \in 1..n : i < k => f[i] # f[k]
      BY <1>1, <2>1 DEF Ascends
    <2> QED
      BY <1>1, <2>2
  <1> HIDE DEF n
  <1>3. f \in Bijection(1..n, S)
    <2>1. f \in Injection(1..n, S)
      BY <1>1, <1>2 DEF Injection, IsInjective
    <2>2. f \in Surjection(1..n, S)
      BY <1>1 DEF Surjection, n
    <2> QED
      BY <2>1, <2>2 DEF Bijection
  <1>4. ExistsBijection(1..n, S)
    BY <1>3 DEF ExistsBijection
  <1>5. Cardinality(S) = n
    BY <1>1, <1>4, FS_CountingElements
  <1>6. IsFiniteSet(S)
    BY <1>1, <1>4, FS_NatBijection
  <1>7. Ascends(f, n, R)
    BY DEF n
  <1>8. ASSUME NEW g \in [1..n -> S], Ascends(g, n, R) PROVE g = f
    BY <1>1, <1>5, <1>6, <1>7, <1>8, OneOrder
  <1> QED
    BY <1>1, <1>5, <1>6, <1>8 DEF n

-----------------------------------------------------------------------------
(* What the planner is shown *)

\* Q has every element of S; P names the steps of what Q has.
Covers(Q, S) == \A x \in S : \E n \in 1..Len(Q) : \E k \in 1..Len(Q[n]) : Q[n][k] = x
Names(P, Q) ==
    /\ Len(P) = Len(Q)
    /\ \A n \in 1..Len(Q) :
        Len(P[n]) = Len(Q[n]) /\ \A k \in 1..Len(Q[n]) : P[n][k] = Q[n][k].step

\* The elements of S in order R.
Listed(S, R) == CHOOSE g \in [1..Cardinality(S) -> S] : Ascends(g, Cardinality(S), R)

\* Graded sequences of the records of S, flattened, are S in order, and the steps
\* they name are those of S in order.
LEMMA OrderOf ==
  ASSUME NEW S, NEW R, Strict(R, S), NEW Q \in Seq(Seq(S)), Graded(Q, R), Covers(Q, S),
         NEW P \in Seq(Seq(Steps)), Names(P, Q)
  PROVE  /\ StepNames(Listed(S, R)) = FlattenSeq(P)
         /\ IsFiniteSet(S) /\ Cardinality(S) \in Nat
         /\ Listed(S, R) \in Bijection(1..Cardinality(S), S)
  <1> DEFINE c == Cardinality(S)
             f == CHOOSE g \in [1..c -> S] : Ascends(g, c, R)
             q == FlattenSeq(Q)
             p == FlattenSeq(P)
             h == [x \in S |-> x.step]
  <1>1. Holds(q, Q, Len(Q), S, R)
    BY FlattenGraded
  <1> HIDE DEF q
  <1>2. q \in Seq(S) /\ Ascends(q, Len(q), R)
    BY <1>1 DEF Holds
  <1>3. ASSUME NEW x \in S PROVE \E i \in 1..Len(q) : q[i] = x
    <2>1. PICK n \in 1..Len(Q) : \E k \in 1..Len(Q[n]) : Q[n][k] = x
      BY DEF Covers
    <2>2. PICK k \in 1..Len(Q[n]) : Q[n][k] = x
      BY <2>1
    <2>3. \E i \in 1..Len(q) : q[i] = Q[n][k]
      BY <1>1, <2>1, <2>2 DEF Holds
    <2> QED
      BY <2>2, <2>3
  <1>4. /\ IsFiniteSet(S) /\ c = Len(q) /\ q \in [1..c -> S]
        /\ \A g \in [1..c -> S] : Ascends(g, c, R) => g = q
    BY <1>2, <1>3, SortedIs
  <1> HIDE DEF c
  <1>5. f = q
    <2>1. q \in [1..c -> S] /\ Ascends(q, c, R)
      BY <1>2, <1>4
    <2>2. f \in [1..c -> S] /\ Ascends(f, c, R)
      BY <2>1
    <2> HIDE DEF f
    <2> QED
      BY <1>4, <2>2
  <1> HIDE DEF f
  <1>6. c \in Nat
    BY <1>2, <1>4
  <1>7. f \in Bijection(1..c, S)
    <2>1. \A i, k \in 1..c : q[i] = q[k] => i = k
      <3>1. \A x \in S : <<x, x>> \notin R
        BY DEF Strict
      <3>2. \A i, k \in 1..c : i < k => q[i] # q[k]
        BY <1>2, <1>4, <3>1 DEF Ascends
      <3> QED
        BY <1>6, <3>2
    <2>2. q \in Injection(1..c, S)
      BY <1>4, <2>1 DEF Injection, IsInjective
    <2>3. q \in Surjection(1..c, S)
      <3>1. q \in [1..c -> S] /\ \A x \in S : \E i \in 1..c : q[i] = x
        BY <1>3, <1>4
      <3> QED
        BY <3>1 DEF Surjection
    <2> QED
      BY <1>5, <2>2, <2>3 DEF Bijection
  <1>8. StepNames(f) = p
    <2>1. \A n \in 1..Len(Q) : Imaged(P[n], Q[n], h)
      <3>1. ASSUME NEW n \in 1..Len(Q), NEW k \in 1..Len(Q[n])
            PROVE  P[n][k] = h[Q[n][k]]
        <4>1. Q[n] \in Seq(S)
          OBVIOUS
        <4>2. Q[n][k] \in S
          BY <4>1
        <4>3. P[n][k] = Q[n][k].step
          BY DEF Names
        <4> QED
          BY <4>2, <4>3
      <3> HIDE DEF h
      <3> QED
        BY <3>1 DEF Imaged, Names
    <2>2. p \in Seq(Steps) /\ Imaged(p, q, h)
      <3> HIDE DEF h
      <3> QED
        BY <2>1, ImagedFlatten DEF q, Names
    <2> HIDE DEF p
    <2>3. Len(p) = Len(q) /\ \A i \in 1..Len(q) : p[i] = q[i].step
      <3>1. \A i \in 1..Len(q) : q[i] \in S
        BY <1>2
      <3>2. Len(p) = Len(q) /\ \A i \in 1..Len(q) : p[i] = h[q[i]]
        <4> HIDE DEF h
        <4> QED
          BY <2>2 DEF Imaged
      <3> QED
        BY <3>1, <3>2
    <2>4. DOMAIN q = 1..Len(q) /\ p = [i \in 1..Len(p) |-> p[i]]
      BY <1>2, <2>2
    <2> QED
      BY <1>5, <2>3, <2>4 DEF StepNames
  <1> QED
    BY <1>4, <1>6, <1>7, <1>8 DEF c, f, Listed

\* planning_step_order: the planned steps in the order of the journal.
LEMMA PlanningOrder ==
  ASSUME NEW j \in Seq(Events)
  PROVE  PlanningStepOrder(Ix(j)) =
           FlattenSeq([n \in 1..Len(j) |-> IF j[n].kind \in Planning THEN j[n].steps ELSE <<>>])
  <1> DEFINE S == Ix(j).stepPositions
             Before(p, q) == p.seq < q.seq \/ (p.seq = q.seq /\ p.at < q.at)
             R == {z \in S \X S : Before(z[1], z[2])}
             At2(n) == [i \in 1..Len(j[n].steps) |-> Place(j, n, i)]
             Q == [n \in 1..Len(j) |-> IF j[n].kind \in Planning THEN At2(n) ELSE <<>>]
             P == [n \in 1..Len(j) |-> IF j[n].kind \in Planning THEN j[n].steps ELSE <<>>]
  <1>1. \A r : r \in S <=>
          \E n \in PlannedAt(j) : \E i \in 1..Len(j[n].steps) : r = Place(j, n, i)
    BY PositionsAre
  <1> HIDE DEF S
  <1>2. \A n \in 1..Len(j) : j[n].steps \in Seq(Steps)
    BY EventShape
  <1>3. ASSUME NEW n \in 1..Len(j), j[n].kind \in Planning, NEW i \in 1..Len(j[n].steps)
        PROVE  Place(j, n, i) \in S
    BY <1>1, <1>3 DEF PlannedAt
  <1>4. Q \in Seq(Seq(S)) /\ Len(Q) = Len(j)
    <2>1. ASSUME NEW n \in 1..Len(j), j[n].kind \in Planning PROVE At2(n) \in Seq(S)
      <3>1. Len(j[n].steps) \in Nat
        BY <1>2
      <3> QED
        BY <1>3, <2>1, <3>1
    <2>2. <<>> \in Seq(S)
      OBVIOUS
    <2> HIDE DEF At2
    <2>3. \A n \in 1..Len(j) : Q[n] \in Seq(S)
      BY <2>1, <2>2
    <2> QED
      BY <2>3
  <1>5. P \in Seq(Seq(Steps)) /\ Len(P) = Len(Q)
    <2>1. \A n \in 1..Len(j) : P[n] \in Seq(Steps)
      BY <1>2
    <2>2. P \in Seq(Seq(Steps)) /\ Len(P) = Len(j)
      BY <2>1
    <2> HIDE DEF P, Q
    <2> QED
      BY <1>4, <2>2
  <1>6. ASSUME NEW n \in 1..Len(j)
        PROVE  /\ Len(P[n]) = Len(Q[n])
               /\ \A k \in 1..Len(Q[n]) :
                    /\ j[n].kind \in Planning /\ k \in 1..Len(j[n].steps)
                    /\ Q[n][k] = Place(j, n, k) /\ P[n][k] = Q[n][k].step
                    /\ Q[n][k].seq = n /\ Q[n][k].at = k
    <2>1. CASE j[n].kind \in Planning
      <3>1. Q[n] = At2(n) /\ P[n] = j[n].steps
        BY <2>1
      <3>2. Len(j[n].steps) \in Nat
        BY <1>2
      <3> HIDE DEF Q, P
      <3> QED
        BY <2>1, <3>1, <3>2 DEF Place
    <2>2. CASE j[n].kind \notin Planning
      <3>1. Q[n] = <<>> /\ P[n] = <<>>
        BY <2>2
      <3> HIDE DEF Q, P
      <3> QED
        BY <3>1
    <2> QED
      BY <2>1, <2>2
  <1> HIDE DEF Q, P
  <1>7. Graded(Q, R)
    <2>0. \A n \in 1..Len(j) : \A k \in 1..Len(Q[n]) : Q[n][k] \in S
      BY <1>3, <1>6
    <2>1. ASSUME NEW n \in 1..Len(Q) PROVE Ascends(Q[n], Len(Q[n]), R)
      <3>1. ASSUME NEW i \in 1..Len(Q[n]), NEW k \in 1..Len(Q[n]), i < k
            PROVE  <<Q[n][i], Q[n][k]>> \in R
        <4>1. Q[n][i] \in S /\ Q[n][k] \in S
          BY <1>4, <2>0
        <4>2. Before(Q[n][i], Q[n][k])
          BY <1>4, <1>6, <3>1
        <4> QED
          BY <4>1, <4>2
      <3> HIDE DEF R
      <3> QED
        BY <3>1 DEF Ascends
    <2>2. ASSUME NEW m \in 1..Len(Q), NEW n \in 1..Len(Q), m < n,
                 NEW i \in 1..Len(Q[m]), NEW k \in 1..Len(Q[n])
          PROVE  <<Q[m][i], Q[n][k]>> \in R
      <3>1. Q[m][i] \in S /\ Q[n][k] \in S
        BY <1>4, <2>0
      <3>2. Before(Q[m][i], Q[n][k])
        BY <1>4, <1>6, <2>2
      <3> QED
        BY <3>1, <3>2
    <2> HIDE DEF R
    <2> QED
      BY <2>1, <2>2 DEF Graded
  <1>8. Strict(R, S)
    <2>1. \A r \in S : r.seq \in Nat /\ r.at \in Nat
      BY <1>1, <1>2 DEF PlannedAt, Place
    <2>2. \A p, q \in S : Before(p, q) => ~Before(q, p)
      BY <2>1
    <2>3. \A p, q \in S : <<p, q>> \in R <=> Before(p, q)
      OBVIOUS
    <2> HIDE DEF R, Before
    <2> QED
      BY <2>2, <2>3 DEF Strict
  <1>9. Covers(Q, S)
    <2>1. SUFFICES ASSUME NEW x \in S
                   PROVE  \E n \in 1..Len(Q) : \E k \in 1..Len(Q[n]) : Q[n][k] = x
      BY DEF Covers
    <2>2. PICK n \in PlannedAt(j) : \E i \in 1..Len(j[n].steps) : x = Place(j, n, i)
      BY <1>1
    <2>3. PICK i \in 1..Len(j[n].steps) : x = Place(j, n, i)
      BY <2>2
    <2>4. n \in 1..Len(Q) /\ j[n].kind \in Planning
      BY <1>4 DEF PlannedAt
    <2>5. Q[n] = At2(n)
      BY <1>4, <2>4 DEF Q
    <2>6. Len(j[n].steps) \in Nat
      BY <1>2, <1>4, <2>4
    <2>7. i \in 1..Len(Q[n]) /\ Q[n][i] = x
      BY <2>3, <2>5, <2>6
    <2> QED
      BY <2>4, <2>7
  <1>10. Names(P, Q)
    BY <1>4, <1>5, <1>6 DEF Names
  <1>11. StepNames(Listed(S, R)) = FlattenSeq(P)
    <2> HIDE DEF R
    <2> QED
      BY <1>4, <1>5, <1>7, <1>8, <1>9, <1>10, OrderOf
  <1>12. PlanningStepOrder(Ix(j)) = StepNames(Listed(S, R))
    <2> DEFINE c == Cardinality(S)
               Sorted(g) == \A i, k \in 1..c : i < k =>
                 (g[i].seq < g[k].seq \/ (g[i].seq = g[k].seq /\ g[i].at < g[k].at))
    <2>1. \A g \in [1..c -> S] : Sorted(g) <=> Ascends(g, c, R)
      BY DEF Ascends
    <2>2. PlanningStepOrder(Ix(j)) = StepNames(CHOOSE g \in [1..c -> S] : Sorted(g))
      BY DEF PlanningStepOrder, InOrder, S
    <2> HIDE DEF R, Sorted, c
    <2>3. (CHOOSE g \in [1..c -> S] : Sorted(g)) = (CHOOSE g \in [1..c -> S] : Ascends(g, c, R))
      BY <2>1
    <2> QED
      BY <2>2, <2>3 DEF c, Listed
  <1> QED
    BY <1>11, <1>12 DEF P

\* Where a passed receipt shows an output.
ShownAt(j, n) ==
    j[n].kind = "VerificationRecorded" /\ j[n].flag /\ OwesOutput(j, j[n].steps[1])

\* No step that was verified without a receipt owes an output.
Legacy(j) == \A n \in Of(j, "VerificationPassed") : ~OwesOutput(j, j[n].steps[1])

\* A step has one receipt at most: nothing about it follows the first.
LEMMA ReceiptOnce ==
  ASSUME NEW j \in Seq(Events), Replays(j), NEW m \in 1..Len(j), NEW n \in 1..Len(j),
         j[m].kind = "VerificationRecorded", j[n].kind = "VerificationRecorded",
         NEW s \in Range(j[m].steps), s \in Range(j[n].steps)
  PROVE  m = n
  <1>1. ASSUME NEW a \in 1..Len(j), j[a].kind = "VerificationRecorded", s \in Range(j[a].steps),
               NEW b \in 1..Len(j), s \in Range(j[b].steps), a < b
        PROVE  FALSE
    <2> DEFINE Bad == {i \in 1..Len(j) : s \in Range(j[i].steps) /\ a < i}
    <2>1. PICK i \in Bad : \A k \in Bad : i <= k
      <3>1. Bad \subseteq Nat /\ b \in Bad
        BY <1>1
      <3> HIDE DEF Bad
      <3> QED
        BY <3>1, LeastOf
    <2> DEFINE p == Latest(Prior(j, i, s))
    <2>2. i \in 1..Len(j) /\ s \in Range(j[i].steps) /\ a \in Prior(j, i, s)
      BY <1>1, <2>1 DEF Prior
    <2>3. /\ p \in Prior(j, i, s) /\ a <= p
          /\ j[p].kind \in AboutStep /\ j[i].kind \in Follows[j[p].kind]
      BY <2>2, StepOrder
    <2> HIDE DEF p
    <2>4. p \in 1..Len(j) /\ s \in Range(j[p].steps) /\ p < i
      BY <2>2, <2>3 DEF Prior
    <2>5. p = a
      <3>1. p \notin Bad
        BY <2>1, <2>2, <2>4
      <3> QED
        BY <1>1, <2>3, <2>4, <3>1
    <2>6. j[p].kind # "VerificationRecorded"
      BY <2>3, FollowsBack
    <2> QED
      BY <1>1, <2>5, <2>6
  <1>2. ~(m < n) /\ ~(n < m)
    BY <1>1
  <1> QED
    BY <1>2

\* The completed steps with an output are those that a passed receipt shows.
LEMMA ShownSteps ==
  ASSUME NEW j \in Seq(Events), Replays(j), Legacy(j), NEW s
  PROVE  s \in Ix(j).completed \cap Ix(j).outputBound <=>
           \E n \in 1..Len(j) : ShownAt(j, n) /\ j[n].steps[1] = s
  <1>1. /\ Ix(j).completed =
             {x \in Steps : LastKind(j, x) = "VerificationPassed" \/ ReceiptPassed(j, x)}
        /\ Ix(j).outputBound = {x \in Steps : \E n \in About(j, "EffectSucceeded", x) : j[n].flag}
    BY DEF Ix, IndexOf, Database
  <1>2. \A n \in 1..Len(j) : \A k \in {"VerificationRecorded", "VerificationPassed"} :
          j[n].kind = k => Range(j[n].steps) = {j[n].steps[1]} /\ j[n].steps[1] \in Steps
    <2>1. ASSUME NEW n \in 1..Len(j),
                 j[n].kind \in {"VerificationRecorded", "VerificationPassed"}
          PROVE  Range(j[n].steps) = {j[n].steps[1]} /\ j[n].steps[1] \in Steps
      <3>1. j[n] \in Events /\ j[n].kind \in Solo
        BY <2>1 DEF Solo, Plain, Flagged
      <3> QED
        BY <3>1, EventShape
    <2> QED
      BY <2>1
  <1>3. ASSUME s \in Ix(j).completed \cap Ix(j).outputBound
        PROVE  \E n \in 1..Len(j) : ShownAt(j, n) /\ j[n].steps[1] = s
    <2>1. PICK m \in About(j, "EffectSucceeded", s) : j[m].flag
      BY <1>1, <1>3
    <2>2. OwesOutput(j, s)
      BY <2>1, SuccessOwes DEF About, Of
    <2>3. LastKind(j, s) # "VerificationPassed"
      <3> DEFINE I == {n \in 1..Len(j) : s \in Range(j[n].steps)}
                 l == Latest(I)
      <3>1. SUFFICES ASSUME LastKind(j, s) = "VerificationPassed" PROVE FALSE
        OBVIOUS
      <3>2. Len(j) \in Nat /\ I \in SUBSET (1..Len(j))
        OBVIOUS
      <3>3. l # 0 /\ j[l].kind = "VerificationPassed"
        BY <3>1 DEF LastKind
      <3>4. l \in I
        <4> HIDE DEF I
        <4> QED
          BY <3>2, <3>3, LatestOf
      <3> HIDE DEF l
      <3>5. l \in Of(j, "VerificationPassed") /\ j[l].steps[1] = s
        BY <1>2, <3>3, <3>4 DEF Of
      <3> QED
        BY <2>2, <3>5 DEF Legacy
    <2>4. PICK n \in About(j, "VerificationRecorded", s) : j[n].flag
      BY <1>1, <1>3, <2>3 DEF ReceiptPassed
    <2>5. n \in 1..Len(j) /\ j[n].kind = "VerificationRecorded" /\ j[n].steps[1] = s
      BY <1>2, <2>4 DEF About, Of
    <2> QED
      BY <2>2, <2>4, <2>5 DEF ShownAt
  <1>4. ASSUME NEW n \in 1..Len(j), ShownAt(j, n), j[n].steps[1] = s
        PROVE  s \in Ix(j).completed \cap Ix(j).outputBound
    <2>1. j[n].kind = "VerificationRecorded" /\ j[n].flag /\ OwesOutput(j, s)
      BY <1>4 DEF ShownAt
    <2>2. s \in Range(j[n].steps) /\ s \in Steps
      BY <1>2, <1>4, <2>1
    <2>3. ReceiptPassed(j, s)
      BY <2>1, <2>2 DEF ReceiptPassed, About, Of
    <2>4. PICK m \in Prior(j, n, s) : j[m].kind = "EffectSucceeded"
      BY <2>1, <2>2, SuccessBefore
    <2>5. m \in 1..Len(j) /\ s \in Range(j[m].steps)
      BY DEF Prior
    <2>6. j[m].flag
      BY <2>1, <2>4, <2>5, SuccessOwes
    <2>7. m \in About(j, "EffectSucceeded", s)
      BY <2>4, <2>5 DEF About, Of
    <2> QED
      BY <1>1, <2>2, <2>3, <2>6, <2>7
  <1> QED
    BY <1>3, <1>4

\* The entry the index keeps for the receipt at n.
ReceiptAt(j, n) ==
    [step |-> j[n].steps[1], seq |-> n, passed |-> j[n].flag,
     start |-> Latest(Starts(j, j[n].steps[1], n))]

\* completed_tool_output_order: the shown steps in the order of their receipts,
\* each of them once.
LEMMA OutputOrder ==
  ASSUME NEW j \in Seq(Events), Replays(j), NEW shown,
         \A s : s \in shown <=> \E n \in 1..Len(j) : ShownAt(j, n) /\ j[n].steps[1] = s
  PROVE  LET order == CompletedToolOutputOrder(Ix(j), shown)
         IN  /\ order = FlattenSeq([n \in 1..Len(j) |->
                          IF ShownAt(j, n) THEN j[n].steps ELSE <<>>])
             /\ Range(order) = shown /\ Len(order) = Cardinality(shown)
  <1> DEFINE S == {r \in Ix(j).receiptEvents : r.passed /\ r.step \in shown}
             R == {z \in S \X S : z[1].seq < z[2].seq}
             Q == [n \in 1..Len(j) |-> IF ShownAt(j, n) THEN <<ReceiptAt(j, n)>> ELSE <<>>]
             P == [n \in 1..Len(j) |-> IF ShownAt(j, n) THEN j[n].steps ELSE <<>>]
             c == Cardinality(S)
             order == CompletedToolOutputOrder(Ix(j), shown)
  <1>1. Ix(j).receiptEvents = {ReceiptAt(j, n) : n \in Of(j, "VerificationRecorded")}
    BY DEF Ix, IndexOf, Database, ReceiptAt
  <1>2. ASSUME NEW n \in 1..Len(j), j[n].kind = "VerificationRecorded"
        PROVE  j[n].steps = <<j[n].steps[1]>> /\ j[n].steps[1] \in Steps
               /\ Range(j[n].steps) = {j[n].steps[1]} /\ j[n].flag \in BOOLEAN
    <2>1. j[n] \in Events /\ j[n].kind \in Solo
      BY <1>2 DEF Solo, Flagged
    <2> QED
      BY <2>1, EventShape
  <1>3. \A r : r \in S <=> \E n \in 1..Len(j) : ShownAt(j, n) /\ r = ReceiptAt(j, n)
    <2>1. ASSUME NEW r \in S PROVE \E n \in 1..Len(j) : ShownAt(j, n) /\ r = ReceiptAt(j, n)
      <3>1. PICK n \in Of(j, "VerificationRecorded") : r = ReceiptAt(j, n)
        BY <1>1
      <3>2. j[n].flag /\ j[n].steps[1] \in shown
        BY <2>1, <3>1 DEF ReceiptAt
      <3>3. OwesOutput(j, j[n].steps[1])
        BY <3>2 DEF ShownAt
      <3> QED
        BY <3>1, <3>2, <3>3 DEF ShownAt, Of
    <2>2. ASSUME NEW n \in 1..Len(j), ShownAt(j, n) PROVE ReceiptAt(j, n) \in S
      <3>1. n \in Of(j, "VerificationRecorded") /\ j[n].flag /\ j[n].steps[1] \in shown
        BY <2>2 DEF ShownAt, Of
      <3>2. ReceiptAt(j, n).passed = j[n].flag /\ ReceiptAt(j, n).step = j[n].steps[1]
        BY DEF ReceiptAt
      <3> QED
        BY <1>1, <3>1, <3>2
    <2> HIDE DEF S
    <2> QED
      BY <2>1, <2>2
  <1> HIDE DEF S
  <1>4. Q \in Seq(Seq(S)) /\ Len(Q) = Len(j)
    <2>1. \A n \in 1..Len(j) : ShownAt(j, n) => <<ReceiptAt(j, n)>> \in Seq(S)
      BY <1>3
    <2>2. \A n \in 1..Len(j) : Q[n] \in Seq(S)
      BY <2>1
    <2> QED
      BY <2>2
  <1>5. P \in Seq(Seq(Steps)) /\ Len(P) = Len(j)
    <2>1. \A n \in 1..Len(j) : P[n] \in Seq(Steps)
      BY EventShape
    <2> QED
      BY <2>1
  <1>6. ASSUME NEW n \in 1..Len(j)
        PROVE  /\ Len(P[n]) = Len(Q[n])
               /\ \A k \in 1..Len(Q[n]) :
                    /\ ShownAt(j, n) /\ k = 1 /\ Q[n][k] = ReceiptAt(j, n)
                    /\ P[n][k] = Q[n][k].step /\ Q[n][k].seq = n /\ Q[n][k] \in S
               /\ ShownAt(j, n) => Len(Q[n]) = 1 /\ Q[n][1] = ReceiptAt(j, n)
    <2>1. CASE ShownAt(j, n)
      <3>1. Q[n] = <<ReceiptAt(j, n)>> /\ P[n] = j[n].steps
        BY <2>1
      <3>2. j[n].steps = <<j[n].steps[1]>> /\ ReceiptAt(j, n) \in S
        BY <1>2, <1>3, <2>1 DEF ShownAt
      <3>3. ReceiptAt(j, n).step = j[n].steps[1] /\ ReceiptAt(j, n).seq = n
        BY DEF ReceiptAt
      <3> HIDE DEF Q, P
      <3>4. Len(P[n]) = 1 /\ P[n][1] = j[n].steps[1]
        <4>1. PICK x : x = j[n].steps[1]
          OBVIOUS
        <4>2. P[n] = <<x>>
          BY <3>1, <3>2, <4>1
        <4>3. Len(<<x>>) = 1 /\ <<x>>[1] = x
          OBVIOUS
        <4> QED
          BY <4>1, <4>2, <4>3
      <3>5. Len(Q[n]) = 1 /\ Q[n][1] = ReceiptAt(j, n)
        BY <3>1
      <3> QED
        BY <2>1, <3>2, <3>3, <3>4, <3>5
    <2>2. CASE ~ShownAt(j, n)
      <3>1. Q[n] = <<>> /\ P[n] = <<>>
        BY <2>2
      <3> HIDE DEF Q, P
      <3> QED
        BY <2>2, <3>1
    <2> QED
      BY <2>1, <2>2
  <1>7. \A p, q \in S : <<p, q>> \in R <=> p.seq < q.seq
    OBVIOUS
  <1>8. \A r \in S : r.seq \in Nat
    BY <1>3 DEF ReceiptAt
  <1> HIDE DEF Q, R
  <1>9. Graded(Q, R)
    <2>1. ASSUME NEW n \in 1..Len(Q) PROVE Ascends(Q[n], Len(Q[n]), R)
      BY <1>4, <1>6 DEF Ascends
    <2>2. ASSUME NEW m \in 1..Len(Q), NEW n \in 1..Len(Q), m < n,
                 NEW i \in 1..Len(Q[m]), NEW k \in 1..Len(Q[n])
          PROVE  <<Q[m][i], Q[n][k]>> \in R
      <3>1. Q[m][i] \in S /\ Q[n][k] \in S /\ Q[m][i].seq = m /\ Q[n][k].seq = n
        BY <1>4, <1>6
      <3> QED
        BY <1>7, <2>2, <3>1
    <2> QED
      BY <2>1, <2>2 DEF Graded
  <1>10. Strict(R, S)
    BY <1>7, <1>8 DEF Strict
  <1>11. Covers(Q, S)
    <2>1. SUFFICES ASSUME NEW x \in S
                   PROVE  \E n \in 1..Len(Q) : \E k \in 1..Len(Q[n]) : Q[n][k] = x
      BY DEF Covers
    <2>2. PICK n \in 1..Len(j) : ShownAt(j, n) /\ x = ReceiptAt(j, n)
      BY <1>3
    <2>3. n \in 1..Len(Q) /\ 1 \in 1..Len(Q[n]) /\ Q[n][1] = x
      BY <1>4, <1>6, <2>2
    <2> QED
      BY <2>3
  <1>12. Names(P, Q)
    <2> HIDE DEF P
    <2> QED
      BY <1>4, <1>5, <1>6 DEF Names
  <1> DEFINE f == Listed(S, R)
  <1>13. StepNames(f) = FlattenSeq(P) /\ c \in Nat /\ f \in Bijection(1..c, S)
    <2> HIDE DEF P
    <2> QED
      BY <1>4, <1>5, <1>9, <1>10, <1>11, <1>12, OrderOf
  <1>14. order = StepNames(f)
    <2> DEFINE Sorted(g) == \A i, k \in 1..c : i < k => g[i].seq < g[k].seq
    <2>1. \A g \in [1..c -> S] : Sorted(g) <=> Ascends(g, c, R)
      BY <1>7 DEF Ascends
    <2>2. order = StepNames(CHOOSE g \in [1..c -> S] : Sorted(g))
      BY DEF CompletedToolOutputOrder, InOrder, S
    <2>3. (CHOOSE g \in [1..c -> S] : Sorted(g)) = (CHOOSE g \in [1..c -> S] : Ascends(g, c, R))
      <3> HIDE DEF Sorted, c
      <3> QED
        BY <2>1
    <2> QED
      BY <2>2, <2>3 DEF Listed
  <1> HIDE DEF f, order, c
  <1>15. /\ order = [i \in 1..c |-> f[i].step] /\ f \in [1..c -> S]
         /\ \A i, k \in 1..c : f[i] = f[k] => i = k
         /\ \A x \in S : \E i \in 1..c : f[i] = x
    <2>1. f \in [1..c -> S] /\ DOMAIN f = 1..c
      BY <1>13 DEF Bijection, Surjection
    <2> QED
      BY <1>13, <1>14, <2>1 DEF StepNames, Bijection, Injection, Surjection, IsInjective
  <1>16. ASSUME NEW x \in S PROVE x.step \in shown
    <2>1. PICK n \in 1..Len(j) : ShownAt(j, n) /\ x = ReceiptAt(j, n)
      BY <1>3
    <2>2. x.step = j[n].steps[1]
      BY <2>1 DEF ReceiptAt
    <2> QED
      BY <2>1, <2>2
  <1>17. ASSUME NEW s \in shown PROVE \E x \in S : x.step = s
    <2>1. PICK n \in 1..Len(j) : ShownAt(j, n) /\ j[n].steps[1] = s
      OBVIOUS
    <2>2. ReceiptAt(j, n) \in S /\ ReceiptAt(j, n).step = s
      <3>1. ReceiptAt(j, n) \in S
        BY <1>3, <2>1
      <3> QED
        BY <2>1, <3>1 DEF ReceiptAt
    <2> QED
      BY <2>2
  <1>18. ASSUME NEW x \in S, NEW y \in S, x.step = y.step PROVE x = y
    <2>1. PICK m \in 1..Len(j) : ShownAt(j, m) /\ x = ReceiptAt(j, m)
      BY <1>3
    <2>2. PICK n \in 1..Len(j) : ShownAt(j, n) /\ y = ReceiptAt(j, n)
      BY <1>3
    <2>3. j[m].kind = "VerificationRecorded" /\ j[n].kind = "VerificationRecorded"
          /\ j[m].steps[1] = j[n].steps[1]
      BY <1>18, <2>1, <2>2 DEF ShownAt, ReceiptAt
    <2>4. j[m].steps[1] \in Range(j[m].steps) /\ j[m].steps[1] \in Range(j[n].steps)
      BY <1>2, <2>3
    <2>5. m = n
      BY <2>3, <2>4, ReceiptOnce
    <2> QED
      BY <2>1, <2>2, <2>5
  <1>19. /\ order \in [1..c -> shown]
         /\ \A i, k \in 1..c : order[i] = order[k] => i = k
         /\ \A s \in shown : \E i \in 1..c : order[i] = s
    <2>1. \A i \in 1..c : order[i] = f[i].step /\ f[i] \in S
      BY <1>15
    <2>2. order \in [1..c -> shown]
      BY <1>15, <1>16, <2>1
    <2>3. \A i, k \in 1..c : order[i] = order[k] => i = k
      BY <1>15, <1>18, <2>1
    <2>4. ASSUME NEW s \in shown PROVE \E i \in 1..c : order[i] = s
      <3>1. PICK x \in S : x.step = s
        BY <1>17
      <3>2. PICK i \in 1..c : f[i] = x
        BY <1>15
      <3> QED
        BY <2>1, <3>1, <3>2
    <2> QED
      BY <2>2, <2>3, <2>4
  <1>20. Len(order) = c
    BY <1>13, <1>19
  <1>21. Range(order) = shown
    BY <1>19 DEF Range
  <1>22. Cardinality(shown) = c
    <2>1. order \in Bijection(1..c, shown)
      BY <1>19 DEF Bijection, Injection, Surjection, IsInjective
    <2>2. ExistsBijection(1..c, shown)
      BY <2>1 DEF ExistsBijection
    <2> QED
      BY <1>13, <2>2, FS_CountingElements
  <1> QED
    BY <1>13, <1>14, <1>20, <1>21, <1>22 DEF order

\* The snapshot of a sound database, from the index of its journal.
LEMMA SnapshotIs ==
  ASSUME NEW d, Sound(d), Legacy(d.events)
  PROVE  PlanningSnapshot(Ix(d.events), d) =
           [steps |-> FlattenSeq([n \in 1..Len(d.events) |->
              IF d.events[n].kind \in Planning THEN d.events[n].steps ELSE <<>>]),
            outputs |-> FlattenSeq([n \in 1..Len(d.events) |->
              IF ShownAt(d.events, n) THEN d.events[n].steps ELSE <<>>])]
  <1> DEFINE j == d.events
             ix == Ix(j)
             shown == ix.completed \cap ix.outputBound
             order == CompletedToolOutputOrder(ix, shown)
  <1>1. j \in Seq(Events) /\ Replays(j) /\ Legacy(j) /\ \A t \in Tables : d.rows[t] = Expected(j, t)
    BY DEF Sound
  <1>2. \A s : s \in shown <=> \E n \in 1..Len(j) : ShownAt(j, n) /\ j[n].steps[1] = s
    BY <1>1, ShownSteps
  <1>3. ASSUME NEW s \in shown
        PROVE  s \in StepsIn(d, "tool_outputs") /\ s \in ix.receipts
    <2>1. PICK n \in 1..Len(j) : ShownAt(j, n) /\ j[n].steps[1] = s
      BY <1>2
    <2>2. n \in Of(j, "VerificationRecorded") /\ j[n].kind = "VerificationRecorded"
          /\ OwesOutput(j, s)
      BY <2>1 DEF ShownAt, Of
    <2>3. "tool_outputs" \in Tables /\ "execution_receipts" \in Tables
      BY DEF Tables
    <2>4. s \in StepsIn(d, "tool_outputs")
      <3>1. \E r \in Expected(j, "tool_outputs") : r.step = s
        BY <1>1, <2>1, <2>2, OutputRowsOwed
      <3> QED
        BY <1>1, <2>3, <3>1 DEF StepsIn
    <2>5. Row(s, n, PreviousReceipt(j, n)) \in Expected(j, "execution_receipts")
      <3>1. Row(s, n, PreviousReceipt(j, n))
              \in RowsOf(j[n], n, PreviousReceipt(j, n), "execution_receipts")
        BY <2>1, <2>2, RowsByTable
      <3> QED
        BY <1>1, <2>3, <3>1, ExpectedRows
    <2>6. ix.receipts = StepsIn(Database(j), "execution_receipts")
      BY DEF Ix, IndexOf
    <2>7. Database(j).rows["execution_receipts"] = Expected(j, "execution_receipts")
      BY <2>3 DEF Database
    <2>8. s \in ix.receipts
      BY <2>5, <2>6, <2>7 DEF StepsIn, Row
    <2> QED
      BY <2>4, <2>8
  <1>4. /\ order = FlattenSeq([n \in 1..Len(j) |-> IF ShownAt(j, n) THEN j[n].steps ELSE <<>>])
        /\ Range(order) = shown /\ Len(order) = Cardinality(shown)
    <2> HIDE DEF shown
    <2> QED
      BY <1>1, <1>2, OutputOrder
  <1>5. PlanningStepOrder(ix) =
          FlattenSeq([n \in 1..Len(j) |-> IF j[n].kind \in Planning THEN j[n].steps ELSE <<>>])
    BY <1>1, PlanningOrder
  <1>6. PlanningSnapshot(ix, d) =
          IF /\ shown \subseteq StepsIn(d, "tool_outputs") \cap ix.receipts
             /\ Range(order) = shown /\ Len(order) = Cardinality(shown)
          THEN [steps |-> PlanningStepOrder(ix), outputs |-> order] ELSE None
    BY DEF PlanningSnapshot
  <1> HIDE DEF shown, order, ix
  <1>7. shown \subseteq StepsIn(d, "tool_outputs") \cap ix.receipts
    BY <1>3
  <1>8. PlanningSnapshot(ix, d) = [steps |-> PlanningStepOrder(ix), outputs |-> order]
    BY <1>4, <1>6, <1>7
  <1> QED
    BY <1>4, <1>5, <1>8 DEF ix

\* An appended record verifies nothing without a receipt, and no intent comes after
\* a verification.
LEMMA LegacyAppend ==
  ASSUME NEW j \in Seq(Events), NEW e \in Events, Replays(j), Accepts(j, e),
         e.kind # "VerificationPassed", Legacy(j)
  PROVE  Legacy(Append(j, e))
  <1> DEFINE k == Append(j, e)
             N == Len(j) + 1
  <1>1. /\ k \in Seq(Events) /\ Len(k) = N /\ k[N] = e /\ N \in 1..N
        /\ \A n \in 1..Len(j) : k[n] = j[n] /\ n \in 1..N /\ n < N
        /\ \A n \in 1..N : n = N \/ n \in 1..Len(j)
    OBVIOUS
  <1>2. Replays(k)
    BY ReplaysAppend
  <1> HIDE DEF k
  <1>3. SUFFICES ASSUME NEW n \in Of(k, "VerificationPassed"), OwesOutput(k, k[n].steps[1])
                 PROVE  FALSE
    BY DEF Legacy, k
  <1> DEFINE s == k[n].steps[1]
  <1>4. n \in 1..Len(j) /\ k[n] = j[n] /\ j[n].kind = "VerificationPassed"
        /\ n \in Of(j, "VerificationPassed")
    BY <1>1, <1>3 DEF Of
  <1>5. s \in Range(k[n].steps)
    <2>1. k[n] \in Events /\ k[n].kind \in Solo
      BY <1>4 DEF Solo, Plain
    <2> QED
      BY <2>1, EventShape
  <1>6. PICK m \in 1..N : k[m].kind = "EffectIntentCommitted" /\ s \in Range(k[m].steps)
                          /\ k[m].flag
    BY <1>1, <1>3 DEF OwesOutput, About, Of
  <1>7. CASE m \in 1..Len(j)
    <2>1. m \in About(j, "EffectIntentCommitted", s) /\ j[m].flag
      BY <1>1, <1>6, <1>7 DEF About, Of
    <2>2. OwesOutput(j, s)
      BY <2>1 DEF OwesOutput
    <2> QED
      BY <1>4, <2>2 DEF Legacy
  <1>8. CASE m = N
    <2>1. n \in Prior(k, N, s)
      BY <1>1, <1>4, <1>5 DEF Prior
    <2>2. N \in 1..Len(k)
      BY <1>1
    <2>3. k[n].kind \in Planning
      BY <1>1, <1>2, <1>6, <1>8, <2>1, <2>2, IntentFirst
    <2> QED
      BY <1>4, <2>3 DEF Planning
  <1> QED
    BY <1>1, <1>6, <1>7, <1>8

\* So a journal that started so stays so.
LegacyInv == ~damaged => Legacy(LogOf)

\* The journals a store may start from are.
LEMMA LegacyInit == Init => LegacyInv
  BY LogInit, StoreAssumption DEF LegacyInv, Legacy

\* Every step keeps it: only an append adds an event, and the reducer accepts no
\* verification of a step that still owes its output.
LEMMA LegacyNext == TypeOK /\ Inv /\ LegacyInv /\ [Next]_vars => LegacyInv'
  <1> SUFFICES ASSUME TypeOK, Inv, LegacyInv, [Next]_vars PROVE LegacyInv'
    OBVIOUS
  <1>1. ASSUME LogOf' = LogOf, damaged' = damaged PROVE LegacyInv'
    BY <1>1 DEF LegacyInv
  <1>2. ASSUME UNCHANGED <<db, damaged>> PROVE LegacyInv'
    BY <1>1, <1>2 DEF LogOf
  <1>3. ASSUME NEW c \in Conns,
               CreateFile(c) \/ ReadVersion(c) \/ CreateSchema(c) \/ SetVersion(c) \/ Migrate(c)
                 \/ FinishOpen(c)
        PROVE  LegacyInv'
    <2>1. damaged' = damaged
      BY <1>3 DEF CreateFile, ReadVersion, CreateSchema, SetVersion, Migrate, FinishOpen,
                  CommitNow, dbVars
    <2> QED
      BY <1>1, <1>3, <2>1, OpeningKeepsLog
  <1>4. ASSUME NEW c \in Conns,
               \/ LoadCurrent(c) \/ LoadVerificationSnapshot(c) \/ Load(c) \/ AppendRefused(c)
               \/ BeginAppend(c) \/ WriteStage(c) \/ StageFails(c) \/ Acknowledge(c) \/ Crash(c)
        PROVE  LegacyInv'
    <2>1. UNCHANGED <<db, damaged>>
      BY <1>4 DEF LoadCurrent, LoadVerificationSnapshot, Load, AppendRefused, BeginAppend,
                  WriteStage, StageFails, Acknowledge, Crash, dbVars
    <2> QED
      BY <1>2, <2>1
  <1>5. ASSUME NEW c \in Conns, CommitDurable(c) PROVE LegacyInv'
    <2>1. writer = c /\ UNCHANGED damaged /\ pc' = [pc EXCEPT ![c] = "Committed"]
      BY <1>5 DEF CommitDurable, At
    <2>2. /\ ~damaged /\ db \in Databases /\ Sound(db) /\ db.events \in Seq(Events)
          /\ Prepared(c) /\ pending[c] \in Appending
      BY <2>1, WriterNow
    <2>3. Inv' /\ db'.events = Append(db.events, pending[c].event)
      BY <1>5, CommitDurableKeeps
    <2>4. pc'[c] = "Committed"
      BY <2>1 DEF TypeOK
    <2>5. db # None /\ db' # None
      BY <2>2, <2>3, <2>4, NoneApart DEF Inv, SchemaInv
    <2>6. pending[c].event \in Events /\ Accepts(db.events, pending[c].event)
          /\ pending[c].event.kind # "VerificationPassed" /\ Replays(db.events)
      BY <2>2 DEF Prepared, Appending, Appendable, ReceiptBundle, Sound
    <2>7. Legacy(db.events)
      BY <2>2, <2>5 DEF LegacyInv, LogOf
    <2>8. Legacy(Append(db.events, pending[c].event))
      BY <2>2, <2>6, <2>7, LegacyAppend
    <2> QED
      BY <2>3, <2>5, <2>8 DEF LegacyInv, LogOf
  <1>6. ASSUME Damage PROVE LegacyInv'
    BY <1>6 DEF Damage, LegacyInv
  <1>7. ASSUME OlderBinary PROVE LegacyInv'
    <2>1. db # None /\ UNCHANGED damaged /\ db'.events = db.events /\ db' # None
      BY <1>7, OlderBinaryKeeps DEF OlderBinary
    <2> QED
      BY <1>1, <2>1 DEF LogOf
  <1>8. ASSUME UNCHANGED vars PROVE LegacyInv'
    BY <1>2, <1>8 DEF vars
  <1> QED
    BY <1>3, <1>4, <1>5, <1>6, <1>7, <1>8 DEF Next

\* From a reusable index build_planning_snapshot always succeeds and shows the
\* steps in the order of their planning, the outputs in that of their receipts.
THEOREM PlanningFollowsJournalAlways == Spec => []PlanningFollowsJournal
  <1>1. ASSUME TypeOK, Inv, LegacyInv PROVE PlanningFollowsJournal
    <2> DEFINE j == db.events
               Shown(e) == e.kind = "VerificationRecorded" /\ e.flag /\ OwesOutput(j, e.steps[1])
    <2>1. SUFFICES ASSUME NEW c \in Conns, CacheCurrent(c), pc[c] = "Idle"
                   PROVE  PlanningSnapshot(cache[c], db) =
                            [steps |-> FlattenSeq([n \in 1..Len(j) |->
                               IF j[n].kind \in Planning THEN j[n].steps ELSE <<>>]),
                             outputs |-> FlattenSeq([n \in 1..Len(j) |->
                               IF Shown(j[n]) THEN j[n].steps ELSE <<>>])]
      BY DEF PlanningFollowsJournal
    <2>2. cache[c] # None /\ ~foreign[c]
      BY <2>1 DEF CacheCurrent
    <2>3. ~damaged /\ cache[c] = Ix(j)
      BY <1>1, <2>1, <2>2 DEF Inv, DataInv, CacheInv, CacheOk
    <2>4. db \in Databases /\ Sound(db)
      BY <1>1, <2>1, <2>3, AuditNow DEF Open
    <2>5. Legacy(j)
      BY <1>1, <2>3, <2>4, NoneApart DEF LegacyInv, LogOf
    <2>6. [n \in 1..Len(j) |-> IF Shown(j[n]) THEN j[n].steps ELSE <<>>]
            = [n \in 1..Len(j) |-> IF ShownAt(j, n) THEN j[n].steps ELSE <<>>]
      BY DEF ShownAt
    <2>7. PlanningSnapshot(Ix(j), db) =
            [steps |-> FlattenSeq([n \in 1..Len(j) |->
               IF j[n].kind \in Planning THEN j[n].steps ELSE <<>>]),
             outputs |-> FlattenSeq([n \in 1..Len(j) |->
               IF ShownAt(j, n) THEN j[n].steps ELSE <<>>])]
      BY <2>4, <2>5, SnapshotIs
    <2> QED
      BY <2>3, <2>6, <2>7
  <1> QED
    BY <1>1, LegacyInit, LegacyNext, InvAlways, PTL DEF Spec
=============================================================================
