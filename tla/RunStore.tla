------------------------------ MODULE RunStore ------------------------------
(***************************************************************************)
(* SqliteRunStore: the connections of several processes over the database  *)
(* of one run.  A connection keeps the verified index of its last audit    *)
(* and reuses it while SQLite's data_version and the durable head are the  *)
(* ones it noted; its own commits advance the index by one record.         *)
(*                                                                         *)
(* The head, a sequence number with a digest, is the length of the journal.*)
(* data_version is kept as the one bit the code compares: foreign[c] says  *)
(* that another connection has committed since c noted the version.        *)
(* SQLite is external: BEGIN IMMEDIATE admits one writer, a transaction    *)
(* takes effect at its commit or not at all, a reader sees committed data. *)
(***************************************************************************)
EXTENDS StoreSchema

CONSTANTS
    Conns,
    Histories,      \* the journals the database may hold at first
    Versions,       \* the schema versions it may have then
    MaxAppends      \* bound of the model: appends that may become durable

VARIABLES
    db,         \* committed: version, tables, events, projection, rows; None: no file
    writer,     \* the connection that holds the write lock, or None
    draft,      \* the writer's uncommitted database, or None
    stage,      \* the writer's next stage, an index into Stages
    pc,         \* Down; Reserved to Audit while opening; Idle, Writing, Committed; Refused
    read,       \* per connection the version it read when it opened, or None
    pending,    \* per connection the append under way, or None
    cache,      \* per connection the verified index, or None
    foreign,
    held,       \* what the caller last learnt: head (or None), receipt head
    appends,
    damaged     \* history variable: a foreign connection changed the data

vars == <<db, writer, draft, stage, pc, read, pending, cache, foreign, held, appends, damaged>>

dbVars == <<db, damaged, appends>>
writeVars == <<writer, draft, stage, pending>>

Flagged ==
    {"EffectIntentCommitted", "EffectSucceeded", "VerificationRecorded"}
Plain ==
    {"StepPlanned", "EffectExecutionStarted", "EffectBecameUnknown",
     "ReconciliationStarted", "ProvedNotApplied", "VerificationPassed"}

Alone == {<<s>> : s \in Steps}
Batches == {b \in SeqOf(Steps, 2) : b # <<>> /\ IsInjective(b)}

Events ==
    [kind : {"RunCreated"}, steps : {<<>>}, flag : {FALSE}]
    \cup [kind : {"CompletionCandidateRecorded"}, steps : {<<>>}, flag : BOOLEAN]
    \cup [kind : Plain, steps : Alone, flag : {FALSE}]
    \cup [kind : Flagged, steps : Alone, flag : BOOLEAN]
    \cup [kind : {"PlanAccepted"}, steps : Batches, flag : {FALSE}]

\* What a database file may hold.
Databases ==
    [version : Nat, tables : SUBSET Tables, events : Seq(Events), projection : Nat,
     rows : [Tables -> SUBSET [step : Steps \cup {None}, seq : Nat, prev : Nat]]]

\* The program starts without a file or with what one of its versions wrote.  A
\* verification without a receipt is older than the tool-output profile.
ASSUME StoreAssumption ==
    /\ <<>> \in Histories
    /\ \A j \in Histories : j \in Seq(Events) /\ Replays(j)
    /\ \A j \in Histories : \A n \in Of(j, "VerificationPassed") :
        ~OwesOutput(j, j[n].steps[1])
    /\ Versions \subseteq Migratable \cup {StoreSchemaVersion}
    /\ None \notin Conns \cup Databases

Derived == {"effect_intents", "authorization_consumption"}

\* Events with the sidecars handed in; the others are refused at once.
Candidates ==
    {o \in [event : Events, given : {{}} \cup {{t} : t \in Tables \ Derived}] :
        Appendable(o.event, o.given)}

\* The order of append_internal's writes (CommitStage).
Stages ==
    <<"run_events", "effect_intents", "authorization_consumption", "planned_invocations",
      "invocation_materials", "tool_outputs", "completion_outputs", "execution_receipts",
      "run_projection">>

Init ==
    /\ \/ db = None
       \/ \E j \in Histories, v \in Versions : Representable(j, v) /\ db = DatabaseAt(j, v)
    /\ writer = None /\ draft = None /\ stage = 1
    /\ pc = [c \in Conns |-> "Down"]
    /\ read = [c \in Conns |-> None]
    /\ pending = [c \in Conns |-> None]
    /\ cache = [c \in Conns |-> None]
    /\ foreign = [c \in Conns |-> FALSE]
    /\ held = [c \in Conns |-> [head |-> None, receiptHead |-> 0]]
    /\ appends = 0
    /\ damaged = FALSE

-----------------------------------------------------------------------------
(* The verified cache *)

CacheCurrent(c) ==
    /\ cache[c] # None
    /\ ~foreign[c]
    /\ cache[c].head = Len(db.events)

\* ensure_verified_cache: reuse the index, or audit everything again.
Verified(c) ==
    IF CacheCurrent(c) THEN cache[c]
    ELSE IF AuditOk(db) THEN IndexOf(db) ELSE None

Install(c, ix) ==
    /\ cache' = [cache EXCEPT ![c] = ix]
    /\ foreign' = [foreign EXCEPT ![c] = FALSE]

-----------------------------------------------------------------------------
(* Opening and reading *)

At(c, at) == pc' = [pc EXCEPT ![c] = at]

\* A statement of c outside an append, committed at once: every other connection
\* finds data_version changed.
CommitNow(c, d) ==
    /\ writer = None
    /\ db' = d
    /\ foreign' = [o \in Conns |-> foreign[o] \/ (d # db /\ o # c /\ cache[o] # None)]
    /\ UNCHANGED <<damaged, appends, writeVars, cache, held>>

NewFile == [Database(<<>>) EXCEPT !.version = 0, !.tables = {}]

\* create reserves a path without a file.  What open (compatibility) makes of
\* such a path is this and a Crash: an empty file, read as any other.
CreateFile(c) ==
    /\ pc[c] = "Down" /\ db = None
    /\ CommitNow(c, NewFile)
    /\ At(c, "Reserved") /\ UNCHANGED read

\* finish_open reads user_version and configures the connection.  A schema not
\* written yet is written by create and open and refused by open_existing, which
\* leaves the connection down; so does create if another one has written it.
ReadVersion(c) ==
    /\ pc[c] \in {"Down", "Reserved"} /\ db # None
    /\ read' = [read EXCEPT ![c] = db.version]
    /\ At(c, IF db.version = 0 THEN "Schema"
             ELSE IF pc[c] = "Reserved" THEN "Down"
             ELSE IF db.version \in Migratable THEN "Migrate"
             ELSE IF db.version = StoreSchemaVersion THEN "Audit" ELSE "Refused")
    /\ UNCHANGED <<dbVars, writeVars, cache, foreign, held>>

\* CREATE_SCHEMA, every table IF NOT EXISTS; then, separately, the version.
CreateSchema(c) ==
    /\ pc[c] = "Schema"
    /\ CommitNow(c, [db EXCEPT !.tables = Tables])
    /\ At(c, "Version") /\ UNCHANGED read

SetVersion(c) ==
    /\ pc[c] = "Version"
    /\ CommitNow(c, [db EXCEPT !.version = StoreSchemaVersion])
    /\ At(c, "Audit") /\ UNCHANGED read

\* migrate_schema_three to migrate_schema_seven.
Migrate(c) ==
    /\ pc[c] = "Migrate"
    /\ CommitNow(c, IF Migrates(db, read[c]) THEN Migrated(db, read[c]) ELSE db)
    /\ At(c, IF Migrates(db, read[c]) THEN "Audit" ELSE "Refused") /\ UNCHANGED read

\* build_verified_cache.
FinishOpen(c) ==
    /\ pc[c] = "Audit"
    /\ IF AuditOk(db) THEN Install(c, IndexOf(db)) /\ At(c, "Idle")
                      ELSE UNCHANGED <<cache, foreign>> /\ At(c, "Refused")
    /\ read' = [read EXCEPT ![c] = None]
    /\ UNCHANGED <<dbVars, writeVars, held>>

\* load_current and the point reads; a failed audit drops the cache.
LoadCurrent(c) ==
    /\ pc[c] = "Idle"
    /\ LET ix == Verified(c)
       IN  /\ Install(c, ix)
           /\ held' = IF ix = None THEN held ELSE [held EXCEPT ![c].head = ix.head]
    /\ UNCHANGED <<dbVars, writeVars, pc, read>>

\* The verifier's read also tells the receipt to chain to.
LoadVerificationSnapshot(c) ==
    /\ pc[c] = "Idle"
    /\ LET ix == Verified(c)
       IN  /\ Install(c, ix)
           /\ held' = IF ix = None THEN held
                      ELSE [held EXCEPT ![c] = [head |-> ix.head, receiptHead |-> ix.receiptHead]]
    /\ UNCHANGED <<dbVars, writeVars, pc, read>>

\* load and load_with_execution_receipts always audit; a failure leaves all as is.
Load(c) ==
    /\ pc[c] = "Idle"
    /\ AuditOk(db)
    /\ Install(c, IndexOf(db))
    /\ held' = [held EXCEPT ![c].head = Len(db.events)]
    /\ UNCHANGED <<dbVars, writeVars, pc, read>>

-----------------------------------------------------------------------------
(* Appending *)

\* Slip: the event is appended to whatever head the index has.
FitsAnyHead(ix, h, e) ==
    /\ Accepts(db.events, e)
    /\ CandidateFits(ix, db, e, h.receiptHead)

\* prepare_commit and the checks on the candidate: the verified index, what the
\* caller holds and the event.
Fits(ix, h, e) ==
    /\ h.head = ix.head
    /\ Accepts(db.events, e)
    /\ CandidateFits(ix, db, e, h.receiptHead)

Fitting(ix, c) ==
    IF ix = None THEN {} ELSE {o \in Candidates : Fits(ix, held[c], o.event)}

BeginAppend(c) ==
    /\ pc[c] = "Idle" /\ writer = None
    /\ appends < MaxAppends
    /\ LET ix == Verified(c)
       IN  /\ Install(c, ix)
           /\ \E o \in Fitting(ix, c) :
                pending' = [pending EXCEPT ![c] =
                    [event |-> o.event, given |-> o.given, prev |-> held[c].receiptHead]]
    /\ writer' = c /\ draft' = db /\ stage' = 1
    /\ At(c, "Writing")
    /\ UNCHANGED <<dbVars, read, held>>

\* HeadConflict, a refused event or candidate, or a failed audit: the
\* transaction is rolled back, the refreshed index (or its loss) remains.
AppendRefused(c) ==
    /\ pc[c] = "Idle" /\ writer = None
    /\ LET ix == Verified(c)
       IN  /\ Fitting(ix, c) # Candidates
           /\ Install(c, ix)
    /\ UNCHANGED <<dbVars, writeVars, pc, read, held>>

\* insert_event, the insert_* of each table, write_projection.
Written(d, target, p) ==
    LET n == Len(db.events) + 1
    IN  CASE target = "run_events" -> [d EXCEPT !.events = Append(@, p.event)]
          [] target = "run_projection" -> [d EXCEPT !.projection = n]
          [] target \in Derived \cup p.given ->
                [d EXCEPT !.rows[target] = @ \cup RowsOf(p.event, n, p.prev, target)]
          [] OTHER -> d

WriteStage(c) ==
    /\ writer = c /\ stage <= Len(Stages)
    /\ draft' = Written(draft, Stages[stage], pending[c])
    /\ stage' = stage + 1
    /\ UNCHANGED <<dbVars, writer, pending, pc, read, cache, foreign, held>>

EndWrite(c) == writer' = None /\ draft' = None /\ stage' = 1

\* A write, a checkpoint or the commit fails: the cache is dropped.
StageFails(c) ==
    /\ writer = c
    /\ EndWrite(c)
    /\ pending' = [pending EXCEPT ![c] = None]
    /\ At(c, "Idle")
    /\ Install(c, None)
    /\ UNCHANGED <<dbVars, read, held>>

\* Every other connection's next look at data_version tells it.
CommitDurable(c) ==
    /\ writer = c /\ stage > Len(Stages)
    /\ db' = draft
    /\ foreign' = [d \in Conns |-> foreign[d] \/ (d # c /\ cache[d] # None)]
    /\ EndWrite(c)
    /\ At(c, "Committed")
    /\ appends' = appends + 1
    /\ UNCHANGED <<damaged, pending, read, cache, held>>

Acknowledge(c) ==
    /\ pc[c] = "Committed"
    /\ cache' = [cache EXCEPT ![c] = ApplyCommitted(@, pending[c].event)]
    /\ held' = [held EXCEPT ![c].head = cache[c].head + 1]
    /\ pending' = [pending EXCEPT ![c] = None]
    /\ At(c, "Idle")
    /\ UNCHANGED <<dbVars, writer, draft, stage, read, foreign>>

-----------------------------------------------------------------------------
(* The environment *)

Crash(c) ==
    /\ pc[c] # "Down"
    /\ At(c, "Down") /\ read' = [read EXCEPT ![c] = None]
    /\ Install(c, None)
    /\ held' = [held EXCEPT ![c] = [head |-> None, receiptHead |-> 0]]
    /\ pending' = [pending EXCEPT ![c] = None]
    /\ IF writer = c THEN EndWrite(c) ELSE UNCHANGED <<writer, draft, stage>>
    /\ UNCHANGED dbVars

\* Another program, through SQLite: a sidecar row, the last event or the
\* projection is gone.
Damaged(d) ==
    (UNION {{[d EXCEPT !.rows[t] = @ \ {r}] : r \in d.rows[t]} : t \in Tables})
    \cup (IF d.events = <<>> THEN {}
          ELSE {[d EXCEPT !.events = Front(@)], [d EXCEPT !.projection = @ - 1]})

Damage ==
    /\ ~damaged /\ writer = None /\ db # None
    /\ db' \in Damaged(db)
    /\ damaged' = TRUE
    /\ foreign' = [c \in Conns |-> cache[c] # None]
    /\ UNCHANGED <<appends, writeVars, pc, read, cache, held>>

\* A binary of an older version migrates as far as it knows.
OlderBinary ==
    /\ db # None /\ writer = None
    /\ db.version \in Migratable
    /\ \E v \in db.version + 1..StoreSchemaVersion - 1 :
        db' = [db EXCEPT !.version = v, !.tables = @ \cup TablesAt(v)]
    /\ UNCHANGED <<damaged, appends, writeVars, pc, read, cache, foreign, held>>

Next ==
    \/ \E c \in Conns :
        \/ CreateFile(c) \/ ReadVersion(c) \/ CreateSchema(c) \/ SetVersion(c)
        \/ Migrate(c) \/ FinishOpen(c)
        \/ LoadCurrent(c) \/ LoadVerificationSnapshot(c) \/ Load(c)
        \/ BeginAppend(c) \/ AppendRefused(c)
        \/ WriteStage(c) \/ StageFails(c) \/ CommitDurable(c) \/ Acknowledge(c)
        \/ Crash(c)
    \/ Damage \/ OlderBinary

Spec == Init /\ [][Next]_vars

-----------------------------------------------------------------------------
(* Properties *)

\* Whichever binaries open a database at once and wherever one of them stops, a
\* connection that is open works on the current schema with every table, and no
\* opening is refused for a version that another one wrote in between.
SchemaConverges ==
    ~damaged => \A c \in Conns :
        /\ pc[c] # "Refused"
        /\ pc[c] \in {"Idle", "Writing", "Committed"} =>
            db.version = StoreSchemaVersion /\ db.tables = Tables

\* An index that ensure_verified_cache would reuse, however often it was advanced
\* by apply_committed since, is the one a full audit would build now, and that
\* audit would pass.
HotIndexIsAudited ==
    \A c \in Conns :
        CacheCurrent(c) /\ pc[c] = "Idle" => AuditOk(db) /\ cache[c] = IndexOf(db)

\* Whatever crashes, fails or interleaves, what append_internal made durable
\* passes the cold audit: the next process can open the run.
CommittedIsAuditable ==
    ~damaged /\ db # None /\ db.version = StoreSchemaVersion => AuditOk(db)

\* From a reusable index build_planning_snapshot always succeeds, with the steps
\* in the order of their planning and the outputs in the order of their receipts.
PlanningFollowsJournal ==
    \A c \in Conns :
        LET j == db.events
            Shown(e) == e.kind = "VerificationRecorded" /\ e.flag /\ OwesOutput(j, e.steps[1])
        IN  CacheCurrent(c) /\ pc[c] = "Idle" =>
            PlanningSnapshot(cache[c], db) =
                [steps |-> FlattenSeq([n \in 1..Len(j) |->
                    IF j[n].kind \in Planning THEN j[n].steps ELSE <<>>]),
                 outputs |-> FlattenSeq([n \in 1..Len(j) |->
                    IF Shown(j[n]) THEN j[n].steps ELSE <<>>])]

Journal == INSTANCE JournalContract WITH
    log <- IF db = None THEN <<>> ELSE db.events,
    known <- [c \in Conns |->
                IF pc[c] = "Committed" THEN cache[c].head + 1 ELSE held[c].head]

\* The store implements the journal: it grows by events of a connection that knew
\* its whole length, tells nobody an old or unverified length, and after a change
\* from outside neither tells nor takes anything.
ImplementsJournal == Journal!Spec
=============================================================================
