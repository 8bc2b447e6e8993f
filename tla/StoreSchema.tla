----------------------------- MODULE StoreSchema -----------------------------
(***************************************************************************)
(* The schema of a run's database: its user_version, the sidecar tables    *)
(* each version has, and the migrations a connection that found an older   *)
(* version runs inside one BEGIN IMMEDIATE transaction.  The version is    *)
(* read before the lock is taken and again under it, since another binary, *)
(* of this version or of an older one, may have migrated in between.       *)
(***************************************************************************)
EXTENDS StoreIndex

StoreSchemaVersion == 8
Migratable == 3..7

\* The sidecar tables of a version; 0 is a file whose schema is not written yet.
TablesAt(v) ==
    {t \in Tables :
        /\ v > 0
        /\ t = "execution_receipts" => v >= 4
        /\ t = "planned_invocations" => v >= 6
        /\ t = "tool_outputs" => v >= 7
        /\ t = "completion_outputs" => v >= 8}

\* The database of a run at version v; a table v has not got has no rows either.
DatabaseAt(j, v) == [Database(j) EXCEPT !.version = v, !.tables = TablesAt(v)]
Representable(j, v) == \A t \in Tables \ TablesAt(v) : Expected(j, t) = {}

\* Slip: only the version read before the lock, or the current one, is expected.
HandledAsRead(read, found) == found \in {read, StoreSchemaVersion}

\* The versions migrate_schema_three to migrate_schema_seven know what to do
\* with, by the version that chose among them.
Handled(read, found) == found \in read..StoreSchemaVersion

\* The tables they create.
CreatedTables(read, found) ==
    CASE found = StoreSchemaVersion -> {}
      [] found = 7 -> {"completion_outputs"}
      [] OTHER -> {"tool_outputs", "completion_outputs"}
                    \cup (IF read = 6 THEN {} ELSE {"planned_invocations"})
                    \cup (IF found = 3 THEN {"execution_receipts"} ELSE {})

\* planned_invocations alone is created IF NOT EXISTS; a table that is there
\* already fails the transaction.
CreationFits(d, created) == (created \ {"planned_invocations"}) \cap d.tables = {}

\* What the transaction commits.
Migrated(d, read) ==
    [d EXCEPT !.tables = @ \cup CreatedTables(read, d.version), !.version = StoreSchemaVersion]

\* UnsupportedSchemaVersion, a table created twice or a failed audit rolls it back.
Migrates(d, read) ==
    /\ Handled(read, d.version)
    /\ CreationFits(d, CreatedTables(read, d.version))
    /\ d.version # StoreSchemaVersion => AuditOk(Migrated(d, read))
=============================================================================
