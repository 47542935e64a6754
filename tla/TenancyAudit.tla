---------------------------- MODULE TenancyAudit ----------------------------
(***************************************************************************)
(* The tenancy audit of src/tenancy/audit.rs over the registry of          *)
(* TenancyRegistry: one read-only REPEATABLE READ transaction scans the    *)
(* tables one after another while the service goes on writing, and reports *)
(* which tranches of the planned migration may go ahead.  What the report  *)
(* is worth is judged by carrying the plan out (Backfilled, Migrates).     *)
(*                                                                         *)
(* A row is a record of the columns that ownership depends on; counts,     *)
(* example identifiers and wording are left out.  Bounds: Universe (rows   *)
(* that may be written), Families (tables that may hold rows together),    *)
(* Droppable and Relaxable (guarantees and NOT NULLs of the schema that    *)
(* may have been lost), MaxLate (writes during a scan).                    *)
(***************************************************************************)
EXTENDS TenancyRegistry, FiniteSets, TLC

CONSTANTS NULL, Tenants, Universe, Families, Droppable, Relaxable, MaxLate

ASSUME UniverseIsOfTheRegistry ==
    /\ DOMAIN Universe \subseteq Tables
    /\ ToSet(RegistryOrder) = Tables
    /\ MaxLate \in Nat

\* The tables that say already of which tenant a row is.
OwnedAlready == {"agents", "credentials", "credential_agent_grants"}

\* A row has an id, its primary key, every column its ownership paths start from
\* and those of the keys of its table, but none that the plan is to add.
Columns(t) ==
    {"id"} \cup {p.column : p \in ToSet(Registry[t].paths)}
           \cup UNION {ToSet(c.columns) : c \in Registry[t].contract}
IsLegacy(t, row) ==
    /\ row.id # NULL /\ Columns(t) \subseteq DOMAIN row
    /\ t \in OwnedAlready \/ Registry[t].class = "SYSTEM_GLOBAL"
         \/ DOMAIN row \cap {"tenant_id", "agent_uuid"} = {}
ASSUME RowsHaveTheirColumns == \A t \in DOMAIN Universe : \A row \in Universe[t] : IsLegacy(t, row)

\* An agent has a name, and is of a tenant or of none.
ASSUME AgentsAssumption ==
    /\ NULL \notin Tenants
    /\ "agents" \in DOMAIN Universe =>
         \A row \in Universe["agents"] : row.agent_id # NULL /\ row.tenant_id \in Tenants \cup {NULL}

\* The plan can be built in its own order.
ASSUME PlanIsBuildable == \A tranche \in Tranches : Buildable(tranche)

\* A bridge and the backfill ask the same parents.
ASSUME PlanIsCoherent == BridgesMatchBackfill

VARIABLES
    db,         \* table -> set of rows
    gone,       \* <<table, contract object>> pairs dropped from the schema
    relaxed,    \* <<table, column>> pairs whose NOT NULL was dropped
    strangers,  \* is there a table the registry does not know?
    late,       \* writes since the audit began
    audit       \* the audit: its snapshot, what is left to scan, its findings

vars == <<db, gone, relaxed, strangers, late, audit>>
schema == <<gone, relaxed, strangers>>

Idle == [phase |-> "idle", db |-> [t \in Tables |-> {}], gone |-> {}, relaxed |-> {},
         strangers |-> FALSE, todo |-> {}, findings |-> {}]

Init ==
    /\ db = [t \in Tables |-> {}]
    /\ gone = {} /\ relaxed = {} /\ strangers = FALSE
    /\ late = 0
    /\ audit = Idle

-----------------------------------------------------------------------------
(* The service, and what else happens to a database.                       *)

Populated(d) == {t \in Tables : d[t] # {}}

\* A scan leaves room for only a few writes.
MayWrite ==
    /\ audit.phase # "done"
    /\ audit.phase = "scan" => late < MaxLate
    /\ late' = IF audit.phase = "scan" THEN late + 1 ELSE late

Has(row, columns) == \A i \in DOMAIN columns : row[columns[i]] # NULL
SameTuple(row, columns, other, others) ==
    \A i \in DOMAIN columns : row[columns[i]] = other[others[i]]

\* MATCH SIMPLE: a row with a NULL in the key is not checked.
KeyHolds(d, row, columns, to, refs) ==
    Has(row, columns) => \E parent \in d[to] : SameTuple(row, columns, parent, refs)

\* Mutation: the primary key is not there.
AdmitsAnyId(t, row) ==
    \A c \in Registry[t].contract : c.to # "" => KeyHolds(db, row, c.columns, c.to, c.refs)

Admits(t, row) ==
    /\ \A other \in db[t] : other.id # row.id
    /\ \A c \in Registry[t].contract : <<t, c>> \notin gone =>
         IF c.to = "" THEN \A other \in db[t] : ~ (Has(row, c.columns) /\ SameTuple(row, c.columns, other, c.columns))
         ELSE KeyHolds(db, row, c.columns, c.to, c.refs)
    /\ \A p \in ToSet(Registry[t].paths) :
         row[p.column] = NULL => p.nullable \/ <<t, p.column>> \in relaxed

\* Any legacy row the live schema admits.
Insert(t, row) ==
    /\ MayWrite
    /\ \E f \in Families : Populated(db) \cup {t} \subseteq f
    /\ Admits(t, row)
    /\ db' = [db EXCEPT ![t] = @ \cup {row}]
    /\ UNCHANGED <<schema, audit>>

\* The step-1 backfill gives an agent without a tenant its own.
MapAgent(agent, tenant) ==
    /\ MayWrite
    /\ agent \in db["agents"] /\ agent.tenant_id = NULL
    /\ db' = [db EXCEPT !["agents"] = (@ \ {agent}) \cup {[agent EXCEPT !.tenant_id = tenant]}]
    /\ UNCHANGED <<schema, audit>>

\* Deleting an agent empties the tables the store names and those its keys
\* cascade to, the grants among them; the other children keep their rows.
Emptied == {"memories", "working_memory", "entities", "memory_graph", "audit_logs", "rmk_policies",
            "archival_batches", "sessions"}
DeleteAgent(agent) ==
    /\ MayWrite
    /\ agent \in db["agents"]
    /\ LET Kept(t) == {r \in db[t] : t \in Emptied => r.agent_id # agent.agent_id}
           Alive(t) == {r.id : r \in Kept(t)}
           Lineage == {"memory_versions", "memory_entity_links", "co_access_edges", "memory_conflicts"}
           Cleared(r) ==
               IF r.memory_id \in Alive("memories") THEN r ELSE [r EXCEPT !.memory_id = NULL]
       IN  db' = [t \in Tables |->
             CASE t = "agents" -> {a \in db[t] : a.agent_id # agent.agent_id}
               [] t = "credential_agent_grants" -> {g \in db[t] : g.agent_uuid # agent.id}
               [] t \in Lineage ->
                    {r \in Kept(t) : \A p \in ToSet(Registry[t].paths) :
                        p.kind \in DOMAIN Through /\ r[p.column] # NULL
                            => r[p.column] \in Alive(Through[p.kind])}
               [] t = "retrieval_feedback" -> {Cleared(r) : r \in Kept(t)}
               [] t = "rmk_episodes" ->
                    {IF r.policy_id \in Alive("rmk_policies") THEN r ELSE [r EXCEPT !.policy_id = NULL]
                        : r \in Kept(t)}
               [] OTHER -> Kept(t)]
    /\ UNCHANGED <<schema, audit>>

\* The schema has drifted, once, before the audit: a guarantee was dropped,
\* or a NOT NULL, or a table was added that nobody classified.
Drift ==
    /\ audit.phase = "idle" /\ schema = <<{}, {}, FALSE>>
    /\ \/ \E t \in Populated(db) : \E c \in Registry[t].contract :
            /\ <<t, c>> \in Droppable
            /\ gone' = {<<t, c>>} /\ UNCHANGED <<relaxed, strangers>>
       \/ \E t \in Populated(db) : \E p \in ToSet(Registry[t].paths) :
            /\ ~ p.nullable /\ <<t, p.column>> \in Relaxable
            /\ relaxed' = {<<t, p.column>>} /\ UNCHANGED <<gone, strangers>>
       \/ strangers' = TRUE /\ UNCHANGED <<gone, relaxed>>
    /\ UNCHANGED <<db, late, audit>>

-----------------------------------------------------------------------------
(* Walking an ownership path: the joined rows a path yields.               *)

NoRow == [c \in {"id", "agent_id", "tenant_id"} |-> NULL]
LeftJoin(rows) == IF rows = {} THEN {NoRow} ELSE rows

AgentsNamed(d, name) == LeftJoin({a \in d["agents"] : a.agent_id = name})

Reached(root, parent, agent) ==
    [null |-> root = NULL, orphan |-> root # NULL /\ parent.id = NULL,
     agent |-> agent.id, tenant |-> agent.tenant_id]

\* Every path that goes through one table that carries an agent_id.
DerivedPath(d, root, parents) ==
    UNION {{Reached(root, p, a) : a \in AgentsNamed(d, p.agent_id)} : p \in LeftJoin(parents)}

PathSql(d, path, row) ==
    LET root == row[path.column] IN
    CASE path.kind = "TenantColumn" ->
            {[null |-> root = NULL, orphan |-> FALSE, agent |-> NULL, tenant |-> root]}
      [] path.kind = "AgentText" -> {Reached(root, a, a) : a \in AgentsNamed(d, root)}
      [] path.kind = "AgentUuid" ->
            {Reached(root, a, a) : a \in LeftJoin({a \in d["agents"] : a.id = root})}
      [] path.kind = "Session" ->
            {IF row.agent_id = NULL THEN [r EXCEPT !.orphan = FALSE] ELSE r :
                r \in DerivedPath(d, root, {s \in d["sessions"] :
                        s.agent_id = row.agent_id /\ s.session_id = root})}
      [] OTHER -> DerivedPath(d, root, {p \in d[Through[path.kind]] : p.id = root})

\* The code a path reports for a parent that is not there.
OrphanReason(path) ==
    CASE path.kind \in {"AgentText", "AgentUuid"} -> "ORPHANED_AGENT_REFERENCE"
      [] path.kind = "Session" -> "ORPHANED_SESSION_REFERENCE"
      [] path.kind = "Memory" -> "ORPHANED_MEMORY_REFERENCE"
      [] OTHER -> "UNRESOLVABLE_OWNER"

\* An agent row without a tenant is unmapped, and so is a row of such an agent.
Unmapped(entry, c) ==
    IF entry.class = "TENANT_ROOT" THEN c.tenant = NULL ELSE c.agent # NULL /\ c.tenant = NULL

\* The codes of one row along its canonical path.
CanonicalCodes(entry, row, c) ==
    LET path == entry.paths[1]
        ambiguous == path.kind = "Session" /\ ~ c.null /\ row.agent_id = NULL
    IN  {p[1] : p \in {p \in {
            <<"NULL_OWNERSHIP_LINK", c.null>>,
            <<OrphanReason(path), c.orphan>>,
            <<"AMBIGUOUS_LEGACY_IDENTIFIER", ambiguous>>,
            <<"MALFORMED_LEGACY_IDENTIFIER", path.kind = "AgentText" /\ row[path.column] = "">>,
            <<"UNMAPPED_AGENT", Unmapped(entry, c)>>,
            <<"UNRESOLVABLE_OWNER", ~ c.null /\ ~ c.orphan /\ ~ ambiguous /\ c.agent = NULL /\ c.tenant = NULL>>,
            <<"LEGACY_UNMAPPED", c.tenant = NULL>>} : p[2]}}

\* The codes of one row along a path that must agree with the canonical one.
SecondaryCodes(path, c, s) ==
    LET both == c.tenant # NULL /\ s.tenant # NULL
    IN  {p[1] : p \in {p \in {
            <<OrphanReason(path), s.orphan>>,
            <<"CROSS_TENANT_PARENT_CHILD", both /\ c.tenant # s.tenant>>,
            <<"OWNERSHIP_PATH_DISAGREEMENT",
                both /\ c.tenant = s.tenant /\ s.agent # NULL /\ c.agent # s.agent>>,
            <<"FUTURE_COMPOSITE_FK_MISMATCH", ~ s.orphan /\ s.agent # NULL /\ s.tenant = NULL>>} : p[2]}}

ScanRows(d, t) ==
    LET entry == Registry[t]
        Codes(row) ==
            UNION {CanonicalCodes(entry, row, c) \cup
                     UNION {UNION {SecondaryCodes(entry.paths[i], c, s) :
                                s \in PathSql(d, entry.paths[i], row)} : i \in 2 .. Len(entry.paths)}
                   : c \in PathSql(d, entry.paths[1], row)}
    IN  UNION {Codes(row) : row \in d[t]}

\* One source reference that reaches two agents, or two tenants.
Ambiguous(d, t) ==
    LET path == Registry[t].paths[1]
        Source(row) == <<row[path.column], IF path.kind = "Session" THEN row.agent_id ELSE NULL>>
        Owners(key) == UNION {PathSql(d, path, row) : row \in {r \in d[t] : Source(r) = key}}
        Two(values) == Cardinality(values \ {NULL}) > 1
    IN  /\ path.kind # "TenantColumn"
        /\ \E key \in {Source(r) : r \in {r \in d[t] : r[path.column] # NULL}} :
             Two({o.agent : o \in Owners(key)}) \/ Two({o.tenant : o \in Owners(key)})
ScanAmbiguity(d, t) == IF Ambiguous(d, t) THEN {"AMBIGUOUS_LEGACY_IDENTIFIER"} ELSE {}

-----------------------------------------------------------------------------
(* The audit.                                                              *)

Finding(t, code) == [table |-> t, code |-> code, blocking |-> code # "MALFORMED_LEGACY_IDENTIFIER"]

\* Gate 1: every path starts at a column as nullable as the registry says.
CheckSchemaRelationships(view, t) ==
    \A p \in ToSet(Registry[t].paths) : ~ p.nullable => <<t, p.column>> \notin view.relaxed

\* Mutation: a dropped key is not noticed.
VerifyNothing(view, t) == TRUE

\* Gate 2: the keys the joins count on are there.
VerifySchemaContract(view, t) == \A c \in Registry[t].contract : <<t, c>> \notin view.gone

\* A global table with an ownership-shaped column is accepted on evidence.
CheckGlobalScope(t) ==
    IF t = "agent_tenancy_migrations"
    THEN {[table |-> t, code |-> "GLOBAL_SCOPE_UNVERIFIED", blocking |-> FALSE]} ELSE {}

Scan(view, t) ==
    LET drift == {Finding(t, "SCHEMA_RELATIONSHIP_DRIFT")}
        Report(codes) == {Finding(t, code) : code \in codes}
    IN  IF Registry[t].class = "SYSTEM_GLOBAL" THEN CheckGlobalScope(t)
        ELSE IF ~ CheckSchemaRelationships(view, t) THEN drift
        ELSE IF ~ VerifySchemaContract(view, t) THEN drift \cup Report(ScanAmbiguity(view.db, t))
        ELSE Report(ScanRows(view.db, t) \cup ScanAmbiguity(view.db, t))

CheckInventoryContract(view) ==
    IF view.strangers THEN {Finding("stranger", "UNCLASSIFIED_TABLE")} ELSE {}

\* A table without rows whose schema holds reports nothing: it is skipped.
Worth(t) == db[t] # {} \/ t \in {x[1] : x \in gone \cup relaxed} \/ Registry[t].class = "SYSTEM_GLOBAL"

\* The first query fixes the snapshot every later one reads.
Begin ==
    /\ audit.phase = "idle"
    /\ audit' = [phase |-> "scan", db |-> db, gone |-> gone, relaxed |-> relaxed, strangers |-> strangers,
                 todo |-> {t \in Tables : Worth(t)},
                 findings |-> CheckInventoryContract([strangers |-> strangers])]
    /\ late' = 0
    /\ UNCHANGED <<db, schema>>

\* Mutation: every query sees what is committed when it runs.
ViewOfNow == [audit EXCEPT !.db = db]

View == audit

\* The tables are scanned in the order of the registry.
IsNext(t) == t \in audit.todo /\ \A u \in audit.todo : Position[t] <= Position[u]

ScanNext ==
    /\ audit.phase = "scan"
    /\ \E t \in audit.todo :
        /\ IsNext(t)
        /\ audit' = [audit EXCEPT !.todo = @ \ {t}, !.findings = @ \cup Scan(View, t)]
    /\ UNCHANGED <<db, schema, late>>

Report ==
    /\ audit.phase = "scan" /\ audit.todo = {}
    /\ audit' = [audit EXCEPT !.phase = "done"]
    /\ UNCHANGED <<db, schema, late>>

\* Findings that block every tranche, and those that block a table's own.
IsContract == {"UNCLASSIFIED_TABLE", "INVENTORY_TABLE_MISSING", "MULTIPLE_CLASSIFICATIONS",
               "MISSING_CANONICAL_OWNERSHIP_PATH"}

\* Mutation: only the lists count, and a table that could not be scanned has none.
AssessListedCodes(findings) ==
    [tranche \in Tranches |->
        \A f \in {f \in findings : f.blocking} :
            /\ f.code \notin IsContract
            /\ f.table \in Tables /\ Registry[f.table].tranche = tranche =>
                 f.code \notin Registry[f.table].codes]

AssessTranches(findings) ==
    [tranche \in Tranches |->
        \A f \in {f \in findings : f.blocking} :
            /\ f.code \notin IsContract
            /\ f.table \in Tables /\ Registry[f.table].tranche = tranche =>
                 f.code # "SCHEMA_RELATIONSHIP_DRIFT" /\ f.code \notin Registry[f.table].codes]

IsBlocked(findings) == \E f \in findings : f.blocking

Write ==
    \/ \E t \in DOMAIN Universe : \E row \in Universe[t] : Insert(t, row)
    \/ \E agent \in db["agents"], tenant \in Tenants : MapAgent(agent, tenant)
    \/ \E agent \in db["agents"] : DeleteAgent(agent)
Next == Write \/ Drift \/ Begin \/ ScanNext \/ Report

Spec == Init /\ [][Next]_vars

-----------------------------------------------------------------------------
(* Carrying the plan out on a database.                                    *)

Parents(d, source, row) ==
    CASE source.table = "agents" -> {a \in d["agents"] : a.agent_id = row.agent_id}
      [] source.table = "sessions" ->
            {s \in d["sessions"] : s.agent_id = row.agent_id /\ s.session_id = row.session_id}
      [] OTHER -> {p \in d[source.table] : p.id = row[source.column]}

\* The tenants that every source of a row agrees on, when its parents have
\* those of owners.
Agreed(d, owners, t, row) ==
    {tenant \in Tenants : \A source \in Authority(t) :
        \/ source.optional /\ row[source.column] = NULL
        \/ \E p \in Parents(d, source, row) : owners[source.table][p] = tenant}

\* The tenants of a table's rows once their parents have theirs: one that is
\* agreed on, or none.
Given(d, owners, t) ==
    [row \in d[t] |->
        IF t \in OwnedAlready THEN row.tenant_id
        ELSE IF Agreed(d, owners, t, row) = {} THEN NULL
        ELSE CHOOSE tenant \in Agreed(d, owners, t, row) : TRUE]

\* The tenant the backfill gives a row, parents first.
TenantOf(d) == LET of[t \in Tables] == Given(d, of, t) IN of

\* A row with the columns that were added to its table.
Extended(row, added) ==
    [column \in DOMAIN row \cup DOMAIN added |-> IF column \in DOMAIN row THEN row[column] ELSE added[column]]

\* The agent a row names, by its uuid.
Uuid(d, row) ==
    IF \E a \in d["agents"] : a.agent_id = row.agent_id
    THEN (CHOOSE a \in d["agents"] : a.agent_id = row.agent_id).id ELSE NULL

\* A row as the backfill leaves it, when tenant has the tenants.
Filled(d, tenant, t, row) ==
    IF Registry[t].class = "SYSTEM_GLOBAL" \/ "tenant_id" \in DOMAIN row THEN row
    ELSE IF "agent_id" \in DOMAIN row
    THEN Extended(row, [tenant_id |-> tenant[t][row],
                        agent_uuid |-> IF tenant[t][row] = NULL THEN NULL ELSE Uuid(d, row)])
    ELSE Extended(row, [tenant_id |-> tenant[t][row]])

Backfilled(d) ==
    LET tenant == TenantOf(d)
    IN  [t \in Tables |-> {Filled(d, tenant, t, row) : row \in d[t]}]

\* Every key the tranche validates holds on every row, and every column that
\* is to be tightened has a value.
MigratesTranche(filled, tranche) ==
    \A o \in ToSet(Planned[tranche]) : \A row \in filled[o.table] :
        CASE o.what = "key" -> KeyHolds(filled, row, o.columns, o.to, o.refs)
          [] o.what = "column" -> o.tightened => Has(row, o.columns)
          [] OTHER -> TRUE

-----------------------------------------------------------------------------
(* Correctness.                                                            *)

\* Type invariant: the audit only ever holds findings on tables and codes it
\* knows, and scans the registry's tables.
TypeOK ==
    /\ \A t \in Tables : \A row \in db[t] :
         /\ Columns(t) \subseteq DOMAIN row
         /\ \A other \in db[t] : other.id = row.id => other = row
    /\ late \in 0 .. MaxLate /\ strangers \in BOOLEAN
    /\ audit.phase \in {"idle", "scan", "done"}
    /\ audit.todo \subseteq Tables
    /\ \A f \in audit.findings : f.blocking \in BOOLEAN

\* A report without a blocking finding is permission to migrate: backfilling
\* the snapshot gives every row an owner all its parents agree on, every
\* planned key validates and every NOT NULL holds, in every tranche.
\* Code: audit::run, assess_tranches and plan::PLANNED_OBJECTS, BACKFILL_AUTHORITY.
CleanMigrates ==
    audit.phase = "done" /\ ~ IsBlocked(audit.findings) =>
        LET filled == Backfilled(audit.db)
        IN  \A tranche \in Tranches : MigratesTranche(filled, tranche)

\* The codes the plan calls unreachable are: whatever is in the database and
\* whichever guarantee was dropped, they are not reported.  Code:
\* plan::UNREACHABLE_REQUIRED_ZERO and the gates of audit_within_snapshot.
UnreachableNeverFires ==
    \A f \in audit.findings :
        /\ <<f.table, f.code>> \notin UnreachableRequiredZero
        /\ f.code # "ORPHANED_MEMORY_REFERENCE"

\* A report describes one moment: when a child is reported for the missing
\* tenant of its agent, the agents themselves were reported, though they were
\* scanned earlier and may have been assigned since.  Code: audit::run.
RootExplainsChildren ==
    \A f \in audit.findings :
        f.code = "UNMAPPED_AGENT" =>
            \E root \in audit.findings :
                root.table = "agents" /\ root.code \in {"UNMAPPED_AGENT", "SCHEMA_RELATIONSHIP_DRIFT"}

\* A tranche that reads READY, with every earlier one, may be migrated, if the
\* audit found no child of one tenant under a parent of another: the backfill
\* gives every row an owner all its parents agree on, and every key and NOT
\* NULL planned up to that tranche holds.  Code: audit::run, assess_tranches,
\* the required_zero_codes of the registry, plan::PLANNED_OBJECTS.
ReadyUnlessCrossed ==
    audit.phase = "done" /\ (\A f \in audit.findings : f.code # "CROSS_TENANT_PARENT_CHILD") =>
        LET filled == Backfilled(audit.db)
            ready == AssessTranches(audit.findings)
        IN  \A tranche \in Tranches :
                (\A earlier \in 1 .. tranche : ready[earlier]) => MigratesTranche(filled, tranche)

\* What the registry says of required_zero_codes: a tranche that reads READY,
\* with every earlier one, may be migrated.  It does not hold: the lists of four
\* tables lack the code ReadyUnlessCrossed excludes.
ReadyTranchesMigrate ==
    audit.phase = "done" =>
        LET filled == Backfilled(audit.db)
            ready == AssessTranches(audit.findings)
        IN  \A tranche \in Tranches :
                (\A earlier \in 1 .. tranche : ready[earlier]) => MigratesTranche(filled, tranche)
=============================================================================
