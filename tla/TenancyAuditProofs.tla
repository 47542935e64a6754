--------------------------- MODULE TenancyAuditProofs ---------------------------
(***************************************************************************)
(* Proofs about TenancyAudit, for any tenants, rows that may be written,   *)
(* losses of the schema and writes during a scan.  The registry and the    *)
(* plan are those of TenancyRegistry: what they say of their 23 tables is  *)
(* looked up in Registered, SourcesHavePaths and PlanIsOfPlanObjects.      *)
(* IInv carries the first three theorems.  The last one, CleanReports,     *)
(* rests on CleanInv: a report says what the scan found of rows a legacy   *)
(* service may leave, and the backfill's tenants follow, by the distance   *)
(* of each table from the agents.                                          *)
(***************************************************************************)
EXTENDS TenancyAudit, TLAPS

-----------------------------------------------------------------------------
(***************************************************************************)
(* What the registry says.                                                 *)
(***************************************************************************)

\* The tables with nothing but the text of their agent.
Plain == {"amp_controller_state", "archival_batches", "cognitive_hypervisor_timeline", "entities",
          "extraction_jobs", "memory_graph", "memory_retrieval_logs", "rmk_policies", "sessions"}

\* A path through the memories has a key of its own, and starts in a table that
\* the deletion of an agent clears of what it deletes.
MemoryKey(t, path) ==
  /\ References(path.column, "memories") \in Registry[t].contract
  /\ \/ t \in {"memory_versions", "memory_entity_links", "co_access_edges", "memory_conflicts"}
     \/ t = "retrieval_feedback" /\ path.column = "memory_id"

\* Where paths of the other kinds can and cannot start.
PathFact(t, path) ==
  /\ path.kind = "Session" => t = "working_memory"
  /\ path.kind \in {"AgentText", "AgentUuid"} => t # "co_access_edges"
  /\ path.kind = "Memory" => MemoryKey(t, path)

\* What the proofs need to know of one entry.
EntryFact(t) ==
  /\ Registry[t].class = "TENANT_ROOT" <=> t = "agents"
  /\ Registry[t].class = "SYSTEM_GLOBAL" \/ 1 \in DOMAIN Registry[t].paths
  /\ 2 .. Len(Registry[t].paths) \subseteq DOMAIN Registry[t].paths
  /\ \A i \in DOMAIN Registry[t].paths : PathFact(t, Registry[t].paths[i])

\* All 23 entries are so.
LEMMA Registered ==
  ASSUME NEW t \in Tables
  PROVE  EntryFact(t)
<1> DEFINE e == Registry[t]
<1>0. CASE t \in Plain
  <2>1. \E contract, tranche : e = AgentChild(contract, tranche)
    BY <1>0 DEF Plain, Registry, AmpControllerState, ArchivalBatches, CognitiveHypervisorTimeline, Entities,
                ExtractionJobs, MemoryGraph, MemoryRetrievalLogs, RmkPolicies, Sessions
  <2>2. /\ e.class = "DIRECT_AGENT_CHILD" /\ DOMAIN e.paths = {1} /\ Len(e.paths) = 1
        /\ e.paths[1].kind = "AgentText"
    BY <2>1 DEF AgentChild, Entry, AgentText
  <2> HIDE DEF e
  <2> QED BY <1>0, <2>2 DEF EntryFact, PathFact, Plain, e
<1>1. CASE t = "agent_tenancy_migrations"
  <2>1. e = AgentTenancyMigrations
    BY <1>1 DEF Registry
  <2>2. /\ e.class = "SYSTEM_GLOBAL" /\ DOMAIN e.paths = {} /\ Len(e.paths) = 0
    BY <2>1 DEF AgentTenancyMigrations, Entry
  <2> HIDE DEF e
  <2> QED BY <1>1, <2>2 DEF EntryFact, PathFact, e
<1>2. CASE t = "tenancy_backfill_checkpoints"
  <2>1. e = TenancyBackfillCheckpoints
    BY <1>2 DEF Registry
  <2>2. /\ e.class = "SYSTEM_GLOBAL" /\ DOMAIN e.paths = {} /\ Len(e.paths) = 0
    BY <2>1 DEF TenancyBackfillCheckpoints, Entry
  <2> HIDE DEF e
  <2> QED BY <1>2, <2>2 DEF EntryFact, PathFact, e
<1>3. CASE t = "agents"
  <2>1. e = Agents
    BY <1>3 DEF Registry
  <2>2. /\ e.class = "TENANT_ROOT" /\ DOMAIN e.paths = {1} /\ Len(e.paths) = 1
        /\ e.paths[1].kind = "TenantColumn"
    BY <2>1 DEF Agents, Entry, TenantColumn
  <2> HIDE DEF e
  <2> QED BY <1>3, <2>2 DEF EntryFact, PathFact, e
<1>4. CASE t = "audit_logs"
  <2>1. e = AuditLogs
    BY <1>4 DEF Registry
  <2>2. /\ e.class = "DIRECT_AGENT_CHILD" /\ DOMAIN e.paths = {1} /\ Len(e.paths) = 1
        /\ e.paths[1].kind = "AgentText"
    BY <2>1 DEF AuditLogs, Entry, AgentText
  <2> HIDE DEF e
  <2> QED BY <1>4, <2>2 DEF EntryFact, PathFact, e
<1>5. CASE t = "credentials"
  <2>1. e = Credentials
    BY <1>5 DEF Registry
  <2>2. /\ e.class = "TENANT_GLOBAL" /\ DOMAIN e.paths = {1} /\ Len(e.paths) = 1
        /\ e.paths[1].kind = "TenantColumn"
    BY <2>1 DEF Credentials, Entry, TenantColumn
  <2> HIDE DEF e
  <2> QED BY <1>5, <2>2 DEF EntryFact, PathFact, e
<1>6. CASE t = "credential_agent_grants"
  <2>1. e = CredentialAgentGrants
    BY <1>6 DEF Registry
  <2>2. /\ e.class = "DIRECT_AGENT_CHILD" /\ DOMAIN e.paths = {1, 2} /\ Len(e.paths) = 2
        /\ e.paths[1].kind = "AgentUuid"
        /\ e.paths[2].kind = "TenantColumn"
    BY <2>1 DEF CredentialAgentGrants, Entry, AgentUuid, TenantColumn
  <2> HIDE DEF e
  <2> QED BY <1>6, <2>2 DEF EntryFact, PathFact, e
<1>7. CASE t = "memories"
  <2>1. e = Memories
    BY <1>7 DEF Registry
  <2>2. /\ e.class = "DIRECT_AGENT_CHILD" /\ DOMAIN e.paths = {1, 2} /\ Len(e.paths) = 2
        /\ e.paths[1].kind = "AgentText"
        /\ e.paths[2].kind = "ArchivalBatch"
    BY <2>1 DEF Memories, Entry, AgentText, ArchivalBatchPath
  <2> HIDE DEF e
  <2> QED BY <1>7, <2>2 DEF EntryFact, PathFact, e
<1>8. CASE t = "rmk_episodes"
  <2>1. e = RmkEpisodes
    BY <1>8 DEF Registry
  <2>2. /\ e.class = "DIRECT_AGENT_CHILD" /\ DOMAIN e.paths = {1, 2} /\ Len(e.paths) = 2
        /\ e.paths[1].kind = "AgentText"
        /\ e.paths[2].kind = "Policy"
    BY <2>1 DEF RmkEpisodes, Entry, AgentText, PolicyPath
  <2> HIDE DEF e
  <2> QED BY <1>8, <2>2 DEF EntryFact, PathFact, e
<1>9. CASE t = "working_memory"
  <2>1. e = WorkingMemory
    BY <1>9 DEF Registry
  <2>2. /\ e.class = "SESSION_CHILD" /\ DOMAIN e.paths = {1, 2} /\ Len(e.paths) = 2
        /\ e.paths[1].kind = "Session"
        /\ e.paths[2].kind = "AgentText"
    BY <2>1 DEF WorkingMemory, Entry, AgentText, SessionPath
  <2> HIDE DEF e
  <2> QED BY <1>9, <2>2 DEF EntryFact, PathFact, e
<1>10. CASE t = "co_access_edges"
  <2>1. e = CoAccessEdges
    BY <1>10 DEF Registry
  <2>2. /\ e.class = "MEMORY_LINEAGE_CHILD" /\ DOMAIN e.paths = {1, 2} /\ Len(e.paths) = 2
        /\ References("memory_a", "memories") \in e.contract /\ References("memory_b", "memories") \in e.contract
        /\ e.paths[1].kind = "Memory" /\ e.paths[1].column = "memory_a"
        /\ e.paths[2].kind = "Memory" /\ e.paths[2].column = "memory_b"
    BY <2>1 DEF CoAccessEdges, Entry, MemoryPath
  <2> HIDE DEF e
  <2> QED BY <1>10, <2>2 DEF EntryFact, PathFact, MemoryKey, e
<1>11. CASE t = "memory_conflicts"
  <2>1. e = MemoryConflicts
    BY <1>11 DEF Registry
  <2>2. /\ e.class = "DIRECT_AGENT_CHILD" /\ DOMAIN e.paths = {1, 2, 3} /\ Len(e.paths) = 3
        /\ References("memory_a", "memories") \in e.contract /\ References("memory_b", "memories") \in e.contract
        /\ e.paths[1].kind = "AgentText"
        /\ e.paths[2].kind = "Memory" /\ e.paths[2].column = "memory_a"
        /\ e.paths[3].kind = "Memory" /\ e.paths[3].column = "memory_b"
    BY <2>1 DEF MemoryConflicts, Entry, AgentText, MemoryPath
  <2> HIDE DEF e
  <2> QED BY <1>11, <2>2 DEF EntryFact, PathFact, MemoryKey, e
<1>12. CASE t = "memory_entity_links"
  <2>1. e = MemoryEntityLinks
    BY <1>12 DEF Registry
  <2>2. /\ e.class = "MEMORY_LINEAGE_CHILD" /\ DOMAIN e.paths = {1, 2, 3} /\ Len(e.paths) = 3
        /\ References("memory_id", "memories") \in e.contract
        /\ e.paths[1].kind = "Memory" /\ e.paths[1].column = "memory_id"
        /\ e.paths[2].kind = "AgentText"
        /\ e.paths[3].kind = "Entity"
    BY <2>1 DEF MemoryEntityLinks, Entry, AgentText, EntityPath, MemoryPath
  <2> HIDE DEF e
  <2> QED BY <1>12, <2>2 DEF EntryFact, PathFact, MemoryKey, e
<1>13. CASE t = "memory_versions"
  <2>1. e = MemoryVersions
    BY <1>13 DEF Registry
  <2>2. /\ e.class = "MEMORY_LINEAGE_CHILD" /\ DOMAIN e.paths = {1, 2} /\ Len(e.paths) = 2
        /\ References("memory_id", "memories") \in e.contract
        /\ e.paths[1].kind = "Memory" /\ e.paths[1].column = "memory_id"
        /\ e.paths[2].kind = "AgentText"
    BY <2>1 DEF MemoryVersions, Entry, AgentText, MemoryPath
  <2> HIDE DEF e
  <2> QED BY <1>13, <2>2 DEF EntryFact, PathFact, MemoryKey, e
<1>14. CASE t = "retrieval_feedback"
  <2>1. e = RetrievalFeedback
    BY <1>14 DEF Registry
  <2>2. /\ e.class = "DIRECT_AGENT_CHILD" /\ DOMAIN e.paths = {1, 2} /\ Len(e.paths) = 2
        /\ References("memory_id", "memories") \in e.contract
        /\ e.paths[1].kind = "AgentText"
        /\ e.paths[2].kind = "Memory" /\ e.paths[2].column = "memory_id"
    BY <2>1 DEF RetrievalFeedback, Entry, AgentText, MemoryPath
  <2> HIDE DEF e
  <2> QED BY <1>14, <2>2 DEF EntryFact, PathFact, MemoryKey, e
<1>. t \in Plain \cup {"agent_tenancy_migrations", "tenancy_backfill_checkpoints", "agents", "audit_logs",
             "credentials", "credential_agent_grants", "memories", "rmk_episodes", "working_memory", "co_access_edges",
             "memory_conflicts", "memory_entity_links", "memory_versions", "retrieval_feedback"}
  BY DEF Tables, Registry, Plain
<1> QED BY <1>0, <1>1, <1>2, <1>3, <1>4, <1>5, <1>6, <1>7, <1>8, <1>9, <1>10, <1>11, <1>12, <1>13, <1>14

-----------------------------------------------------------------------------
(***************************************************************************)
(* The inductive invariant.                                                *)
(***************************************************************************)

\* Every reference to a memory whose key the schema g still has names one.
MemoryKeys(d, g) ==
  \A t \in Tables : \A i \in DOMAIN Registry[t].paths :
    LET path == Registry[t].paths[i] IN
    path.kind = "Memory" /\ <<t, References(path.column, "memories")>> \notin g =>
      \A row \in d[t] : row[path.column] # NULL => \E m \in d["memories"] : m.id = row[path.column]

\* Before the agents are scanned nothing is said of a missing tenant, and then
\* every agent without one has shown up in the findings on the agents.
RootIn(findings) ==
  \E root \in findings : root.table = "agents" /\ root.code \in {"UNMAPPED_AGENT", "SCHEMA_RELATIONSHIP_DRIFT"}

AgentsInv ==
  audit.phase # "idle" =>
    IF "agents" \in audit.todo THEN \A f \in audit.findings : f.code # "UNMAPPED_AGENT"
    ELSE (\E a \in audit.db["agents"] : a.tenant_id = NULL) => RootIn(audit.findings)

\* The database has every table, the audit every field.
ShapeInv == DOMAIN db = Tables /\ DOMAIN audit = DOMAIN Idle

IInv ==
  /\ TypeOK
  /\ ShapeInv
  /\ MemoryKeys(db, gone)
  /\ MemoryKeys(audit.db, audit.gone)
  /\ AgentsInv
  /\ UnreachableNeverFires
  /\ RootExplainsChildren

-----------------------------------------------------------------------------
(***************************************************************************)
(* What the scan of one table can report.                                  *)
(***************************************************************************)

OrphanReasons == {"ORPHANED_AGENT_REFERENCE", "ORPHANED_SESSION_REFERENCE", "ORPHANED_MEMORY_REFERENCE",
                  "UNRESOLVABLE_OWNER"}

\* Codes that say nothing of a missing parent nor of a parent without a tenant.
OtherCodes == {"NULL_OWNERSHIP_LINK", "AMBIGUOUS_LEGACY_IDENTIFIER", "MALFORMED_LEGACY_IDENTIFIER",
               "UNRESOLVABLE_OWNER", "LEGACY_UNMAPPED", "CROSS_TENANT_PARENT_CHILD",
               "OWNERSHIP_PATH_DISAGREEMENT", "FUTURE_COMPOSITE_FK_MISMATCH"}

\* Which code a missing parent has tells by what kind of path it was looked for.
LEMMA OrphansTellTheirPath ==
  ASSUME NEW path
  PROVE  /\ OrphanReason(path) \in OrphanReasons
         /\ OrphanReason(path) = "ORPHANED_AGENT_REFERENCE" => path.kind \in {"AgentText", "AgentUuid"}
         /\ OrphanReason(path) = "ORPHANED_SESSION_REFERENCE" => path.kind = "Session"
         /\ OrphanReason(path) = "ORPHANED_MEMORY_REFERENCE" => path.kind = "Memory"
BY DEF OrphanReason, OrphanReasons

\* The codes of the canonical path.
LEMMA CanonicalCodesAre ==
  ASSUME NEW entry, NEW row, NEW c, NEW code \in CanonicalCodes(entry, row, c)
  PROVE  \/ code \in OtherCodes
         \/ code = "UNMAPPED_AGENT" /\ Unmapped(entry, c)
         \/ code = OrphanReason(entry.paths[1]) /\ c.orphan
<1> DEFINE ambiguous == entry.paths[1].kind = "Session" /\ ~ c.null /\ row.agent_id = NULL
           malformed == entry.paths[1].kind = "AgentText" /\ row[entry.paths[1].column] = ""
           unresolvable == ~ c.null /\ ~ c.orphan /\ ~ ambiguous /\ c.agent = NULL /\ c.tenant = NULL
           legacy == c.tenant = NULL
           found == {<<"NULL_OWNERSHIP_LINK", c.null>>, <<OrphanReason(entry.paths[1]), c.orphan>>,
                     <<"AMBIGUOUS_LEGACY_IDENTIFIER", ambiguous>>, <<"MALFORMED_LEGACY_IDENTIFIER", malformed>>,
                     <<"UNMAPPED_AGENT", Unmapped(entry, c)>>, <<"UNRESOLVABLE_OWNER", unresolvable>>,
                     <<"LEGACY_UNMAPPED", legacy>>}
<1>1. code \in {p[1] : p \in {p \in found : p[2]}}
  BY DEF CanonicalCodes
<1> HIDE DEF ambiguous, malformed, unresolvable, legacy
<1>2. PICK p \in found : p[2] /\ code = p[1]
  <2> HIDE DEF found
  <2> QED BY <1>1
<1>3. \/ p[1] \in OtherCodes \/ p = <<"UNMAPPED_AGENT", Unmapped(entry, c)>>
      \/ p = <<OrphanReason(entry.paths[1]), c.orphan>>
  BY DEF OtherCodes
<1>4. CASE p = <<"UNMAPPED_AGENT", Unmapped(entry, c)>>
  BY <1>2, <1>4
<1>5. CASE p = <<OrphanReason(entry.paths[1]), c.orphan>>
  BY <1>2, <1>5
<1> QED BY <1>2, <1>3, <1>4, <1>5

\* The codes of a path that must agree with it.
LEMMA SecondaryCodesAre ==
  ASSUME NEW path, NEW c, NEW s, NEW code \in SecondaryCodes(path, c, s)
  PROVE  \/ code \in OtherCodes
         \/ code = OrphanReason(path) /\ s.orphan
<1> DEFINE both == c.tenant # NULL /\ s.tenant # NULL
           cross == both /\ c.tenant # s.tenant
           disagree == both /\ c.tenant = s.tenant /\ s.agent # NULL /\ c.agent # s.agent
           mismatch == ~ s.orphan /\ s.agent # NULL /\ s.tenant = NULL
           found == {<<OrphanReason(path), s.orphan>>, <<"CROSS_TENANT_PARENT_CHILD", cross>>,
                     <<"OWNERSHIP_PATH_DISAGREEMENT", disagree>>, <<"FUTURE_COMPOSITE_FK_MISMATCH", mismatch>>}
<1>1. code \in {p[1] : p \in {p \in found : p[2]}}
  BY DEF SecondaryCodes
<1> HIDE DEF cross, disagree, mismatch
<1>2. PICK p \in found : p[2] /\ code = p[1]
  <2> HIDE DEF found
  <2> QED BY <1>1
<1>3. p[1] \in OtherCodes \/ p = <<OrphanReason(path), s.orphan>>
  BY DEF OtherCodes
<1>4. CASE p = <<OrphanReason(path), s.orphan>>
  BY <1>2, <1>4
<1> QED BY <1>2, <1>3, <1>4

\* The codes of a table's rows.
LEMMA RowCodes ==
  ASSUME NEW d, NEW t \in Tables, Registry[t].class # "SYSTEM_GLOBAL", NEW code \in ScanRows(d, t)
  PROVE  \/ code \in OtherCodes
         \/ /\ code = "UNMAPPED_AGENT"
            /\ \E row \in d[t] : \E c \in PathSql(d, Registry[t].paths[1], row) : Unmapped(Registry[t], c)
         \/ \E i \in DOMAIN Registry[t].paths : \E row \in d[t] :
              \E c \in PathSql(d, Registry[t].paths[i], row) :
                code = OrphanReason(Registry[t].paths[i]) /\ c.orphan
<1> DEFINE entry == Registry[t]
           Along(i, c, row) == UNION {SecondaryCodes(entry.paths[i], c, s) : s \in PathSql(d, entry.paths[i], row)}
           Others(c, row) == UNION {Along(i, c, row) : i \in 2 .. Len(entry.paths)}
           Codes(row) == UNION {CanonicalCodes(entry, row, c) \cup Others(c, row) :
                                  c \in PathSql(d, entry.paths[1], row)}
<1>1. 1 \in DOMAIN entry.paths /\ 2 .. Len(entry.paths) \subseteq DOMAIN entry.paths
  BY Registered DEF EntryFact
<1>2. code \in UNION {Codes(row) : row \in d[t]}
  BY DEF ScanRows
<1>3. PICK row \in d[t] : code \in Codes(row)
  <2> HIDE DEF Codes
  <2> QED BY <1>2
<1>4. PICK c \in PathSql(d, entry.paths[1], row) : code \in CanonicalCodes(entry, row, c) \cup Others(c, row)
  <2> HIDE DEF Others
  <2> QED BY <1>3
<1>5. CASE code \in CanonicalCodes(entry, row, c)
  BY <1>1, <1>5, CanonicalCodesAre
<1>6. CASE code \in Others(c, row)
  <2>1. PICK i \in 2 .. Len(entry.paths) : code \in Along(i, c, row)
    <3> HIDE DEF Along
    <3> QED BY <1>6
  <2>2. PICK s \in PathSql(d, entry.paths[i], row) : code \in SecondaryCodes(entry.paths[i], c, s)
    BY <2>1
  <2> QED BY <1>1, <2>2, SecondaryCodesAre
<1> HIDE DEF Others
<1> QED BY <1>4, <1>5, <1>6

\* What is found of a table carries its name; a finding on rows comes only
\* behind both gates.
LEMMA ScanFindings ==
  ASSUME NEW view, NEW t \in Tables, NEW f \in Scan(view, t)
  PROVE  /\ f.table = t /\ f.blocking \in BOOLEAN
         /\ \/ f.code \in {"GLOBAL_SCOPE_UNVERIFIED", "SCHEMA_RELATIONSHIP_DRIFT", "AMBIGUOUS_LEGACY_IDENTIFIER"}
            \/ /\ Registry[t].class # "SYSTEM_GLOBAL" /\ VerifySchemaContract(view, t)
               /\ f.code \in ScanRows(view.db, t)
<1>1. ASSUME NEW code, f = Finding(t, code) PROVE f.table = t /\ f.code = code /\ f.blocking \in BOOLEAN
  BY <1>1 DEF Finding
<1>2. CASE Registry[t].class = "SYSTEM_GLOBAL"
  <2>1. f = [table |-> t, code |-> "GLOBAL_SCOPE_UNVERIFIED", blocking |-> FALSE]
    BY <1>2 DEF Scan, CheckGlobalScope
  <2>2. f.table = t /\ f.code = "GLOBAL_SCOPE_UNVERIFIED" /\ f.blocking = FALSE
    BY <2>1
  <2> QED BY <2>2
<1>3. \A code \in ScanAmbiguity(view.db, t) : code = "AMBIGUOUS_LEGACY_IDENTIFIER"
  BY DEF ScanAmbiguity
<1>4. CASE Registry[t].class # "SYSTEM_GLOBAL" /\ ~(CheckSchemaRelationships(view, t) /\ VerifySchemaContract(view, t))
  <2>1. f = Finding(t, "SCHEMA_RELATIONSHIP_DRIFT") \/ \E code \in ScanAmbiguity(view.db, t) : f = Finding(t, code)
    BY <1>4 DEF Scan
  <2> QED BY <1>1, <1>3, <2>1
<1>5. CASE Registry[t].class # "SYSTEM_GLOBAL" /\ CheckSchemaRelationships(view, t) /\ VerifySchemaContract(view, t)
  <2>1. \E code \in ScanRows(view.db, t) \cup ScanAmbiguity(view.db, t) : f = Finding(t, code)
    BY <1>5 DEF Scan
  <2> QED BY <1>1, <1>3, <1>5, <2>1
<1> QED BY <1>2, <1>4, <1>5

\* A path through the memories finds the row it names.
LEMMA NamedMemoriesAreFound ==
  ASSUME NEW d, NEW path, path.kind = "Memory", NEW row, NEW c \in PathSql(d, path, row),
         row[path.column] # NULL => \E m \in d["memories"] : m.id = row[path.column]
  PROVE  ~ c.orphan
<1> DEFINE root == row[path.column]
           parents == {p \in d["memories"] : p.id = root}
<1>1. Through["Memory"] = "memories"
  BY DEF Through
<1>2. PathSql(d, path, row) = DerivedPath(d, root, parents)
  BY <1>1 DEF PathSql
<1>3. PICK p \in LeftJoin(parents) : \E a \in AgentsNamed(d, p.agent_id) : c = Reached(root, p, a)
  BY <1>2 DEF DerivedPath
<1>4. c.orphan = (root # NULL /\ p.id = NULL)
  BY <1>3 DEF Reached
<1>5. root # NULL => p.id = root
  BY <1>3 DEF LeftJoin
<1> QED BY <1>4, <1>5

\* A row is reported for a missing tenant only where it reached an agent that
\* has none.
LEMMA ReachedAgentsAreThere ==
  ASSUME NEW d, NEW path, NEW row, NEW c \in PathSql(d, path, row), c.agent # NULL, c.tenant = NULL
  PROVE  \E a \in d["agents"] : a.tenant_id = NULL
<1> DEFINE root == row[path.column]
           Found(x) == x.agent # NULL /\ x.tenant = NULL => \E a \in d["agents"] : a.tenant_id = NULL
<1>1. ASSUME NEW p, NEW rows, rows \subseteq d["agents"], NEW a \in LeftJoin(rows)
      PROVE  Found(Reached(root, p, a))
  BY <1>1 DEF LeftJoin, NoRow, Reached
<1>2. ASSUME NEW parents, NEW x \in DerivedPath(d, root, parents)
      PROVE  Found(x) /\ Found([x EXCEPT !.orphan = FALSE])
  <2>1. PICK p \in LeftJoin(parents) : \E a \in AgentsNamed(d, p.agent_id) : x = Reached(root, p, a)
    BY <1>2 DEF DerivedPath
  <2>2. Found(x)
    BY <1>1, <2>1 DEF AgentsNamed
  <2>3. [x EXCEPT !.orphan = FALSE].agent = x.agent /\ [x EXCEPT !.orphan = FALSE].tenant = x.tenant
    BY <2>1 DEF Reached
  <2> QED BY <2>2, <2>3
<1>3. CASE path.kind = "TenantColumn"
  BY <1>3 DEF PathSql
<1>4. CASE path.kind \in {"AgentText", "AgentUuid"}
  <2>1. \E rows : rows \subseteq d["agents"] /\ \E a \in LeftJoin(rows) : c = Reached(root, a, a)
    BY <1>4 DEF PathSql, AgentsNamed
  <2> QED BY <1>1, <2>1
<1>5. CASE path.kind = "Session"
  <2>1. \E parents : \E x \in DerivedPath(d, root, parents) : c = x \/ c = [x EXCEPT !.orphan = FALSE]
    BY <1>5 DEF PathSql
  <2> QED BY <1>2, <2>1
<1>6. CASE path.kind \notin {"TenantColumn", "AgentText", "AgentUuid", "Session"}
  <2>1. c \in DerivedPath(d, root, {p \in d[Through[path.kind]] : p.id = root})
    BY <1>6 DEF PathSql
  <2> QED BY <1>2, <2>1
<1> QED BY <1>3, <1>4, <1>5, <1>6

\* An agent without a tenant shows up when the agents are scanned, unless
\* their schema drifted, which is found instead.
LEMMA RootsFound ==
  ASSUME NEW view, NEW a \in view.db["agents"], a.tenant_id = NULL
  PROVE  RootIn(Scan(view, "agents"))
<1> DEFINE entry == Registry["agents"]
           path == entry.paths[1]
           c == [null |-> a.tenant_id = NULL, orphan |-> FALSE, agent |-> NULL, tenant |-> a.tenant_id]
<1>1. /\ "agents" \in Tables /\ entry.class = "TENANT_ROOT" /\ path.kind = "TenantColumn"
      /\ path.column = "tenant_id" /\ "agents" # "agent_tenancy_migrations"
  <2>1. entry = Agents /\ "agents" \in Tables
    BY DEF Registry, Tables
  <2> QED BY <2>1 DEF Agents, Entry, TenantColumn
<1>2. CASE ~(CheckSchemaRelationships(view, "agents") /\ VerifySchemaContract(view, "agents"))
  <2>1. Finding("agents", "SCHEMA_RELATIONSHIP_DRIFT") \in Scan(view, "agents")
    BY <1>1, <1>2 DEF Scan
  <2> QED BY <2>1 DEF RootIn, Finding
<1>3. CASE CheckSchemaRelationships(view, "agents") /\ VerifySchemaContract(view, "agents")
  <2>1. c \in PathSql(view.db, path, a)
    BY <1>1 DEF PathSql
  <2>2. "UNMAPPED_AGENT" \in CanonicalCodes(entry, a, c)
    <3>1. Unmapped(entry, c)
      BY <1>1 DEF Unmapped
    <3> HIDE DEF c
    <3>2. <<"UNMAPPED_AGENT", Unmapped(entry, c)>>[1] = "UNMAPPED_AGENT"
      OBVIOUS
    <3> QED BY <3>1, <3>2 DEF CanonicalCodes
  <2>3. "UNMAPPED_AGENT" \in ScanRows(view.db, "agents")
    BY <2>1, <2>2 DEF ScanRows
  <2>4. Finding("agents", "UNMAPPED_AGENT") \in Scan(view, "agents")
    BY <1>1, <1>3, <2>3 DEF Scan
  <2> QED BY <2>4 DEF RootIn, Finding
<1> QED BY <1>2, <1>3

\* Only a table of no tenant is scanned before the agents.
LEMMA AgentsComeEarly ==
  ASSUME NEW t \in Tables, t # "agents", Position[t] <= Position["agents"]
  PROVE  Registry[t].class = "SYSTEM_GLOBAL"
<1> DEFINE at(u) == CHOOSE i \in DOMAIN RegistryOrder : RegistryOrder[i] = u
<1>1. ASSUME NEW u \in Tables
      PROVE  Position[u] \in DOMAIN RegistryOrder /\ RegistryOrder[Position[u]] = u
  <2>1. \E i \in DOMAIN RegistryOrder : RegistryOrder[i] = u
    BY UniverseIsOfTheRegistry DEF ToSet
  <2> QED BY <2>1 DEF Position
<1>2. "agents" \in Tables
  BY DEF Tables, Registry
<1>3. /\ RegistryOrder[1] = "agent_tenancy_migrations" /\ RegistryOrder[2] = "agents"
      /\ DOMAIN RegistryOrder = 1 .. 23
      /\ \A i \in 3 .. 23 : RegistryOrder[i] # "agents"
  BY DEF RegistryOrder
<1>4. Position["agents"] = 2
  BY <1>1, <1>2, <1>3
<1>5. Position[t] \in 1 .. 23 /\ Position[t] # 2
  BY <1>1, <1>3
<1>6. t = "agent_tenancy_migrations"
  BY <1>1, <1>3, <1>4, <1>5
<1> QED BY <1>6 DEF Registry, AgentTenancyMigrations, Entry

-----------------------------------------------------------------------------
(***************************************************************************)
(* The references to the memories.                                         *)
(***************************************************************************)

\* Which tables a path through the memories can start in.
LEMMA MemoryPathsStartIn ==
  ASSUME NEW t \in Tables, NEW i \in DOMAIN Registry[t].paths, Registry[t].paths[i].kind = "Memory"
  PROVE  /\ MemoryKey(t, Registry[t].paths[i]) /\ Registry[t].paths[i] \in ToSet(Registry[t].paths)
         /\ t \notin {"agents", "memories"}
         /\ Registry[t].paths[i].column \in Columns(t)
<1>1. MemoryKey(t, Registry[t].paths[i])
  BY Registered DEF EntryFact, PathFact
<1>2. t \notin {"agents", "memories"}
  BY <1>1 DEF MemoryKey
<1>3. Registry[t].paths[i] \in ToSet(Registry[t].paths)
  BY DEF ToSet
<1> QED BY <1>1, <1>2, <1>3 DEF Columns

\* A database that keeps its memories, and whose rows are the rows it had but
\* for those of which it is known, keeps its references.
LEMMA KeysKept ==
  ASSUME NEW d, NEW e, NEW g, NEW h, MemoryKeys(d, g), g \subseteq h,
         d["memories"] \subseteq e["memories"],
         \A t \in Tables : \A i \in DOMAIN Registry[t].paths : \A row \in e[t] :
           Registry[t].paths[i].kind = "Memory" /\ <<t, References(Registry[t].paths[i].column, "memories")>> \notin h =>
             \/ row \in d[t]
             \/ row[Registry[t].paths[i].column] # NULL =>
                  \E m \in e["memories"] : m.id = row[Registry[t].paths[i].column]
  PROVE  MemoryKeys(e, h)
<1> SUFFICES ASSUME NEW t \in Tables, NEW i \in DOMAIN Registry[t].paths, Registry[t].paths[i].kind = "Memory",
                    <<t, References(Registry[t].paths[i].column, "memories")>> \notin h,
                    NEW row \in e[t], row[Registry[t].paths[i].column] # NULL
             PROVE  \E m \in e["memories"] : m.id = row[Registry[t].paths[i].column]
  BY DEF MemoryKeys
<1>1. CASE row \in d[t]
  <2>1. <<t, References(Registry[t].paths[i].column, "memories")>> \notin g
    OBVIOUS
  <2>2. \E m \in d["memories"] : m.id = row[Registry[t].paths[i].column]
    BY <1>1, <2>1 DEF MemoryKeys
  <2> QED BY <2>2
<1> QED BY <1>1

\* A row is admitted only with the memory it names.
LEMMA AdmittedRowsHaveTheirMemory ==
  ASSUME NEW t \in Tables, NEW row, Admits(t, row), NEW path, MemoryKey(t, path),
         <<t, References(path.column, "memories")>> \notin gone, row[path.column] # NULL
  PROVE  \E m \in db["memories"] : m.id = row[path.column]
<1> DEFINE key == References(path.column, "memories")
<1>1. key.to = "memories" /\ key.columns = <<path.column>> /\ key.refs = <<"id">>
  BY DEF References, ForeignKey
<1>2. KeyHolds(db, row, key.columns, key.to, key.refs)
  <2>1. key \in Registry[t].contract /\ <<t, key>> \notin gone /\ key.to # ""
    BY <1>1 DEF MemoryKey
  <2> HIDE DEF key
  <2> QED BY <2>1 DEF Admits
<1> HIDE DEF key
<1>3. DOMAIN key.columns = {1} /\ key.columns[1] = path.column /\ key.refs[1] = "id"
  BY <1>1
<1>4. Has(row, key.columns)
  BY <1>3 DEF Has
<1>5. PICK m \in db["memories"] : SameTuple(row, key.columns, m, key.refs)
  BY <1>1, <1>2, <1>4 DEF KeyHolds
<1> QED BY <1>3, <1>5 DEF SameTuple

\* The rows a database has after an agent is deleted, table by table.
Kept(agent, t) == {r \in db[t] : t \in Emptied => r.agent_id # agent.agent_id}
Alive(agent, t) == {r.id : r \in Kept(agent, t)}
Cleared(agent, r) == IF r.memory_id \in Alive(agent, "memories") THEN r ELSE [r EXCEPT !.memory_id = NULL]
Unlearned(agent, r) == IF r.policy_id \in Alive(agent, "rmk_policies") THEN r ELSE [r EXCEPT !.policy_id = NULL]
Left(agent, t, r) ==
  IF t = "retrieval_feedback" THEN Cleared(agent, r)
  ELSE IF t = "rmk_episodes" THEN Unlearned(agent, r) ELSE r
Lineage == {"memory_versions", "memory_entity_links", "co_access_edges", "memory_conflicts"}

\* Every row a deletion leaves comes from one there was, and the lineage of
\* deleted memories goes with them.
LEMMA DeletionsLeave ==
  ASSUME NEW agent, DeleteAgent(agent)
  PROVE  /\ DOMAIN db' = Tables
         /\ db'["memories"] = Kept(agent, "memories")
         /\ \A t \in Tables : \A row \in db'[t] : \E r \in db[t] : row = Left(agent, t, r)
         /\ \A t \in Lineage : \A row \in db'[t] : \A p \in ToSet(Registry[t].paths) :
              p.kind \in DOMAIN Through /\ row[p.column] # NULL => row[p.column] \in Alive(agent, Through[p.kind])
<1> DEFINE New(t) ==
             CASE t = "agents" -> {a \in db[t] : a.agent_id # agent.agent_id}
               [] t = "credential_agent_grants" -> {g \in db[t] : g.agent_uuid # agent.id}
               [] t \in Lineage ->
                    {r \in Kept(agent, t) : \A p \in ToSet(Registry[t].paths) :
                        p.kind \in DOMAIN Through /\ r[p.column] # NULL
                            => r[p.column] \in Alive(agent, Through[p.kind])}
               [] t = "retrieval_feedback" -> {Cleared(agent, r) : r \in Kept(agent, t)}
               [] t = "rmk_episodes" -> {Unlearned(agent, r) : r \in Kept(agent, t)}
               [] OTHER -> Kept(agent, t)
<1>1. db' = [t \in Tables |-> New(t)]
  BY DEF DeleteAgent, Kept, Alive, Cleared, Unlearned, Lineage
<1>2. {"memories", "retrieval_feedback"} \cup Lineage \subseteq Tables
  BY DEF Tables, Registry, Lineage
<1>3. \A t \in Tables : db'[t] = New(t)
  BY <1>1
<1>4. New("memories") = Kept(agent, "memories")
  BY DEF Lineage
<1>5. ASSUME NEW t \in Lineage, NEW row \in New(t), NEW p \in ToSet(Registry[t].paths),
             p.kind \in DOMAIN Through, row[p.column] # NULL
      PROVE  row[p.column] \in Alive(agent, Through[p.kind])
  <2>1. New(t) = {r \in Kept(agent, t) : \A q \in ToSet(Registry[t].paths) :
                        q.kind \in DOMAIN Through /\ r[q.column] # NULL
                            => r[q.column] \in Alive(agent, Through[q.kind])}
    BY DEF Lineage
  <2> QED BY <1>5, <2>1
<1>6. ASSUME NEW t \in Tables, NEW row \in New(t)
      PROVE  \E r \in db[t] : row = Left(agent, t, r)
  BY DEF Lineage, Kept, Left
<1> HIDE DEF New
<1> QED BY <1>1, <1>2, <1>3, <1>4, <1>5, <1>6

\* The deletion of an agent leaves no reference to a memory it deleted.
LEMMA DeletionsKeepKeys ==
  ASSUME TypeOK, NEW agent, DeleteAgent(agent), MemoryKeys(db, gone)
  PROVE  MemoryKeys(db', gone)
<1> SUFFICES ASSUME NEW t \in Tables, NEW i \in DOMAIN Registry[t].paths, Registry[t].paths[i].kind = "Memory",
                    NEW row \in db'[t], row[Registry[t].paths[i].column] # NULL
             PROVE  \E m \in db'["memories"] : m.id = row[Registry[t].paths[i].column]
  BY DEF MemoryKeys
<1> DEFINE path == Registry[t].paths[i]
<1>1. MemoryKey(t, path) /\ path \in ToSet(Registry[t].paths) /\ path.column \in Columns(t)
  BY MemoryPathsStartIn
<1>2. path.kind \in DOMAIN Through /\ Through[path.kind] = "memories"
  BY DEF Through
<1>3. row[path.column] \in Alive(agent, "memories")
  <2>1. CASE t \in Lineage
    BY <1>1, <1>2, <2>1, DeletionsLeave
  <2>2. CASE t = "retrieval_feedback" /\ path.column = "memory_id"
    <3>1. PICK r \in db[t] : row = Cleared(agent, r)
      BY <2>2, DeletionsLeave DEF Left
    <3>2. "memory_id" \in DOMAIN r
      BY <1>1, <2>2 DEF TypeOK
    <3> QED BY <2>2, <3>1, <3>2 DEF Cleared
  <2> QED BY <1>1, <2>1, <2>2 DEF MemoryKey, Lineage
<1> QED BY <1>3, DeletionsLeave DEF Alive

-----------------------------------------------------------------------------
(***************************************************************************)
(* The invariant, step by step.                                            *)
(***************************************************************************)

\* The part of the types that speaks of rows.
RowsOK(d) ==
  \A t \in Tables : \A row \in d[t] :
    /\ Columns(t) \subseteq DOMAIN row
    /\ \A other \in d[t] : other.id = row.id => other = row

\* The invariant holds of an empty database.
LEMMA InitHolds == Init => IInv
<1> SUFFICES ASSUME Init PROVE IInv
  OBVIOUS
<1>1. DOMAIN audit.db = Tables /\ \A t \in Tables : db[t] = {} /\ audit.db[t] = {}
  BY DEF Init, Idle
<1>2. audit.phase = "idle" /\ audit.todo = {} /\ audit.findings = {}
  BY DEF Init, Idle
<1>3. TypeOK
  <2>1. late \in 0 .. MaxLate
    BY UniverseIsOfTheRegistry DEF Init
  <2>2. strangers \in BOOLEAN
    BY DEF Init
  <2> QED BY <1>1, <1>2, <2>1, <2>2 DEF TypeOK
<1>4. MemoryKeys(db, gone) /\ MemoryKeys(audit.db, audit.gone)
  BY <1>1 DEF MemoryKeys
<1>5. DOMAIN db = Tables /\ DOMAIN audit = DOMAIN Idle
  BY DEF Init
<1>6. AgentsInv /\ UnreachableNeverFires /\ RootExplainsChildren
  BY <1>2 DEF AgentsInv, UnreachableNeverFires, RootExplainsChildren
<1> QED BY <1>3, <1>4, <1>5, <1>6 DEF IInv, ShapeInv

\* What the service does leaves the audit as it is.
LEMMA WritesKeepTheAudit ==
  ASSUME IInv, UNCHANGED audit, UNCHANGED strangers, RowsOK(db'), late' \in 0 .. MaxLate,
         DOMAIN db' = Tables, MemoryKeys(db', gone')
  PROVE  IInv'
<1>1. TypeOK'
  BY DEF IInv, TypeOK, RowsOK
<1>2. MemoryKeys(audit.db, audit.gone)'
  BY DEF IInv, MemoryKeys
<1>3. AgentsInv' /\ UnreachableNeverFires' /\ RootExplainsChildren'
  BY DEF IInv, AgentsInv, UnreachableNeverFires, RootExplainsChildren
<1>4. MemoryKeys(db, gone)'
  BY DEF MemoryKeys
<1> QED BY <1>1, <1>2, <1>3, <1>4 DEF IInv, ShapeInv

\* A scan leaves room for MaxLate writes.
LEMMA LateStaysBounded ==
  ASSUME TypeOK, MayWrite
  PROVE  late' \in 0 .. MaxLate
BY UniverseIsOfTheRegistry DEF TypeOK, MayWrite

\* An insert is checked by the keys the schema still has.
LEMMA InsertKeeps ==
  ASSUME IInv, NEW t \in DOMAIN Universe, NEW row \in Universe[t], Insert(t, row)
  PROVE  IInv'
<1>1. t \in Tables /\ Columns(t) \subseteq DOMAIN row
  BY UniverseIsOfTheRegistry, RowsHaveTheirColumns DEF IsLegacy
<1>2. DOMAIN db' = Tables /\ \A u \in Tables : db'[u] = IF u = t THEN db[t] \cup {row} ELSE db[u]
  BY <1>1 DEF Insert, IInv, ShapeInv
<1>3. Admits(t, row) /\ UNCHANGED <<audit, gone, strangers>>
  BY DEF Insert, schema
<1>4. \A other \in db[t] : other.id # row.id
  BY <1>3 DEF Admits
<1>5. RowsOK(db')
  BY <1>1, <1>2, <1>4 DEF IInv, TypeOK, RowsOK
<1>6. MemoryKeys(db', gone')
  <2>1. "memories" \in Tables
    BY DEF Tables, Registry
  <2>2. db["memories"] \subseteq db'["memories"]
    BY <1>2, <2>1
  <2>3. ASSUME NEW u \in Tables, NEW i \in DOMAIN Registry[u].paths, NEW r \in db'[u],
               Registry[u].paths[i].kind = "Memory",
               <<u, References(Registry[u].paths[i].column, "memories")>> \notin gone,
               r \notin db[u], r[Registry[u].paths[i].column] # NULL
        PROVE  \E m \in db'["memories"] : m.id = r[Registry[u].paths[i].column]
    <3>1. u = t /\ r = row
      BY <1>2, <2>3
    <3>2. MemoryKey(t, Registry[t].paths[i])
      BY <1>1, <2>3, <3>1, MemoryPathsStartIn
    <3>3. \E m \in db["memories"] : m.id = row[Registry[t].paths[i].column]
      BY <1>1, <1>3, <2>3, <3>1, <3>2, AdmittedRowsHaveTheirMemory
    <3> QED BY <2>2, <3>1, <3>3
  <2>4. MemoryKeys(db, gone)
    BY DEF IInv
  <2> QED BY <1>3, <2>2, <2>3, <2>4, KeysKept
<1>7. late' \in 0 .. MaxLate
  BY LateStaysBounded DEF Insert, IInv
<1> QED BY <1>2, <1>3, <1>5, <1>6, <1>7, WritesKeepTheAudit

\* An assignment changes a column of the agents only.
LEMMA MapAgentKeeps ==
  ASSUME IInv, NEW agent, NEW tenant, MapAgent(agent, tenant)
  PROVE  IInv'
<1> DEFINE mapped == [agent EXCEPT !.tenant_id = tenant]
<1>1. {"agents", "memories"} \subseteq Tables
  BY DEF Tables, Registry
<1>2. agent \in db["agents"] /\ UNCHANGED <<audit, gone, strangers>>
  BY DEF MapAgent, schema
<1>3. DOMAIN db' = Tables /\ db'["agents"] = (db["agents"] \ {agent}) \cup {mapped}
  BY <1>1 DEF MapAgent, IInv, ShapeInv
<1>4. \A u \in Tables \ {"agents"} : db'[u] = db[u]
  BY DEF MapAgent, IInv, ShapeInv
<1>5. DOMAIN mapped = DOMAIN agent /\ mapped.id = agent.id
  <2>1. "id" \in DOMAIN agent
    BY <1>1, <1>2 DEF IInv, TypeOK, Columns
  <2> QED BY <2>1
<1> HIDE DEF mapped
<1>6. RowsOK(db')
  BY <1>1, <1>2, <1>3, <1>4, <1>5 DEF IInv, TypeOK, RowsOK
<1>7. MemoryKeys(db', gone')
  <2>1. MemoryKeys(db, gone) /\ db["memories"] \subseteq db'["memories"]
    BY <1>1, <1>4 DEF IInv
  <2>2. ASSUME NEW u \in Tables, NEW i \in DOMAIN Registry[u].paths, NEW r \in db'[u],
               Registry[u].paths[i].kind = "Memory"
        PROVE  r \in db[u]
    BY <1>4, <2>2, MemoryPathsStartIn
  <2> QED BY <1>2, <2>1, <2>2, KeysKept
<1>8. late' \in 0 .. MaxLate
  BY LateStaysBounded DEF MapAgent, IInv
<1> QED BY <1>2, <1>3, <1>6, <1>7, <1>8, WritesKeepTheAudit

\* A deletion leaves rows as they were, or with one reference cleared.
LEMMA DeleteAgentKeeps ==
  ASSUME IInv, NEW agent, DeleteAgent(agent)
  PROVE  IInv'
<1>1. UNCHANGED <<audit, gone, strangers>>
  BY DEF DeleteAgent, schema
<1>2. MemoryKeys(db', gone')
  BY <1>1, DeletionsKeepKeys DEF IInv
<1>3. late' \in 0 .. MaxLate
  BY LateStaysBounded DEF DeleteAgent, IInv
<1>4. RowsOK(db')
  <2>1. ASSUME NEW t \in Tables, NEW row \in db'[t]
        PROVE  \E r \in db[t] : row = Left(agent, t, r) /\ DOMAIN row = DOMAIN r /\ row.id = r.id
    <3>1. \A r \in db[t] : "id" \in DOMAIN r
      BY DEF IInv, TypeOK, Columns
    <3>2. ASSUME NEW r, "id" \in DOMAIN r
          PROVE  DOMAIN Left(agent, t, r) = DOMAIN r /\ Left(agent, t, r).id = r.id
      BY <3>2 DEF Left, Cleared, Unlearned
    <3> QED BY <3>1, <3>2, DeletionsLeave
  <2>2. ASSUME NEW t \in Tables, NEW row \in db'[t], NEW other \in db'[t], other.id = row.id
        PROVE  other = row
    <3>1. PICK r \in db[t] : row = Left(agent, t, r) /\ row.id = r.id
      BY <2>1
    <3>2. PICK o \in db[t] : other = Left(agent, t, o) /\ other.id = o.id
      BY <2>1
    <3>3. o = r
      BY <2>2, <3>1, <3>2 DEF IInv, TypeOK
    <3> QED BY <3>1, <3>2, <3>3
  <2> QED BY <2>1, <2>2 DEF RowsOK, IInv, TypeOK
<1> QED BY <1>1, <1>2, <1>3, <1>4, DeletionsLeave, WritesKeepTheAudit

\* The schema only loses guarantees, so what is asked of the rows shrinks.
LEMMA DriftKeeps ==
  ASSUME IInv, Drift
  PROVE  IInv'
<1>1. UNCHANGED <<db, late, audit>>
  BY DEF Drift
<1>2. gone \subseteq gone'
  BY DEF Drift, schema
<1>3. strangers' \in BOOLEAN
  BY DEF Drift, IInv, TypeOK
<1>4. TypeOK'
  BY <1>1, <1>3 DEF IInv, TypeOK
<1>5. MemoryKeys(db, gone)'
  <2>1. MemoryKeys(db, gone) /\ db' = db
    BY <1>1 DEF IInv
  <2>2. MemoryKeys(db', gone')
    BY <1>2, <2>1, KeysKept
  <2> QED BY <2>2 DEF MemoryKeys
<1>6. MemoryKeys(audit.db, audit.gone)'
  BY <1>1 DEF IInv, MemoryKeys
<1>7. AgentsInv' /\ UnreachableNeverFires' /\ RootExplainsChildren'
  BY <1>1 DEF IInv, AgentsInv, UnreachableNeverFires, RootExplainsChildren
<1> QED BY <1>1, <1>4, <1>5, <1>6, <1>7 DEF IInv, ShapeInv

\* A table that is not among those to scan has no row.
LEMMA BeginKeeps ==
  ASSUME IInv, Begin
  PROVE  IInv'
<1>1. /\ audit'.phase = "scan" /\ audit'.db = db /\ audit'.gone = gone
      /\ audit'.todo = {t \in Tables : Worth(t)} /\ DOMAIN audit' = DOMAIN Idle
      /\ audit'.findings = CheckInventoryContract([strangers |-> strangers])
  BY DEF Begin, Idle
<1>2. late' = 0 /\ UNCHANGED <<db, gone, strangers>>
  BY DEF Begin, schema
<1>3. \A f \in audit'.findings : f.table = "stranger" /\ f.code = "UNCLASSIFIED_TABLE" /\ f.blocking \in BOOLEAN
  <2>1. \A f \in audit'.findings : f = Finding("stranger", "UNCLASSIFIED_TABLE")
    BY <1>1 DEF CheckInventoryContract
  <2>2. ASSUME NEW f, f = Finding("stranger", "UNCLASSIFIED_TABLE")
        PROVE  f.table = "stranger" /\ f.code = "UNCLASSIFIED_TABLE" /\ f.blocking \in BOOLEAN
    BY <2>2 DEF Finding
  <2> QED BY <2>1, <2>2
<1>4. TypeOK'
  <2>1. late' \in 0 .. MaxLate
    BY <1>2, UniverseIsOfTheRegistry
  <2> QED BY <1>1, <1>2, <1>3, <2>1 DEF IInv, TypeOK
<1>5. MemoryKeys(db, gone)' /\ MemoryKeys(audit.db, audit.gone)'
  BY <1>1, <1>2 DEF IInv, MemoryKeys
<1>6. AgentsInv'
  <2>1. "agents" \in Tables
    BY DEF Tables, Registry
  <2>2. "agents" \notin audit'.todo => db["agents"] = {}
    BY <1>1, <2>1 DEF Worth
  <2> QED BY <1>1, <1>3, <2>2 DEF AgentsInv
<1>7. UnreachableNeverFires' /\ RootExplainsChildren'
  BY <1>3 DEF UnreachableNeverFires, RootExplainsChildren, UnreachableRequiredZero
<1> QED BY <1>1, <1>2, <1>4, <1>5, <1>6, <1>7 DEF IInv, ShapeInv

\* The end of the audit changes its phase only.
LEMMA ReportKeeps ==
  ASSUME IInv, Report
  PROVE  IInv'
<1>1. /\ audit'.phase = "done" /\ audit.phase = "scan" /\ audit'.db = audit.db /\ audit'.gone = audit.gone
      /\ audit'.todo = audit.todo /\ audit'.findings = audit.findings /\ DOMAIN audit' = DOMAIN Idle
  BY DEF Report, IInv, ShapeInv, Idle
<1>2. UNCHANGED <<db, gone, strangers, late>>
  BY DEF Report, schema
<1>3. TypeOK'
  BY <1>1, <1>2 DEF IInv, TypeOK
<1>4. MemoryKeys(db, gone)' /\ MemoryKeys(audit.db, audit.gone)'
  BY <1>1, <1>2 DEF IInv, MemoryKeys
<1>5. AgentsInv'
  BY <1>1 DEF IInv, AgentsInv
<1>6. UnreachableNeverFires' /\ RootExplainsChildren'
  BY <1>1 DEF IInv, UnreachableNeverFires, RootExplainsChildren
<1> QED BY <1>1, <1>2, <1>3, <1>4, <1>5, <1>6 DEF IInv, ShapeInv

\* Why the codes the plan calls unreachable are: only a memory that is not
\* there orphans a reference to it, and behind gate 2 there is none.
LEMMA ScanNeverReportsThem ==
  ASSUME NEW view, MemoryKeys(view.db, view.gone), NEW t \in Tables, NEW f \in Scan(view, t)
  PROVE  <<f.table, f.code>> \notin UnreachableRequiredZero /\ f.code # "ORPHANED_MEMORY_REFERENCE"
<1> DEFINE code == f.code
<1>1. f.table = t
  BY ScanFindings
<1>2. CASE f.code \in {"GLOBAL_SCOPE_UNVERIFIED", "SCHEMA_RELATIONSHIP_DRIFT", "AMBIGUOUS_LEGACY_IDENTIFIER"}
  BY <1>2 DEF UnreachableRequiredZero
<1>3. CASE /\ Registry[t].class # "SYSTEM_GLOBAL" /\ VerifySchemaContract(view, t)
           /\ f.code \in ScanRows(view.db, t)
  <2>1. CASE f.code \in OtherCodes \cup {"UNMAPPED_AGENT"}
    BY <2>1 DEF OtherCodes, UnreachableRequiredZero
  <2>2. ASSUME NEW i \in DOMAIN Registry[t].paths, NEW row \in view.db[t],
               NEW c \in PathSql(view.db, Registry[t].paths[i], row),
               f.code = OrphanReason(Registry[t].paths[i]), c.orphan
        PROVE  <<t, f.code>> \notin UnreachableRequiredZero /\ f.code # "ORPHANED_MEMORY_REFERENCE"
    <3> DEFINE path == Registry[t].paths[i]
    <3>1. PathFact(t, path)
      BY Registered DEF EntryFact
    <3>2. path.kind # "Memory"
      <4> SUFFICES ASSUME path.kind = "Memory" PROVE FALSE
        OBVIOUS
      <4>1. <<t, References(path.column, "memories")>> \notin view.gone
        BY <1>3, MemoryPathsStartIn DEF MemoryKey, VerifySchemaContract
      <4>2. row[path.column] # NULL => \E m \in view.db["memories"] : m.id = row[path.column]
        BY <4>1 DEF MemoryKeys
      <4> HIDE DEF path
      <4> QED BY <2>2, <4>2, NamedMemoriesAreFound DEF path
    <3>3. f.code \in OrphanReasons \ {"ORPHANED_MEMORY_REFERENCE"}
      BY <2>2, <3>2, OrphansTellTheirPath
    <3>4. f.code = "ORPHANED_SESSION_REFERENCE" => t = "working_memory"
      BY <2>2, <3>1, OrphansTellTheirPath DEF PathFact
    <3>5. f.code = "ORPHANED_AGENT_REFERENCE" => t # "co_access_edges"
      BY <2>2, <3>1, OrphansTellTheirPath DEF PathFact
    <3> HIDE DEF path
    <3> QED BY <3>3, <3>4, <3>5 DEF OrphanReasons, UnreachableRequiredZero
  <2> QED BY <1>1, <1>3, <2>1, <2>2, RowCodes
<1> QED BY <1>2, <1>3, ScanFindings

\* A table other than the agents is reported for a missing tenant only where
\* an agent has none.
LEMMA UnmappedChildrenHaveARoot ==
  ASSUME NEW view, NEW t \in Tables, t # "agents", NEW f \in Scan(view, t), f.code = "UNMAPPED_AGENT"
  PROVE  Registry[t].class # "SYSTEM_GLOBAL" /\ \E a \in view.db["agents"] : a.tenant_id = NULL
<1>1. Registry[t].class # "SYSTEM_GLOBAL" /\ f.code \in ScanRows(view.db, t)
  BY ScanFindings
<1>2. "UNMAPPED_AGENT" \notin OtherCodes /\ \A path : OrphanReason(path) # "UNMAPPED_AGENT"
  BY OrphansTellTheirPath DEF OtherCodes, OrphanReasons
<1>3. PICK row \in view.db[t] : \E c \in PathSql(view.db, Registry[t].paths[1], row) : Unmapped(Registry[t], c)
  BY <1>1, <1>2, RowCodes
<1>4. Registry[t].class # "TENANT_ROOT"
  BY Registered DEF EntryFact
<1> QED BY <1>1, <1>3, <1>4, ReachedAgentsAreThere DEF Unmapped

\* The scan of one table: the agents, one before them, or one behind them.
LEMMA ScanNextKeeps ==
  ASSUME IInv, ScanNext
  PROVE  IInv'
<1>1. PICK t \in audit.todo :
         IsNext(t) /\ audit' = [audit EXCEPT !.todo = @ \ {t}, !.findings = @ \cup Scan(View, t)]
  BY DEF ScanNext
<1>2. t \in Tables
  BY DEF IInv, TypeOK
<1>3. /\ audit'.phase = audit.phase /\ audit'.db = audit.db /\ audit'.gone = audit.gone
      /\ audit'.todo = audit.todo \ {t} /\ audit'.findings = audit.findings \cup Scan(audit, t)
      /\ DOMAIN audit' = DOMAIN Idle
  BY <1>1 DEF IInv, ShapeInv, Idle, View
<1>4. UNCHANGED <<db, gone, strangers, late>> /\ audit.phase = "scan"
  BY DEF ScanNext, schema
<1>5. TypeOK'
  <2>1. \A f \in audit'.findings : f.blocking \in BOOLEAN
    BY <1>2, <1>3, ScanFindings DEF IInv, TypeOK
  <2> QED BY <1>3, <1>4, <2>1 DEF IInv, TypeOK
<1>6. MemoryKeys(db, gone)' /\ MemoryKeys(audit.db, audit.gone)'
  BY <1>3, <1>4 DEF IInv, MemoryKeys
<1>7. UnreachableNeverFires'
  BY <1>2, <1>3, ScanNeverReportsThem DEF IInv, UnreachableNeverFires
<1>8. CASE t = "agents"
  <2>1. (\E a \in audit.db["agents"] : a.tenant_id = NULL) => RootIn(Scan(audit, "agents"))
    BY RootsFound
  <2>2. RootIn(Scan(audit, "agents")) => RootIn(audit'.findings)
    BY <1>3, <1>8 DEF RootIn
  <2>3. AgentsInv'
    BY <1>3, <1>8, <2>1, <2>2 DEF AgentsInv, RootIn
  <2>4. ASSUME NEW f \in audit'.findings, f.code = "UNMAPPED_AGENT"
        PROVE  RootIn(audit'.findings)
    <3>1. CASE f \in audit.findings
      BY <1>3, <1>4, <1>8, <2>4, <3>1 DEF IInv, AgentsInv
    <3>2. CASE f \in Scan(audit, "agents")
      BY <1>2, <1>8, <2>4, <3>2, ScanFindings DEF RootIn
    <3> QED BY <1>3, <1>8, <3>1, <3>2
  <2> QED BY <1>3, <1>4, <1>5, <1>6, <1>7, <2>3, <2>4 DEF IInv, ShapeInv, RootExplainsChildren, RootIn
<1>9. CASE t # "agents" /\ "agents" \in audit.todo
  <2>1. Registry[t].class = "SYSTEM_GLOBAL"
    BY <1>1, <1>2, <1>9, AgentsComeEarly DEF IsNext
  <2>2. \A f \in audit'.findings : f.code # "UNMAPPED_AGENT"
    BY <1>2, <1>3, <1>4, <1>9, <2>1, UnmappedChildrenHaveARoot DEF IInv, AgentsInv
  <2>3. AgentsInv' /\ RootExplainsChildren'
    BY <1>3, <1>9, <2>2 DEF AgentsInv, RootExplainsChildren
  <2> QED BY <1>3, <1>4, <1>5, <1>6, <1>7, <2>3 DEF IInv, ShapeInv
<1>10. CASE t # "agents" /\ "agents" \notin audit.todo
  <2>1. (\E a \in audit.db["agents"] : a.tenant_id = NULL) => RootIn(audit'.findings)
    BY <1>3, <1>4, <1>10 DEF IInv, AgentsInv, RootIn
  <2>2. AgentsInv'
    BY <1>3, <1>10, <2>1 DEF AgentsInv, RootIn
  <2>3. ASSUME NEW f \in audit'.findings, f.code = "UNMAPPED_AGENT"
        PROVE  RootIn(audit'.findings)
    <3>1. CASE f \in audit.findings
      BY <1>3, <2>3, <3>1 DEF IInv, RootExplainsChildren, RootIn
    <3>2. CASE f \in Scan(audit, t)
      BY <1>2, <1>10, <2>1, <2>3, <3>2, UnmappedChildrenHaveARoot
    <3> QED BY <1>3, <3>1, <3>2
  <2> QED BY <1>3, <1>4, <1>5, <1>6, <1>7, <2>2, <2>3 DEF IInv, ShapeInv, RootExplainsChildren, RootIn
<1> QED BY <1>8, <1>9, <1>10

\* Every step preserves the invariant.
LEMMA NextHolds == IInv /\ [Next]_vars => IInv'
<1> SUFFICES ASSUME IInv, [Next]_vars PROVE IInv'
  OBVIOUS
<1>1. CASE Write
  BY <1>1, InsertKeeps, MapAgentKeeps, DeleteAgentKeeps DEF Write
<1>2. CASE UNCHANGED vars
  <2>1. UNCHANGED <<db, gone, strangers, late, audit>>
    BY <1>2 DEF vars
  <2>2. TypeOK' /\ ShapeInv'
    BY <2>1 DEF IInv, TypeOK, ShapeInv
  <2>3. MemoryKeys(db, gone)' /\ MemoryKeys(audit.db, audit.gone)'
    BY <2>1 DEF IInv, MemoryKeys
  <2>4. AgentsInv' /\ UnreachableNeverFires' /\ RootExplainsChildren'
    BY <2>1 DEF IInv, AgentsInv, UnreachableNeverFires, RootExplainsChildren
  <2> QED BY <2>2, <2>3, <2>4 DEF IInv
<1> QED BY <1>1, <1>2, DriftKeeps, BeginKeeps, ScanNextKeeps, ReportKeeps DEF Next

\* The invariant holds for ever.
THEOREM Invariance == Spec => []IInv
BY InitHolds, NextHolds, PTL DEF Spec

-----------------------------------------------------------------------------
(***************************************************************************)
(* The theorems.                                                           *)
(***************************************************************************)

\* The types: every row keeps the columns its ownership paths start from, and
\* its identifier is its own.
THEOREM TypeCorrect == Spec => []TypeOK
<1>1. IInv => TypeOK
  BY DEF IInv
<1> QED BY <1>1, Invariance, PTL

\* The codes the plan calls unreachable are never reported, whatever the
\* database holds, whichever guarantee of the schema was dropped and whatever
\* is written during the scan.
THEOREM UnreachableCodes == Spec => []UnreachableNeverFires
<1>1. IInv => UnreachableNeverFires
  BY DEF IInv
<1> QED BY <1>1, Invariance, PTL

\* A child reported for its agent's missing tenant always comes with a report
\* on the agents.
THEOREM ReportsAreOfOneMoment == Spec => []RootExplainsChildren
<1>1. IInv => RootExplainsChildren
  BY DEF IInv
<1> QED BY <1>1, Invariance, PTL

-----------------------------------------------------------------------------
(***************************************************************************)
(* The tenants of the backfill, by the rank of their table.                *)
(***************************************************************************)

\* How far a table is from the agents, along the parents its tenant is taken from.
Rank(t) ==
  IF t \in OwnedAlready THEN 0
  ELSE IF t \in {"memory_versions", "memory_entity_links", "co_access_edges", "memory_conflicts",
                 "retrieval_feedback"} THEN 3
  ELSE IF t \in {"memories", "rmk_episodes", "working_memory"} THEN 2
  ELSE 1

\* Every parent a tenant is taken from is nearer to the agents.
LEMMA ParentsRankLower ==
  ASSUME NEW t \in Tables, t \notin OwnedAlready, NEW source \in Authority(t)
  PROVE  source.table \in Tables /\ Rank(source.table) < Rank(t)
<1>1. CASE t \notin DOMAIN BackfillAuthority
  <2>1. source.table = "agents"
    BY <1>1 DEF Authority, From
  <2> QED BY <2>1 DEF Rank, OwnedAlready, Tables, Registry
<1>2. CASE t = "memory_entity_links"
  BY <1>2 DEF Authority, BackfillAuthority, From, IfNamed, Rank, OwnedAlready, Tables, Registry
<1>3. CASE t \in {"memory_versions", "co_access_edges"}
  BY <1>3 DEF Authority, BackfillAuthority, From, IfNamed, Rank, OwnedAlready, Tables, Registry
<1>4. CASE t \in {"memory_conflicts", "retrieval_feedback", "memories", "rmk_episodes", "working_memory"}
  BY <1>4 DEF Authority, BackfillAuthority, From, IfNamed, Rank, OwnedAlready, Tables, Registry
<1> QED BY <1>1, <1>2, <1>3, <1>4 DEF BackfillAuthority

\* One round of the backfill, from what the parents have so far.
Round(d, f) == [t \in Tables |-> Given(d, f, t)]

\* Two backfills that agree up to a rank agree one rank further after a round.
LEMMA RoundsSettle ==
  ASSUME NEW d, NEW f, NEW g, NEW n \in Nat,
         \A t \in Tables : Rank(t) < n => f[t] = g[t]
  PROVE  \A t \in Tables : Rank(t) < n + 1 => Round(d, f)[t] = Round(d, g)[t]
<1> SUFFICES ASSUME NEW t \in Tables, Rank(t) < n + 1
             PROVE  Given(d, f, t) = Given(d, g, t)
  BY DEF Round
<1>1. CASE t \in OwnedAlready
  BY <1>1 DEF Given, OwnedAlready
<1>2. CASE t \notin OwnedAlready
  <2>1. ASSUME NEW source \in Authority(t) PROVE f[source.table] = g[source.table]
    <3>1. Rank(source.table) \in Nat /\ Rank(t) \in Nat
      BY DEF Rank
    <3> QED BY <1>2, <3>1, ParentsRankLower
  <2>2. ASSUME NEW row \in d[t] PROVE Agreed(d, f, t, row) = Agreed(d, g, t, row)
    BY <2>1 DEF Agreed
  <2> DEFINE one(agreed) == IF agreed = {} THEN NULL ELSE CHOOSE tenant \in agreed : TRUE
  <2>3. \A h : Given(d, h, t) = [row \in d[t] |-> one(Agreed(d, h, t, row))]
    BY <1>2 DEF Given, OwnedAlready
  <2> HIDE DEF one
  <2> QED BY <2>2, <2>3
<1> QED BY <1>1, <1>2

\* So the rounds reach a fixed point, and the tenants the backfill gives are one:
\* its recursive definition has a solution.
LEMMA BackfillFollows ==
  ASSUME NEW d
  PROVE  TenantOf(d) = [t \in Tables |-> Given(d, TenantOf(d), t)]
<1> DEFINE F1 == Round(d, <<>>)
           F2 == Round(d, F1)
           F3 == Round(d, F2)
           F4 == Round(d, F3)
           F5 == Round(d, F4)
<1>1. \A t \in Tables : Rank(t) \in 0 .. 3
  BY DEF Rank
<1>2. \A t \in Tables : Rank(t) < 1 => F1[t] = F2[t]
  BY <1>1, RoundsSettle, 0 + 1 = 1
<1>3. \A t \in Tables : Rank(t) < 2 => F2[t] = F3[t]
  BY <1>2, RoundsSettle, 1 + 1 = 2
<1>4. \A t \in Tables : Rank(t) < 3 => F3[t] = F4[t]
  BY <1>3, RoundsSettle, 2 + 1 = 3
<1>5. \A t \in Tables : Rank(t) < 4 => F4[t] = F5[t]
  BY <1>4, RoundsSettle, 3 + 1 = 4
<1>6. F4 = [t \in Tables |-> Given(d, F4, t)]
  <2>1. F4 = [t \in Tables |-> F4[t]] /\ F5 = [t \in Tables |-> F5[t]] /\ F5 = [t \in Tables |-> Given(d, F4, t)]
    BY DEF Round
  <2>2. \A t \in Tables : F4[t] = F5[t]
    BY <1>1, <1>5
  <2> HIDE DEF F4, F5
  <2> QED BY <2>1, <2>2
<1>7. \E of : of = [t \in Tables |-> Given(d, of, t)]
  BY <1>6
<1>8. TenantOf(d) = CHOOSE of : of = [t \in Tables |-> Given(d, of, t)]
  BY DEF TenantOf
<1> QED BY <1>7, <1>8

-----------------------------------------------------------------------------
(***************************************************************************)
(* The databases a legacy service leaves.                                  *)
(***************************************************************************)

\* While its key stands, a name is of one agent.
NamesAreUnique(d, g) ==
  <<"agents", Unique(<<"agent_id">>)>> \notin g =>
    \A a, b \in d["agents"] : a.agent_id # NULL /\ a.agent_id = b.agent_id => a = b

\* Tables whose rows are never changed once they are written.
WrittenOnce == Tables \ {"agents", "retrieval_feedback", "rmk_episodes"}

\* While its NOT NULL stands, a column of theirs is not NULL.
ColumnsAreThere(d, r) ==
  \A t \in WrittenOnce : \A p \in ToSet(Registry[t].paths) :
    ~ p.nullable /\ <<t, p.column>> \notin r => \A row \in d[t] : row[p.column] # NULL

\* Every row is as the service wrote it, before the plan added a column.
RowsAreLegacy(d) == \A t \in Tables : \A row \in d[t] : IsLegacy(t, row)

\* An agent has a name, and is of a tenant or of none yet.
AgentsAreOfTenants(d) == \A a \in d["agents"] : a.agent_id # NULL /\ a.tenant_id \in Tenants \cup {NULL}

\* What the service keeps true of its database under what is left of the schema.
Legacy(d, g, r) ==
  NamesAreUnique(d, g) /\ ColumnsAreThere(d, r) /\ RowsAreLegacy(d) /\ AgentsAreOfTenants(d)

\* What was scanned is in the findings, and all was scanned when the audit is done.
AllFound ==
  /\ audit.phase # "idle" =>
       \A t \in Tables \ audit.todo : audit.db[t] = {} \/ Scan(audit, t) \subseteq audit.findings
  /\ audit.phase = "done" => audit.todo = {}

\* The second inductive invariant: the database and the snapshot of the audit are
\* such databases, and the findings hold the scan of every table that is done.
CleanInv ==
  /\ Legacy(db, gone, relaxed)
  /\ Legacy(audit.db, audit.gone, audit.relaxed)
  /\ AllFound

\* The columns of the agents.
LEMMA AgentsColumns ==
  /\ {"agents", "memories", "retrieval_feedback", "rmk_episodes"} \subseteq Tables
  /\ {"id", "agent_id", "tenant_id"} \subseteq Columns("agents")
  /\ Unique(<<"agent_id">>) \in Registry["agents"].contract
<1>1. {"agents", "memories", "retrieval_feedback", "rmk_episodes"} \subseteq Tables /\ Registry["agents"] = Agents
  BY DEF Registry, Tables
<1>2. Unique(<<"agent_id">>) \in Agents.contract /\ Agents.paths = <<TenantColumn(TRUE)>>
  BY DEF Agents, Entry
<1>3. TenantColumn(TRUE) \in ToSet(Agents.paths)
  <2>1. 1 \in DOMAIN Agents.paths /\ Agents.paths[1] = TenantColumn(TRUE)
    BY <1>2
  <2> QED BY <2>1 DEF ToSet
<1> TenantColumn(TRUE).column = "tenant_id"
  BY DEF TenantColumn
<1>4. "agent_id" \in ToSet(Unique(<<"agent_id">>).columns)
  BY DEF ToSet, Unique
<1> QED BY <1>1, <1>2, <1>3, <1>4 DEF Columns

\* It stays one when its schema loses more.
LEMMA LegacyWeakens ==
  ASSUME NEW d, NEW g, NEW h, NEW r, NEW s, Legacy(d, g, r), g \subseteq h, r \subseteq s
  PROVE  Legacy(d, h, s)
BY DEF Legacy, NamesAreUnique, ColumnsAreThere

\* A row the schema admits keeps it so,
LEMMA InsertStaysLegacy ==
  ASSUME IInv, CleanInv, NEW t \in DOMAIN Universe, NEW row \in Universe[t], Insert(t, row)
  PROVE  Legacy(db', gone, relaxed)
<1>1. t \in Tables /\ Admits(t, row)
  BY UniverseIsOfTheRegistry DEF Insert
<1>2. \A u \in Tables : db'[u] = IF u = t THEN db[t] \cup {row} ELSE db[u]
  BY <1>1 DEF Insert, IInv, ShapeInv
<1>3. NamesAreUnique(db', gone)
  <2> DEFINE key == Unique(<<"agent_id">>)
  <2>1. key.to = "" /\ DOMAIN key.columns = {1} /\ key.columns[1] = "agent_id"
    BY DEF Unique
  <2> SUFFICES ASSUME <<"agents", key>> \notin gone, t = "agents"
               PROVE  \A other \in db["agents"] : row.agent_id # NULL => other.agent_id # row.agent_id
    BY <1>2, AgentsColumns DEF CleanInv, Legacy, NamesAreUnique
  <2>2. key \in Registry["agents"].contract
    BY AgentsColumns
  <2> HIDE DEF key
  <2>3. \A other \in db["agents"] : ~ (Has(row, key.columns) /\ SameTuple(row, key.columns, other, key.columns))
    BY <1>1, <2>1, <2>2 DEF Admits
  <2> QED BY <2>1, <2>3 DEF Has, SameTuple
<1>4. ColumnsAreThere(db', relaxed)
  <2>1. \A p \in ToSet(Registry[t].paths) : ~ p.nullable /\ <<t, p.column>> \notin relaxed => row[p.column] # NULL
    BY <1>1 DEF Admits
  <2>2. WrittenOnce \subseteq Tables
    BY DEF WrittenOnce
  <2> QED BY <1>2, <2>1, <2>2 DEF CleanInv, Legacy, ColumnsAreThere
<1>5. RowsAreLegacy(db')
  BY <1>1, <1>2, RowsHaveTheirColumns DEF CleanInv, Legacy, RowsAreLegacy
<1>6. AgentsAreOfTenants(db')
  BY <1>1, <1>2, AgentsColumns, AgentsAssumption DEF CleanInv, Legacy, AgentsAreOfTenants
<1> QED BY <1>3, <1>4, <1>5, <1>6 DEF Legacy

\* so does an agent that is given its tenant,
LEMMA MapAgentStaysLegacy ==
  ASSUME IInv, CleanInv, NEW agent, NEW tenant \in Tenants, MapAgent(agent, tenant)
  PROVE  Legacy(db', gone, relaxed)
<1> DEFINE mapped == [agent EXCEPT !.tenant_id = tenant]
<1>1. agent \in db["agents"]
  BY DEF MapAgent
<1>2. db'["agents"] = (db["agents"] \ {agent}) \cup {mapped}
  BY AgentsColumns DEF MapAgent, IInv, ShapeInv
<1>3. \A u \in Tables \ {"agents"} : db'[u] = db[u]
  BY DEF MapAgent, IInv, ShapeInv
<1>4. agent.id # NULL /\ Columns("agents") \subseteq DOMAIN agent
  BY <1>1, AgentsColumns DEF CleanInv, Legacy, RowsAreLegacy, IsLegacy
<1>5. /\ DOMAIN mapped = DOMAIN agent /\ mapped.id = agent.id /\ mapped.agent_id = agent.agent_id
      /\ mapped.tenant_id = tenant
  BY <1>4, AgentsColumns
<1> HIDE DEF mapped
<1>6. NamesAreUnique(db', gone)
  BY <1>1, <1>2, <1>5 DEF CleanInv, Legacy, NamesAreUnique
<1>7. ColumnsAreThere(db', relaxed)
  BY <1>3 DEF CleanInv, Legacy, ColumnsAreThere, WrittenOnce
<1>8. RowsAreLegacy(db')
  BY <1>1, <1>2, <1>3, <1>4, <1>5 DEF CleanInv, Legacy, RowsAreLegacy, IsLegacy, OwnedAlready
<1>9. AgentsAreOfTenants(db')
  BY <1>1, <1>2, <1>5 DEF CleanInv, Legacy, AgentsAreOfTenants
<1> QED BY <1>6, <1>7, <1>8, <1>9 DEF Legacy

\* and so do the deletion of an agent and what its keys cascade to.
LEMMA DeleteAgentStaysLegacy ==
  ASSUME IInv, CleanInv, NEW agent, DeleteAgent(agent)
  PROVE  Legacy(db', gone, relaxed)
<1>1. ASSUME NEW t \in Tables, NEW row \in db'[t]
      PROVE  \E r \in db[t] : /\ DOMAIN row = DOMAIN r /\ row.id = r.id
                              /\ t \notin {"retrieval_feedback", "rmk_episodes"} => row = r
  <2>1. PICK r \in db[t] : row = Left(agent, t, r)
    BY DeletionsLeave
  <2>2. "id" \in DOMAIN r
    BY DEF IInv, TypeOK, Columns
  <2> QED BY <2>1, <2>2 DEF Left, Cleared, Unlearned
<1>2. WrittenOnce \subseteq Tables /\ WrittenOnce \cap {"retrieval_feedback", "rmk_episodes"} = {}
  BY DEF WrittenOnce
<1>3. \A a \in db'["agents"] : a \in db["agents"]
  BY <1>1, AgentsColumns
<1>4. NamesAreUnique(db', gone) /\ AgentsAreOfTenants(db')
  BY <1>3 DEF CleanInv, Legacy, NamesAreUnique, AgentsAreOfTenants
<1>5. ColumnsAreThere(db', relaxed)
  BY <1>1, <1>2 DEF CleanInv, Legacy, ColumnsAreThere
<1>6. RowsAreLegacy(db')
  <2> SUFFICES ASSUME NEW t \in Tables, NEW row \in db'[t]
               PROVE  IsLegacy(t, row)
    BY DEF RowsAreLegacy
  <2> QED BY <1>1 DEF CleanInv, Legacy, RowsAreLegacy, IsLegacy
<1> QED BY <1>4, <1>5, <1>6 DEF Legacy

\* A scan reads the snapshot and its schema only.
LEMMA ScanReads ==
  ASSUME NEW view, NEW other, NEW t,
         view.db = other.db, view.gone = other.gone, view.relaxed = other.relaxed
  PROVE  Scan(view, t) = Scan(other, t)
BY DEF Scan, CheckSchemaRelationships, VerifySchemaContract

\* The first moment of it.
LEMMA CleanInit == Init => CleanInv
<1> SUFFICES ASSUME Init PROVE CleanInv
  OBVIOUS
<1>1. audit.phase = "idle" /\ audit.todo = {} /\ \A t \in Tables : db[t] = {} /\ audit.db[t] = {}
  BY DEF Init, Idle
<1>2. \A d, g, r : (\A t \in Tables : d[t] = {}) => Legacy(d, g, r)
  BY AgentsColumns DEF Legacy, NamesAreUnique, ColumnsAreThere, RowsAreLegacy, AgentsAreOfTenants, WrittenOnce
<1> QED BY <1>1, <1>2 DEF CleanInv, AllFound

\* And every step keeps it.
LEMMA CleanNext == IInv /\ CleanInv /\ [Next]_vars => CleanInv'
<1> SUFFICES ASSUME IInv, CleanInv, [Next]_vars PROVE CleanInv'
  OBVIOUS
<1>0. ASSUME UNCHANGED audit, Legacy(db', gone', relaxed')
      PROVE  CleanInv'
  <2>1. Legacy(db, gone, relaxed)'
    BY <1>0 DEF Legacy, NamesAreUnique, ColumnsAreThere, RowsAreLegacy, AgentsAreOfTenants
  <2>2. Legacy(audit.db, audit.gone, audit.relaxed)' /\ AllFound'
    BY <1>0 DEF CleanInv, AllFound, Legacy, NamesAreUnique, ColumnsAreThere, RowsAreLegacy, AgentsAreOfTenants,
                Scan, CheckSchemaRelationships, VerifySchemaContract
  <2> QED BY <2>1, <2>2 DEF CleanInv
<1>1. CASE Write
  <2>1. UNCHANGED <<audit, gone, relaxed>>
    BY <1>1 DEF Write, Insert, MapAgent, DeleteAgent, schema
  <2>2. Legacy(db', gone, relaxed)
    BY <1>1, InsertStaysLegacy, MapAgentStaysLegacy, DeleteAgentStaysLegacy DEF Write
  <2> QED BY <1>0, <2>1, <2>2
<1>2. CASE Drift
  <2>1. gone \subseteq gone' /\ relaxed \subseteq relaxed' /\ UNCHANGED <<db, audit>>
    BY <1>2 DEF Drift, schema
  <2> QED BY <1>0, <2>1, LegacyWeakens DEF CleanInv
<1>3. CASE UNCHANGED vars
  BY <1>0, <1>3 DEF CleanInv, vars
<1>4. CASE Begin
  <2>1. /\ audit'.phase = "scan" /\ audit'.db = db /\ audit'.gone = gone /\ audit'.relaxed = relaxed
        /\ audit'.todo = {t \in Tables : Worth(t)}
    BY <1>4 DEF Begin
  <2>2. UNCHANGED <<db, gone, relaxed>>
    BY <1>4 DEF Begin, schema
  <2>3. \A t \in Tables \ audit'.todo : audit'.db[t] = {}
    BY <2>1 DEF Worth
  <2>4. AllFound'
    BY <2>1, <2>3 DEF AllFound
  <2>5. Legacy(db, gone, relaxed)' /\ Legacy(audit.db, audit.gone, audit.relaxed)'
    BY <2>1, <2>2 DEF CleanInv, Legacy, NamesAreUnique, ColumnsAreThere, RowsAreLegacy, AgentsAreOfTenants
  <2> QED BY <2>4, <2>5 DEF CleanInv
<1>5. ASSUME audit'.db = audit.db, audit'.gone = audit.gone, audit'.relaxed = audit.relaxed,
             UNCHANGED <<db, gone, relaxed>>
      PROVE  /\ Legacy(db, gone, relaxed)' /\ Legacy(audit.db, audit.gone, audit.relaxed)'
             /\ \A t : Scan(audit', t) = Scan(audit, t)
  <2>1. Legacy(db, gone, relaxed)' /\ Legacy(audit.db, audit.gone, audit.relaxed)'
    BY <1>5 DEF CleanInv, Legacy, NamesAreUnique, ColumnsAreThere, RowsAreLegacy, AgentsAreOfTenants
  <2> QED BY <1>5, <2>1, ScanReads
<1>6. CASE ScanNext
  <2>1. PICK t \in audit.todo :
           audit' = [audit EXCEPT !.todo = @ \ {t}, !.findings = @ \cup Scan(View, t)]
    BY <1>6 DEF ScanNext
  <2>2. /\ audit'.phase = audit.phase /\ audit'.db = audit.db /\ audit'.gone = audit.gone
        /\ audit'.relaxed = audit.relaxed
        /\ audit'.todo = audit.todo \ {t} /\ audit'.findings = audit.findings \cup Scan(audit, t)
    BY <2>1 DEF IInv, ShapeInv, Idle, View
  <2>3. audit.phase = "scan" /\ UNCHANGED <<db, gone, relaxed>>
    BY <1>6 DEF ScanNext, schema
  <2>4. \A u \in Tables \ audit'.todo : audit'.db[u] = {} \/ Scan(audit', u) \subseteq audit'.findings
    <3>1. \A u \in Tables \ audit'.todo : u = t \/ audit.db[u] = {} \/ Scan(audit, u) \subseteq audit.findings
      BY <2>2, <2>3 DEF CleanInv, AllFound
    <3> QED BY <1>5, <2>2, <2>3, <3>1
  <2>5. AllFound'
    BY <2>2, <2>3, <2>4 DEF AllFound, Scan, CheckSchemaRelationships, VerifySchemaContract
  <2> QED BY <1>5, <2>2, <2>3, <2>5 DEF CleanInv
<1>7. CASE Report
  <2>1. /\ audit'.phase = "done" /\ audit.phase = "scan" /\ audit'.db = audit.db /\ audit'.gone = audit.gone
        /\ audit'.relaxed = audit.relaxed /\ audit.todo = {}
        /\ audit'.todo = audit.todo /\ audit'.findings = audit.findings
    BY <1>7 DEF Report, IInv, ShapeInv, Idle
  <2>2. UNCHANGED <<db, gone, relaxed>>
    BY <1>7 DEF Report, schema
  <2>3. \A u \in Tables \ audit'.todo : audit'.db[u] = {} \/ Scan(audit', u) \subseteq audit'.findings
    BY <1>5, <2>1, <2>2 DEF CleanInv, AllFound
  <2>4. AllFound'
    BY <2>1, <2>3 DEF AllFound, Scan, CheckSchemaRelationships, VerifySchemaContract
  <2> QED BY <1>5, <2>1, <2>2, <2>4 DEF CleanInv
<1> QED BY <1>1, <1>2, <1>3, <1>4, <1>6, <1>7 DEF Next

-----------------------------------------------------------------------------
(***************************************************************************)
(* What a report says of the rows.                                         *)
(***************************************************************************)

\* The codes a tranche asks to be at zero, the one some lists lack, and the one
\* that is never found behind gate 2.
AtZero(t) == Registry[t].codes \cup {"CROSS_TENANT_PARENT_CHILD", "ORPHANED_MEMORY_REFERENCE"}

\* Both gates were passed, and none of these codes was found.
Ready(view, t) ==
  /\ CheckSchemaRelationships(view, t) /\ VerifySchemaContract(view, t)
  /\ ScanRows(view.db, t) \cap AtZero(t) = {}

\* A row whose first path reports none of some codes.
LEMMA CanonicalCodesReport ==
  ASSUME NEW entry, NEW row, NEW c, NEW zero, CanonicalCodes(entry, row, c) \cap zero = {}
  PROVE  /\ "NULL_OWNERSHIP_LINK" \in zero => ~ c.null
         /\ "LEGACY_UNMAPPED" \in zero => c.tenant # NULL
         /\ OrphanReason(entry.paths[1]) \in zero => ~ c.orphan
<1> DEFINE ambiguous == entry.paths[1].kind = "Session" /\ ~ c.null /\ row.agent_id = NULL
           malformed == entry.paths[1].kind = "AgentText" /\ row[entry.paths[1].column] = ""
           unresolvable == ~ c.null /\ ~ c.orphan /\ ~ ambiguous /\ c.agent = NULL /\ c.tenant = NULL
           legacy == c.tenant = NULL
           found == {<<"NULL_OWNERSHIP_LINK", c.null>>, <<OrphanReason(entry.paths[1]), c.orphan>>,
                     <<"AMBIGUOUS_LEGACY_IDENTIFIER", ambiguous>>, <<"MALFORMED_LEGACY_IDENTIFIER", malformed>>,
                     <<"UNMAPPED_AGENT", Unmapped(entry, c)>>, <<"UNRESOLVABLE_OWNER", unresolvable>>,
                     <<"LEGACY_UNMAPPED", legacy>>}
<1>1. CanonicalCodes(entry, row, c) = {p[1] : p \in {p \in found : p[2]}}
  BY DEF CanonicalCodes
<1>2. ASSUME NEW code, NEW holds, <<code, holds>> \in found, holds
      PROVE  code \notin zero
  <2>1. <<code, holds>>[1] = code /\ <<code, holds>>[2]
    BY <1>2
  <2> HIDE DEF found
  <2> QED BY <1>1, <1>2, <2>1
<1>3. "NULL_OWNERSHIP_LINK" \in zero => ~ c.null
  <2>1. <<"NULL_OWNERSHIP_LINK", c.null>> \in found
    OBVIOUS
  <2> HIDE DEF found
  <2> QED BY <1>2, <2>1
<1>4. OrphanReason(entry.paths[1]) \in zero => ~ c.orphan
  <2>1. <<OrphanReason(entry.paths[1]), c.orphan>> \in found
    OBVIOUS
  <2> HIDE DEF found
  <2> QED BY <1>2, <2>1
<1>5. "LEGACY_UNMAPPED" \in zero => ~ legacy
  <2>1. <<"LEGACY_UNMAPPED", legacy>> \in found
    OBVIOUS
  <2> HIDE DEF legacy, found
  <2> QED BY <1>2, <2>1
<1> QED BY <1>3, <1>4, <1>5

\* The same of another path.
LEMMA SecondaryCodesReport ==
  ASSUME NEW path, NEW c, NEW s, NEW zero, SecondaryCodes(path, c, s) \cap zero = {}
  PROVE  /\ OrphanReason(path) \in zero => ~ s.orphan
         /\ "CROSS_TENANT_PARENT_CHILD" \in zero /\ c.tenant # NULL /\ s.tenant # NULL => s.tenant = c.tenant
<1> DEFINE both == c.tenant # NULL /\ s.tenant # NULL
           cross == both /\ c.tenant # s.tenant
           disagree == both /\ c.tenant = s.tenant /\ s.agent # NULL /\ c.agent # s.agent
           mismatch == ~ s.orphan /\ s.agent # NULL /\ s.tenant = NULL
           found == {<<OrphanReason(path), s.orphan>>, <<"CROSS_TENANT_PARENT_CHILD", cross>>,
                     <<"OWNERSHIP_PATH_DISAGREEMENT", disagree>>, <<"FUTURE_COMPOSITE_FK_MISMATCH", mismatch>>}
<1>1. SecondaryCodes(path, c, s) = {p[1] : p \in {p \in found : p[2]}}
  BY DEF SecondaryCodes
<1>2. ASSUME NEW code, NEW holds, <<code, holds>> \in found, holds
      PROVE  code \notin zero
  <2>1. <<code, holds>>[1] = code /\ <<code, holds>>[2]
    BY <1>2
  <2> HIDE DEF found
  <2> QED BY <1>1, <1>2, <2>1
<1>3. OrphanReason(path) \in zero => ~ s.orphan
  <2>1. <<OrphanReason(path), s.orphan>> \in found
    OBVIOUS
  <2> HIDE DEF found
  <2> QED BY <1>2, <2>1
<1>4. "CROSS_TENANT_PARENT_CHILD" \in zero => ~ cross
  <2>1. <<"CROSS_TENANT_PARENT_CHILD", cross>> \in found
    OBVIOUS
  <2> HIDE DEF cross, found
  <2> QED BY <1>2, <2>1
<1> QED BY <1>3, <1>4

\* So it is of every row of a table that is ready.
LEMMA RowsReport ==
  ASSUME NEW view, NEW t, Ready(view, t), NEW row \in view.db[t],
         NEW c \in PathSql(view.db, Registry[t].paths[1], row)
  PROVE  /\ "NULL_OWNERSHIP_LINK" \in AtZero(t) => ~ c.null
         /\ "LEGACY_UNMAPPED" \in AtZero(t) => c.tenant # NULL
         /\ OrphanReason(Registry[t].paths[1]) \in AtZero(t) => ~ c.orphan
         /\ \A i \in 2 .. Len(Registry[t].paths) : \A s \in PathSql(view.db, Registry[t].paths[i], row) :
              /\ OrphanReason(Registry[t].paths[i]) \in AtZero(t) => ~ s.orphan
              /\ c.tenant # NULL /\ s.tenant # NULL => s.tenant = c.tenant
<1> DEFINE entry == Registry[t]
           d == view.db
           Along(i, x, r) == UNION {SecondaryCodes(entry.paths[i], x, s) : s \in PathSql(d, entry.paths[i], r)}
           Others(x, r) == UNION {Along(i, x, r) : i \in 2 .. Len(entry.paths)}
           Codes(r) == UNION {CanonicalCodes(entry, r, x) \cup Others(x, r) : x \in PathSql(d, entry.paths[1], r)}
<1>1. ScanRows(d, t) \cap AtZero(t) = {}
  BY DEF Ready
<1>2. ScanRows(d, t) = UNION {Codes(r) : r \in d[t]}
  BY DEF ScanRows
<1>3. Codes(row) \cap AtZero(t) = {}
  <2> HIDE DEF Codes
  <2> QED BY <1>1, <1>2
<1>4. (CanonicalCodes(entry, row, c) \cup Others(c, row)) \cap AtZero(t) = {}
  <2> HIDE DEF Others
  <2> QED BY <1>3
<1>5. /\ "NULL_OWNERSHIP_LINK" \in AtZero(t) => ~ c.null
      /\ "LEGACY_UNMAPPED" \in AtZero(t) => c.tenant # NULL
      /\ OrphanReason(entry.paths[1]) \in AtZero(t) => ~ c.orphan
  <2>1. CanonicalCodes(entry, row, c) \cap AtZero(t) = {}
    <3> HIDE DEF Others
    <3> QED BY <1>4
  <2> HIDE DEF entry
  <2> QED BY <2>1, CanonicalCodesReport
<1>6. ASSUME NEW i \in 2 .. Len(entry.paths), NEW s \in PathSql(d, entry.paths[i], row)
      PROVE  /\ OrphanReason(entry.paths[i]) \in AtZero(t) => ~ s.orphan
             /\ c.tenant # NULL /\ s.tenant # NULL => s.tenant = c.tenant
  <2>1. Along(i, c, row) \cap AtZero(t) = {}
    <3> HIDE DEF Along
    <3> QED BY <1>4
  <2>2. SecondaryCodes(entry.paths[i], c, s) \cap AtZero(t) = {}
    BY <2>1
  <2>3. "CROSS_TENANT_PARENT_CHILD" \in AtZero(t)
    BY DEF AtZero
  <2> QED BY <2>2, <2>3, SecondaryCodesReport
<1> QED BY <1>5, <1>6

-----------------------------------------------------------------------------
(***************************************************************************)
(* Where the backfill takes a tenant from, the audit has looked.           *)
(***************************************************************************)

\* A source of a row's tenant lies at the end of the i-th path of its table.
SourceOf(t, source, i) ==
  /\ i \in DOMAIN Registry[t].paths /\ Registry[t].paths[i].column = source.column
  /\ \/ source.table = "agents" /\ source.column = "agent_id" /\ Registry[t].paths[i].kind = "AgentText"
     \/ /\ Registry[t].paths[i].kind \in DOMAIN Through
        /\ Through[Registry[t].paths[i].kind] = source.table

\* Tables whose row names the agent first, and all that follow such a path.
AgentFirst == Plain \cup {"memories", "memory_conflicts", "retrieval_feedback", "rmk_episodes"}
Followers == AgentFirst \cup {"memory_versions", "memory_entity_links", "co_access_edges"}

\* The first path of a table is a source, and every source has a path, which
\* holds a value where the source must be there.
SourcesFact(t) ==
  /\ Registry[t].class # "SYSTEM_GLOBAL" /\ t \in Tables /\ t \notin OwnedAlready
  /\ DOMAIN Registry[t].paths = 1 .. Len(Registry[t].paths)
  /\ \E source \in Authority(t) : SourceOf(t, source, 1)
  /\ \A source \in Authority(t) : \E i \in DOMAIN Registry[t].paths :
       /\ SourceOf(t, source, i)
       /\ source.optional \/ i = 1 \/ (~ Registry[t].paths[i].nullable /\ t \in WrittenOnce)
  /\ t \in AgentFirst => From("agents", "agent_id") \in Authority(t) /\ SourceOf(t, From("agents", "agent_id"), 1)

\* All of them are so.
LEMMA SourcesHavePaths ==
  ASSUME NEW t \in Followers
  PROVE  SourcesFact(t)
<1> DEFINE e == Registry[t]
           agent == From("agents", "agent_id")
<1>0. /\ agent.table = "agents" /\ agent.column = "agent_id" /\ agent.optional = FALSE
      /\ \A table, column : /\ From(table, column).table = table /\ From(table, column).column = column
                            /\ From(table, column).optional = FALSE
                            /\ IfNamed(table, column).table = table /\ IfNamed(table, column).column = column
                            /\ IfNamed(table, column).optional = TRUE
  BY DEF From, IfNamed
<1>a. DOMAIN Through = {"Memory", "Entity", "ArchivalBatch", "Policy"}
  BY DEF Through
<1>b. /\ Through["Memory"] = "memories" /\ Through["Entity"] = "entities"
      /\ Through["ArchivalBatch"] = "archival_batches" /\ Through["Policy"] = "rmk_policies"
  BY DEF Through
<1> HIDE DEF agent
<1>1. CASE t \in Plain
  <2>1. t \notin DOMAIN BackfillAuthority
    BY <1>1 DEF BackfillAuthority, Plain
  <2>2. Authority(t) = {agent}
    BY <2>1 DEF Authority, agent
  <2>4. /\ e.class # "SYSTEM_GLOBAL" /\ DOMAIN e.paths = {1} /\ Len(e.paths) = 1
        /\ e.paths[1].kind = "AgentText" /\ e.paths[1].column = "agent_id"
    <3>1. \E contract, tranche : e = AgentChild(contract, tranche)
      BY <1>1 DEF Plain, Registry, AmpControllerState, ArchivalBatches, CognitiveHypervisorTimeline, Entities,
                  ExtractionJobs, MemoryGraph, MemoryRetrievalLogs, RmkPolicies, Sessions
    <3> QED BY <3>1 DEF AgentChild, Entry, AgentText
  <2>5. t \in Tables /\ t \notin OwnedAlready
    BY <1>1 DEF Plain, Tables, Registry, OwnedAlready
  <2> HIDE DEF e
  <2>6. SourceOf(t, agent, 1)
    BY <1>0, <2>4 DEF SourceOf, e
  <2> QED BY <2>2, <2>4, <2>5, <2>6 DEF SourcesFact, e, agent
<1>2. CASE t = "memories"
  <2>1. Authority(t) = {agent, IfNamed("archival_batches", "archival_batch_id")}
    BY <1>2 DEF Authority, BackfillAuthority, agent
  <2>2. e = Memories /\ t \in Tables /\ t \notin OwnedAlready
    BY <1>2 DEF Registry, Tables, OwnedAlready
  <2>3. /\ e.class # "SYSTEM_GLOBAL" /\ DOMAIN e.paths = {1, 2} /\ Len(e.paths) = 2
        /\ e.paths[1].kind = "AgentText" /\ e.paths[1].column = "agent_id"
        /\ e.paths[2].kind = "ArchivalBatch" /\ e.paths[2].column = "archival_batch_id"
    BY <2>2 DEF Memories, Entry, AgentText, ArchivalBatchPath
  <2> HIDE DEF e
  <2>4. SourceOf(t, agent, 1) /\ SourceOf(t, IfNamed("archival_batches", "archival_batch_id"), 2)
    BY <1>0, <1>a, <1>b, <2>3 DEF SourceOf, e
  <2> QED BY <1>0, <2>1, <2>2, <2>3, <2>4 DEF SourcesFact, e, agent
<1>3. CASE t = "rmk_episodes"
  <2>1. Authority(t) = {agent, IfNamed("rmk_policies", "policy_id")}
    BY <1>3 DEF Authority, BackfillAuthority, agent
  <2>2. e = RmkEpisodes /\ t \in Tables /\ t \notin OwnedAlready
    BY <1>3 DEF Registry, Tables, OwnedAlready
  <2>3. /\ e.class # "SYSTEM_GLOBAL" /\ DOMAIN e.paths = {1, 2} /\ Len(e.paths) = 2
        /\ e.paths[1].kind = "AgentText" /\ e.paths[1].column = "agent_id"
        /\ e.paths[2].kind = "Policy" /\ e.paths[2].column = "policy_id"
    BY <2>2 DEF RmkEpisodes, Entry, AgentText, PolicyPath
  <2> HIDE DEF e
  <2>4. SourceOf(t, agent, 1) /\ SourceOf(t, IfNamed("rmk_policies", "policy_id"), 2)
    BY <1>0, <1>a, <1>b, <2>3 DEF SourceOf, e
  <2> QED BY <1>0, <2>1, <2>2, <2>3, <2>4 DEF SourcesFact, e, agent
<1>4. CASE t = "retrieval_feedback"
  <2>1. Authority(t) = {agent, IfNamed("memories", "memory_id")}
    BY <1>4 DEF Authority, BackfillAuthority, agent
  <2>2. e = RetrievalFeedback /\ t \in Tables /\ t \notin OwnedAlready
    BY <1>4 DEF Registry, Tables, OwnedAlready
  <2>3. /\ e.class # "SYSTEM_GLOBAL" /\ DOMAIN e.paths = {1, 2} /\ Len(e.paths) = 2
        /\ e.paths[1].kind = "AgentText" /\ e.paths[1].column = "agent_id"
        /\ e.paths[2].kind = "Memory" /\ e.paths[2].column = "memory_id"
    BY <2>2 DEF RetrievalFeedback, Entry, AgentText, MemoryPath
  <2> HIDE DEF e
  <2>4. SourceOf(t, agent, 1) /\ SourceOf(t, IfNamed("memories", "memory_id"), 2)
    BY <1>0, <1>a, <1>b, <2>3 DEF SourceOf, e
  <2> QED BY <1>0, <2>1, <2>2, <2>3, <2>4 DEF SourcesFact, e, agent
<1>5. CASE t = "memory_conflicts"
  <2>1. Authority(t) = {agent, IfNamed("memories", "memory_a"), IfNamed("memories", "memory_b")}
    BY <1>5 DEF Authority, BackfillAuthority, agent
  <2>2. e = MemoryConflicts /\ t \in Tables /\ t \notin OwnedAlready
    BY <1>5 DEF Registry, Tables, OwnedAlready
  <2>3. /\ e.class # "SYSTEM_GLOBAL" /\ DOMAIN e.paths = {1, 2, 3} /\ Len(e.paths) = 3
        /\ e.paths[1].kind = "AgentText" /\ e.paths[1].column = "agent_id"
        /\ e.paths[2].kind = "Memory" /\ e.paths[2].column = "memory_a"
        /\ e.paths[3].kind = "Memory" /\ e.paths[3].column = "memory_b"
    BY <2>2 DEF MemoryConflicts, Entry, AgentText, MemoryPath
  <2> HIDE DEF e
  <2>4. /\ SourceOf(t, agent, 1) /\ SourceOf(t, IfNamed("memories", "memory_a"), 2)
        /\ SourceOf(t, IfNamed("memories", "memory_b"), 3)
    BY <1>0, <1>a, <1>b, <2>3 DEF SourceOf, e
  <2> QED BY <1>0, <2>1, <2>2, <2>3, <2>4 DEF SourcesFact, e, agent
<1>6. CASE t = "memory_versions"
  <2>1. Authority(t) = {From("memories", "memory_id")}
    BY <1>6 DEF Authority, BackfillAuthority
  <2>2. e = MemoryVersions /\ t \in Tables /\ t \notin OwnedAlready \cup AgentFirst
    BY <1>6 DEF Registry, Tables, OwnedAlready, AgentFirst, Plain
  <2>3. /\ e.class # "SYSTEM_GLOBAL" /\ DOMAIN e.paths = {1, 2} /\ Len(e.paths) = 2
        /\ e.paths[1].kind = "Memory" /\ e.paths[1].column = "memory_id"
    BY <2>2 DEF MemoryVersions, Entry, AgentText, MemoryPath
  <2> HIDE DEF e
  <2>4. SourceOf(t, From("memories", "memory_id"), 1)
    BY <1>0, <1>a, <1>b, <2>3 DEF SourceOf, e
  <2> QED BY <1>0, <2>1, <2>2, <2>3, <2>4 DEF SourcesFact, e
<1>7. CASE t = "co_access_edges"
  <2>1. Authority(t) = {From("memories", "memory_a"), From("memories", "memory_b")}
    BY <1>7 DEF Authority, BackfillAuthority
  <2>2. e = CoAccessEdges /\ t \in Tables /\ t \notin OwnedAlready \cup AgentFirst /\ t \in WrittenOnce
    BY <1>7 DEF Registry, Tables, OwnedAlready, AgentFirst, Plain, WrittenOnce
  <2>3. /\ e.class # "SYSTEM_GLOBAL" /\ DOMAIN e.paths = {1, 2} /\ Len(e.paths) = 2
        /\ e.paths[1].kind = "Memory" /\ e.paths[1].column = "memory_a"
        /\ e.paths[2].kind = "Memory" /\ e.paths[2].column = "memory_b" /\ e.paths[2].nullable = FALSE
    BY <2>2 DEF CoAccessEdges, Entry, MemoryPath
  <2> HIDE DEF e
  <2>4. SourceOf(t, From("memories", "memory_a"), 1) /\ SourceOf(t, From("memories", "memory_b"), 2)
    BY <1>0, <1>a, <1>b, <2>3 DEF SourceOf, e
  <2> QED BY <1>0, <2>1, <2>2, <2>3, <2>4 DEF SourcesFact, e
<1>8. CASE t = "memory_entity_links"
  <2>1. Authority(t) = {From("memories", "memory_id"), From("entities", "entity_id"), agent}
    BY <1>8 DEF Authority, BackfillAuthority, agent
  <2>2. e = MemoryEntityLinks /\ t \in Tables /\ t \notin OwnedAlready \cup AgentFirst /\ t \in WrittenOnce
    BY <1>8 DEF Registry, Tables, OwnedAlready, AgentFirst, Plain, WrittenOnce
  <2>3. /\ e.class # "SYSTEM_GLOBAL" /\ DOMAIN e.paths = {1, 2, 3} /\ Len(e.paths) = 3
        /\ e.paths[1].kind = "Memory" /\ e.paths[1].column = "memory_id"
        /\ e.paths[2].kind = "AgentText" /\ e.paths[2].column = "agent_id" /\ e.paths[2].nullable = FALSE
        /\ e.paths[3].kind = "Entity" /\ e.paths[3].column = "entity_id" /\ e.paths[3].nullable = FALSE
    BY <2>2 DEF MemoryEntityLinks, Entry, AgentText, EntityPath, MemoryPath
  <2> HIDE DEF e
  <2>4. /\ SourceOf(t, From("memories", "memory_id"), 1) /\ SourceOf(t, agent, 2)
        /\ SourceOf(t, From("entities", "entity_id"), 3)
    BY <1>0, <1>a, <1>b, <2>3 DEF SourceOf, e
  <2> QED BY <1>0, <2>1, <2>2, <2>3, <2>4 DEF SourcesFact, e
<1> QED BY <1>1, <1>2, <1>3, <1>4, <1>5, <1>6, <1>7, <1>8 DEF Followers, AgentFirst

\* The tables the backfill fills from an owner that must be there, and those of
\* them whose rows name an agent.
Children == Followers \cup {"working_memory"}
OfAnAgent == AgentFirst \cup {"working_memory"}

\* The tranche of each.
LEMMA TranchesAre ==
  /\ \A t \in {"agents", "archival_batches", "audit_logs", "entities", "memory_graph", "rmk_policies"} :
       Registry[t].tranche = 1
  /\ \A t \in {"sessions", "working_memory"} : Registry[t].tranche = 2
  /\ \A t \in {"memories", "extraction_jobs", "memory_retrieval_logs", "cognitive_hypervisor_timeline"} :
       Registry[t].tranche = 3
  /\ \A t \in {"memory_versions", "memory_entity_links", "co_access_edges", "memory_conflicts",
               "retrieval_feedback"} : Registry[t].tranche = 4
  /\ \A t \in {"amp_controller_state", "rmk_episodes"} : Registry[t].tranche = 5
<1> USE DEF Registry, AgentChild, Entry, T1, T2, T3, T4, T5
<1>1. /\ Registry["agents"].tranche = 1 /\ Registry["archival_batches"].tranche = 1
      /\ Registry["audit_logs"].tranche = 1 /\ Registry["entities"].tranche = 1
      /\ Registry["memory_graph"].tranche = 1 /\ Registry["rmk_policies"].tranche = 1
  BY DEF Agents, ArchivalBatches, AuditLogs, Entities, MemoryGraph, RmkPolicies
<1>2. Registry["sessions"].tranche = 2 /\ Registry["working_memory"].tranche = 2
  BY DEF Sessions, WorkingMemory
<1>3. /\ Registry["memories"].tranche = 3 /\ Registry["extraction_jobs"].tranche = 3
      /\ Registry["memory_retrieval_logs"].tranche = 3 /\ Registry["cognitive_hypervisor_timeline"].tranche = 3
  BY DEF Memories, ExtractionJobs, MemoryRetrievalLogs, CognitiveHypervisorTimeline
<1>4. /\ Registry["memory_versions"].tranche = 4 /\ Registry["memory_entity_links"].tranche = 4
      /\ Registry["co_access_edges"].tranche = 4 /\ Registry["memory_conflicts"].tranche = 4
      /\ Registry["retrieval_feedback"].tranche = 4
  BY DEF MemoryVersions, MemoryEntityLinks, CoAccessEdges, MemoryConflicts, RetrievalFeedback
<1>5. Registry["amp_controller_state"].tranche = 5 /\ Registry["rmk_episodes"].tranche = 5
  BY DEF AmpControllerState, RmkEpisodes
<1> HIDE DEF Registry, AgentChild, Entry, T1, T2, T3, T4, T5
<1> QED BY <1>1, <1>2, <1>3, <1>4, <1>5

\* A parent is never of a later tranche than its children.
LEMMA ParentsComeFirst ==
  ASSUME NEW t \in Children, NEW source \in Authority(t)
  PROVE  Registry[source.table].tranche <= Registry[t].tranche
<1>1. CASE t \in Plain
  <2>1. source.table = "agents"
    BY <1>1 DEF Authority, BackfillAuthority, Plain, From
  <2> QED BY <1>1, <2>1, TranchesAre DEF Plain
<1>2. CASE t = "working_memory"
  <2>1. source.table = "sessions"
    BY <1>2 DEF Authority, BackfillAuthority, From
  <2> QED BY <1>2, <2>1, TranchesAre
<1>3. CASE t = "memories"
  <2>1. source.table \in {"agents", "archival_batches"}
    BY <1>3 DEF Authority, BackfillAuthority, From, IfNamed
  <2> QED BY <1>3, <2>1, TranchesAre
<1>4. CASE t = "rmk_episodes"
  <2>1. source.table \in {"agents", "rmk_policies"}
    BY <1>4 DEF Authority, BackfillAuthority, From, IfNamed
  <2> QED BY <1>4, <2>1, TranchesAre
<1>5. CASE t \in {"memory_versions", "memory_entity_links", "co_access_edges", "memory_conflicts",
                  "retrieval_feedback"}
  <2>1. source.table \in {"agents", "entities", "memories"}
    BY <1>5 DEF Authority, BackfillAuthority, From, IfNamed
  <2> QED BY <1>5, <2>1, TranchesAre
<1> QED BY <1>1, <1>2, <1>3, <1>4, <1>5 DEF Children, Followers, AgentFirst

\* What the list of a table requires: that every row has an owner with a tenant,
\* and what each of its paths reports for a parent that is not there.
Required(t) ==
  /\ {"NULL_OWNERSHIP_LINK", "LEGACY_UNMAPPED"} \subseteq AtZero(t)
  /\ 1 \in DOMAIN Registry[t].paths /\ DOMAIN Registry[t].paths = 1 .. Len(Registry[t].paths)
  /\ \A i \in DOMAIN Registry[t].paths : OrphanReason(Registry[t].paths[i]) \in AtZero(t)

\* All of them do, and none requires a warning.
LEMMA ListsRequire ==
  ASSUME NEW t \in Children
  PROVE  /\ t \in Tables /\ t \notin OwnedAlready /\ Registry[t].class # "SYSTEM_GLOBAL"
         /\ Registry[t].tranche \in 1 .. 5 /\ "MALFORMED_LEGACY_IDENTIFIER" \notin AtZero(t)
         /\ Required(t)
<1> DEFINE e == Registry[t]
<1>1. t \in Tables /\ t \notin OwnedAlready
  BY DEF Children, Followers, AgentFirst, Plain, Tables, Registry, OwnedAlready
<1>2. e.tranche \in 1 .. 5
  BY TranchesAre DEF Children, Followers, AgentFirst, Plain
<1>3. ASSUME NEW path, path.kind \in {"AgentText", "Memory", "Entity", "ArchivalBatch", "Policy", "Session"}
      PROVE  OrphanReason(path) \in CASE path.kind = "AgentText" -> {"ORPHANED_AGENT_REFERENCE"}
                                      [] path.kind = "Memory" -> {"ORPHANED_MEMORY_REFERENCE"}
                                      [] path.kind = "Session" -> {"ORPHANED_SESSION_REFERENCE"}
                                      [] OTHER -> {"UNRESOLVABLE_OWNER"}
  BY <1>3 DEF OrphanReason
<1>4. ASSUME OwnershipCodes \subseteq e.codes, 1 \in DOMAIN e.paths, DOMAIN e.paths = 1 .. Len(e.paths),
             \A i \in DOMAIN e.paths : e.paths[i].kind \in {"AgentText", "Memory", "Entity", "ArchivalBatch", "Policy"}
      PROVE  Required(t)
  <2> HIDE DEF e
  <2>1. OwnershipCodes \subseteq AtZero(t) /\ "ORPHANED_MEMORY_REFERENCE" \in AtZero(t)
    BY <1>4 DEF AtZero, e
  <2>2. \A i \in DOMAIN e.paths : OrphanReason(e.paths[i]) \in AtZero(t)
    BY <1>3, <1>4, <2>1 DEF OwnershipCodes
  <2> QED BY <1>4, <2>1, <2>2 DEF Required, OwnershipCodes, e
<1>5. CASE t \in Plain
  <2>1. \E contract, tranche : e = AgentChild(contract, tranche)
    BY <1>5 DEF Plain, Registry, AmpControllerState, ArchivalBatches, CognitiveHypervisorTimeline, Entities,
                ExtractionJobs, MemoryGraph, MemoryRetrievalLogs, RmkPolicies, Sessions
  <2>2. /\ e.class # "SYSTEM_GLOBAL" /\ e.codes = OwnershipCodes
        /\ DOMAIN e.paths = {1} /\ Len(e.paths) = 1 /\ e.paths[1].kind = "AgentText"
    BY <2>1 DEF AgentChild, Entry, AgentText
  <2> HIDE DEF e
  <2> QED BY <1>1, <1>2, <1>4, <2>2 DEF AtZero, OwnershipCodes, e
<1>6. CASE t \in {"memories", "memory_conflicts", "retrieval_feedback", "rmk_episodes", "memory_versions",
                  "memory_entity_links"}
  <2>1. e \in {Memories, MemoryConflicts, RetrievalFeedback, RmkEpisodes, MemoryVersions, MemoryEntityLinks}
    BY <1>6 DEF Registry
  <2> HIDE DEF e
  <2>2. /\ e.class # "SYSTEM_GLOBAL" /\ 1 \in DOMAIN e.paths /\ DOMAIN e.paths = 1 .. Len(e.paths)
        /\ \A i \in DOMAIN e.paths : e.paths[i].kind \in {"AgentText", "Memory", "Entity", "ArchivalBatch", "Policy"}
    <3> USE DEF Entry, AgentText, MemoryPath, EntityPath, ArchivalBatchPath, PolicyPath
    <3>1. CASE e = Memories
      BY <3>1 DEF Memories
    <3>2. CASE e = MemoryConflicts
      BY <3>2 DEF MemoryConflicts
    <3>3. CASE e = RetrievalFeedback
      BY <3>3 DEF RetrievalFeedback
    <3>4. CASE e = RmkEpisodes
      BY <3>4 DEF RmkEpisodes
    <3>5. CASE e = MemoryVersions
      BY <3>5 DEF MemoryVersions
    <3>6. CASE e = MemoryEntityLinks
      BY <3>6 DEF MemoryEntityLinks
    <3> QED BY <2>1, <3>1, <3>2, <3>3, <3>4, <3>5, <3>6
  <2>3. e.codes = OwnershipCodes \/ e.codes = MemoriesCodes \/ e.codes = LineageCodes
    <3> USE DEF Entry
    <3>1. Memories.codes = MemoriesCodes
      BY DEF Memories
    <3>2. MemoryConflicts.codes = OwnershipCodes
      BY DEF MemoryConflicts
    <3>3. RetrievalFeedback.codes = OwnershipCodes
      BY DEF RetrievalFeedback
    <3>4. RmkEpisodes.codes = OwnershipCodes
      BY DEF RmkEpisodes
    <3>5. MemoryVersions.codes = LineageCodes /\ MemoryEntityLinks.codes = LineageCodes
      BY DEF MemoryVersions, MemoryEntityLinks
    <3> QED BY <2>1, <3>1, <3>2, <3>3, <3>4, <3>5
  <2>4. OwnershipCodes \subseteq e.codes /\ "MALFORMED_LEGACY_IDENTIFIER" \notin e.codes
    BY <2>3 DEF OwnershipCodes, MemoriesCodes, LineageCodes
  <2> QED BY <1>1, <1>2, <1>4, <2>2, <2>4 DEF AtZero, e
<1>7. CASE t = "co_access_edges"
  <2>1. e = CoAccessEdges
    BY <1>7 DEF Registry
  <2> HIDE DEF e
  <2>2. /\ e.class # "SYSTEM_GLOBAL" /\ e.codes = CoAccessCodes
        /\ 1 \in DOMAIN e.paths /\ DOMAIN e.paths = 1 .. Len(e.paths)
        /\ \A i \in DOMAIN e.paths : e.paths[i].kind = "Memory"
    BY <2>1 DEF CoAccessEdges, Entry, MemoryPath
  <2>3. /\ {"NULL_OWNERSHIP_LINK", "LEGACY_UNMAPPED", "ORPHANED_MEMORY_REFERENCE"} \subseteq AtZero(t)
        /\ "MALFORMED_LEGACY_IDENTIFIER" \notin AtZero(t)
    BY <2>2 DEF AtZero, CoAccessCodes, LineageCodes, OwnershipCodes, e
  <2>4. \A i \in DOMAIN e.paths : OrphanReason(e.paths[i]) \in AtZero(t)
    BY <1>3, <2>2, <2>3
  <2> QED BY <1>1, <1>2, <2>2, <2>3, <2>4 DEF Required, e
<1>8. CASE t = "working_memory"
  <2>1. e = WorkingMemory
    BY <1>8 DEF Registry
  <2> HIDE DEF e
  <2>2. /\ e.class # "SYSTEM_GLOBAL" /\ e.codes = SessionChildCodes
        /\ 1 \in DOMAIN e.paths /\ DOMAIN e.paths = 1 .. Len(e.paths)
        /\ \A i \in DOMAIN e.paths : e.paths[i].kind \in {"Session", "AgentText"}
    BY <2>1 DEF WorkingMemory, Entry, SessionPath, AgentText
  <2>3. /\ {"NULL_OWNERSHIP_LINK", "LEGACY_UNMAPPED", "ORPHANED_SESSION_REFERENCE", "ORPHANED_AGENT_REFERENCE"}
              \subseteq AtZero(t)
        /\ "MALFORMED_LEGACY_IDENTIFIER" \notin AtZero(t)
    BY <2>2 DEF AtZero, SessionChildCodes, OwnershipCodes, e
  <2>4. \A i \in DOMAIN e.paths : OrphanReason(e.paths[i]) \in AtZero(t)
    BY <1>3, <2>2, <2>3
  <2> QED BY <1>1, <1>2, <2>2, <2>3, <2>4 DEF Required, e
<1> QED BY <1>5, <1>6, <1>7, <1>8 DEF Children, Followers, AgentFirst

-----------------------------------------------------------------------------
(***************************************************************************)
(* The tenants of a database whose tables are ready.                       *)
(***************************************************************************)

\* The tables a tranche and the earlier ones own.
UpTo(k) == {t \in Children : Registry[t].tranche <= k}

\* A database of a legacy service, whose tables are ready up to some tranche
\* wherever they hold rows.
Sound(view, k) ==
  /\ \A t \in UpTo(k) \cup {"agents"} : view.db[t] # {} => Ready(view, t)
  /\ Legacy(view.db, view.gone, view.relaxed)

\* With a table, the parents its rows are owned through are among them.
LEMMA ParentsAreUpTo ==
  ASSUME NEW k \in Tranches, NEW t \in UpTo(k), NEW source \in Authority(t), source.table \in Children
  PROVE  source.table \in UpTo(k)
<1>1. Registry[source.table].tranche \in 1 .. 5 /\ Registry[t].tranche \in 1 .. 5
  BY ListsRequire DEF UpTo
<1>2. Registry[source.table].tranche <= Registry[t].tranche /\ Registry[t].tranche <= k
  BY ParentsComeFirst DEF UpTo
<1> QED BY <1>1, <1>2 DEF UpTo, Tranches, T1, TFinal

\* Every row of a table that is ready names its parents, and has one tenant
\* along all its paths.
LEMMA RowsReachOneTenant ==
  ASSUME NEW k, NEW view, Sound(view, k), NEW t \in UpTo(k), NEW row \in view.db[t],
         NEW c \in PathSql(view.db, Registry[t].paths[1], row)
  PROVE  /\ ~ c.null /\ ~ c.orphan /\ c.tenant # NULL
         /\ \A i \in 2 .. Len(Registry[t].paths) : \A s \in PathSql(view.db, Registry[t].paths[i], row) :
              ~ s.orphan /\ (s.tenant # NULL => s.tenant = c.tenant)
<1>1. Ready(view, t)
  BY DEF Sound
<1>2. Required(t)
  BY ListsRequire DEF UpTo
<1>3. /\ "NULL_OWNERSHIP_LINK" \in AtZero(t) => ~ c.null
      /\ "LEGACY_UNMAPPED" \in AtZero(t) => c.tenant # NULL
      /\ OrphanReason(Registry[t].paths[1]) \in AtZero(t) => ~ c.orphan
      /\ \A i \in 2 .. Len(Registry[t].paths) : \A s \in PathSql(view.db, Registry[t].paths[i], row) :
           /\ OrphanReason(Registry[t].paths[i]) \in AtZero(t) => ~ s.orphan
           /\ c.tenant # NULL /\ s.tenant # NULL => s.tenant = c.tenant
  BY <1>1, RowsReport
<1> QED BY <1>2, <1>3 DEF Required

\* There is an agent n of tenant v.
Names(d, n, v) == n # NULL /\ \E a \in d["agents"] : a.agent_id = n /\ a.tenant_id = v

\* The backfill gives each row of a table the tenant of the agent it names.
Settled(d, t) == \A row \in d[t] : \E v \in Tenants : Names(d, row.agent_id, v) /\ TenantOf(d)[t][row] = v

\* Agents keep their tenant.
LEMMA BackfillOfAgents ==
  ASSUME NEW d, NEW a \in d["agents"]
  PROVE  TenantOf(d)["agents"][a] = a.tenant_id
BY BackfillFollows, AgentsColumns DEF Given, OwnedAlready

\* Where the sources of a row agree on a tenant, the backfill gives that one.
LEMMA BackfillAgrees ==
  ASSUME NEW d, NEW t \in Tables, t \notin OwnedAlready, NEW row \in d[t], Agreed(d, TenantOf(d), t, row) # {}
  PROVE  TenantOf(d)[t][row] \in Agreed(d, TenantOf(d), t, row)
<1> DEFINE agreed == Agreed(d, TenantOf(d), t, row)
<1>1. TenantOf(d)[t][row] = CHOOSE tenant \in agreed : TRUE
  BY BackfillFollows DEF Given, OwnedAlready
<1>2. \E tenant \in agreed : TRUE
  OBVIOUS
<1> HIDE DEF agreed
<1> QED BY <1>1, <1>2 DEF agreed

\* Every agent has a tenant, and no other agent has its name.
LEMMA AgentsAreOwned ==
  ASSUME NEW k, NEW view, Sound(view, k), NEW a \in view.db["agents"]
  PROVE  /\ a.tenant_id \in Tenants
         /\ \A b \in view.db["agents"] : a.agent_id # NULL /\ a.agent_id = b.agent_id => a = b
<1> DEFINE entry == Registry["agents"]
           path == entry.paths[1]
           c == [null |-> a.tenant_id = NULL, orphan |-> FALSE, agent |-> NULL, tenant |-> a.tenant_id]
<1>1. path.kind = "TenantColumn" /\ path.column = "tenant_id"
  <2>1. entry = Agents
    BY DEF Registry
  <2> QED BY <2>1 DEF Agents, Entry, TenantColumn
<1>2. c \in PathSql(view.db, path, a)
  BY <1>1 DEF PathSql
<1>3. c.tenant # NULL
  <2>1. Ready(view, "agents")
    BY DEF Sound
  <2>2. "LEGACY_UNMAPPED" \in AtZero("agents")
    BY DEF AtZero, Registry, Agents, Entry
  <2> HIDE DEF c
  <2> QED BY <1>2, <2>1, <2>2, RowsReport
<1>4. a.tenant_id \in Tenants
  BY <1>3 DEF Sound, Legacy, AgentsAreOfTenants
<1>5. VerifySchemaContract(view, "agents")
  BY DEF Sound, Ready
<1>6. NamesAreUnique(view.db, view.gone)
  BY DEF Sound, Legacy
<1> QED BY <1>4, <1>5, <1>6, AgentsColumns DEF NamesAreUnique, VerifySchemaContract

\* A name has one tenant.
LEMMA NamesHaveOneTenant ==
  ASSUME NEW k, NEW view, Sound(view, k), NEW n, NEW v, Names(view.db, n, v)
  PROVE  v \in Tenants /\ \A a \in AgentsNamed(view.db, n) : a.tenant_id = v
<1>1. PICK b \in view.db["agents"] : b.agent_id = n /\ b.tenant_id = v
  BY DEF Names
<1>2. \A a \in AgentsNamed(view.db, n) : a \in view.db["agents"] /\ a.agent_id = n
  BY <1>1 DEF AgentsNamed, LeftJoin
<1> QED BY <1>1, <1>2, AgentsAreOwned DEF Names

\* What a path found is there, with the tenant the backfill gives it.
LEMMA SourcesAreFound ==
  ASSUME NEW k, NEW view, Sound(view, k), NEW t, NEW source, NEW i, SourceOf(t, source, i),
         source.table # "agents" => Settled(view.db, source.table),
         NEW row, row[source.column] # NULL,
         NEW s \in PathSql(view.db, Registry[t].paths[i], row), ~ s.orphan
  PROVE  /\ s.tenant \in Tenants
         /\ \E p \in Parents(view.db, source, row) : TenantOf(view.db)[source.table][p] = s.tenant
<1> DEFINE d == view.db
           path == Registry[t].paths[i]
           root == row[path.column]
<1>0. ASSUME NEW n, NEW w, Names(d, n, w), NEW b \in AgentsNamed(d, n)
      PROVE  b.tenant_id = w
  BY <1>0, NamesHaveOneTenant
<1>1. path.column = source.column /\ root # NULL
  BY DEF SourceOf
<1>2. CASE source.table = "agents" /\ source.column = "agent_id" /\ path.kind = "AgentText"
  <2>1. PICK a \in AgentsNamed(d, root) : s = Reached(root, a, a)
    BY <1>2 DEF PathSql
  <2>2. s.tenant = a.tenant_id /\ s.orphan = (root # NULL /\ a.id = NULL)
    BY <2>1 DEF Reached
  <2>3. a \in d["agents"] /\ a.agent_id = root
    BY <1>1, <2>1, <2>2 DEF AgentsNamed, LeftJoin, NoRow
  <2>4. a \in Parents(d, source, row)
    BY <1>1, <1>2, <2>3 DEF Parents
  <2> QED BY <1>2, <2>2, <2>3, <2>4, AgentsAreOwned, BackfillOfAgents
<1>3. CASE path.kind \in DOMAIN Through /\ Through[path.kind] = source.table
  <2> DEFINE parents == {p \in d[source.table] : p.id = root}
  <2>1. path.kind \notin {"TenantColumn", "AgentText", "AgentUuid", "Session"}
    BY <1>3 DEF Through
  <2>2. PathSql(d, path, row) = DerivedPath(d, root, parents)
    BY <1>3, <2>1 DEF PathSql
  <2>3. source.table \notin {"agents", "sessions"}
    BY <1>3 DEF Through
  <2>4. PICK p \in LeftJoin(parents) : \E a \in AgentsNamed(d, p.agent_id) : s = Reached(root, p, a)
    BY <2>2 DEF DerivedPath
  <2>5. PICK a \in AgentsNamed(d, p.agent_id) : s = Reached(root, p, a)
    BY <2>4
  <2>6. s.tenant = a.tenant_id /\ s.orphan = (root # NULL /\ p.id = NULL)
    BY <2>5 DEF Reached
  <2>7. p \in d[source.table] /\ p.id = root
    BY <1>1, <2>4, <2>6 DEF LeftJoin, NoRow
  <2>8. PICK v \in Tenants : Names(d, p.agent_id, v) /\ TenantOf(d)[source.table][p] = v
    BY <2>3, <2>7 DEF Settled
  <2>9. s.tenant = v
    <3> HIDE DEF parents
    <3> QED BY <1>0, <2>5, <2>6, <2>8
  <2>10. p \in Parents(d, source, row)
    BY <1>1, <2>3, <2>7 DEF Parents
  <2> QED BY <2>8, <2>9, <2>10
<1> QED BY <1>2, <1>3 DEF SourceOf

\* A path always yields something.
LEMMA PathsYield ==
  ASSUME NEW d, NEW t, NEW source, NEW i, SourceOf(t, source, i), NEW row
  PROVE  \E s : s \in PathSql(d, Registry[t].paths[i], row)
<1> DEFINE path == Registry[t].paths[i]
           root == row[path.column]
<1>1. \A rows : \E r : r \in LeftJoin(rows)
  BY DEF LeftJoin
<1>2. CASE path.kind = "AgentText"
  <2>1. PICK a : a \in AgentsNamed(d, root)
    BY <1>1 DEF AgentsNamed
  <2> QED BY <1>2, <2>1 DEF PathSql
<1>3. CASE path.kind \in DOMAIN Through
  <2> DEFINE parents == {p \in d[Through[path.kind]] : p.id = root}
  <2>1. path.kind \notin {"TenantColumn", "AgentText", "AgentUuid", "Session"}
    BY <1>3 DEF Through
  <2>2. PICK p : p \in LeftJoin(parents)
    BY <1>1
  <2>3. PICK a : a \in AgentsNamed(d, p.agent_id)
    BY <1>1 DEF AgentsNamed
  <2>4. Reached(root, p, a) \in DerivedPath(d, root, parents)
    <3> HIDE DEF parents, root
    <3> QED BY <2>2, <2>3 DEF DerivedPath
  <2> QED BY <2>1, <2>4 DEF PathSql
<1> QED BY <1>2, <1>3 DEF SourceOf

\* Every row names the parent its first path goes to, and finds it.
LEMMA FirstPathsReach ==
  ASSUME NEW k, NEW view, Sound(view, k), NEW t \in Followers \cap UpTo(k), NEW row \in view.db[t],
         NEW x \in PathSql(view.db, Registry[t].paths[1], row)
  PROVE  ~ x.orphan /\ x.tenant # NULL /\ row[Registry[t].paths[1].column] # NULL
<1> DEFINE d == view.db
           path == Registry[t].paths[1]
           root == row[path.column]
<1>1. \E first : SourceOf(t, first, 1)
  BY SourcesHavePaths DEF SourcesFact
<1>2. ~ x.null /\ ~ x.orphan /\ x.tenant # NULL
  BY RowsReachOneTenant
<1>3. \A p, a : Reached(root, p, a).null = (root = NULL)
  BY DEF Reached
<1>4. \E p, a : x = Reached(root, p, a)
  <2>1. CASE path.kind = "AgentText"
    BY <2>1 DEF PathSql
  <2>2. CASE path.kind \in DOMAIN Through
    <3>1. path.kind \notin {"TenantColumn", "AgentText", "AgentUuid", "Session"}
      BY <2>2 DEF Through
    <3>2. x \in DerivedPath(d, root, {p \in d[Through[path.kind]] : p.id = root})
      BY <3>1 DEF PathSql
    <3> QED BY <3>2 DEF DerivedPath
  <2> QED BY <1>1, <2>1, <2>2 DEF SourceOf
<1>5. root = NULL => x.null
  <2> HIDE DEF root
  <2> QED BY <1>3, <1>4
<1> QED BY <1>2, <1>5

\* The sources of a row agree.
LEMMA SourcesAgree ==
  ASSUME NEW k, NEW view, Sound(view, k), NEW t \in Followers \cap UpTo(k), NEW row \in view.db[t],
         \A source \in Authority(t) : source.table # "agents" => Settled(view.db, source.table)
  PROVE  Agreed(view.db, TenantOf(view.db), t, row) # {}
<1> DEFINE d == view.db
           paths == Registry[t].paths
<1>1. SourcesFact(t)
  BY SourcesHavePaths
<1>2. t \in UpTo(k) /\ CheckSchemaRelationships(view, t)
  BY DEF Sound, Ready
<1>3. PICK first \in Authority(t) : SourceOf(t, first, 1)
  BY <1>1 DEF SourcesFact
<1>4. PICK c : c \in PathSql(d, paths[1], row)
  BY <1>3, PathsYield
<1>5. /\ ~ c.null /\ ~ c.orphan /\ c.tenant # NULL
      /\ \A i \in 2 .. Len(paths) : \A s \in PathSql(d, paths[i], row) :
           ~ s.orphan /\ (s.tenant # NULL => s.tenant = c.tenant)
  <2>1. Sound(view, k) /\ row \in view.db[t] /\ c \in PathSql(view.db, Registry[t].paths[1], row)
    BY <1>4
  <2>2. /\ ~ c.null /\ ~ c.orphan /\ c.tenant # NULL
        /\ \A i \in 2 .. Len(Registry[t].paths) : \A s \in PathSql(view.db, Registry[t].paths[i], row) :
             ~ s.orphan /\ (s.tenant # NULL => s.tenant = c.tenant)
    BY <1>2, <2>1, RowsReachOneTenant
  <2> QED BY <2>2
<1>6. ~ c.orphan /\ row[paths[1].column] # NULL
  BY <1>4, FirstPathsReach
<1>7. c.tenant \in Tenants
  BY <1>3, <1>4, <1>6, SourcesAreFound DEF SourceOf
<1>8. ASSUME NEW source \in Authority(t)
      PROVE  \/ source.optional /\ row[source.column] = NULL
             \/ \E p \in Parents(d, source, row) : TenantOf(d)[source.table][p] = c.tenant
  <2>1. PICK i \in DOMAIN paths :
           /\ SourceOf(t, source, i)
           /\ source.optional \/ i = 1 \/ (~ paths[i].nullable /\ t \in WrittenOnce)
    BY <1>1 DEF SourcesFact
  <2>2. paths[i].column = source.column
    BY <2>1 DEF SourceOf
  <2>3. CASE i = 1
    BY <1>4, <1>6, <2>1, <2>2, <2>3, SourcesAreFound
  <2>4. CASE i # 1 /\ row[source.column] # NULL
    <3>1. i \in 2 .. Len(paths)
      BY <1>1, <2>1, <2>4 DEF SourcesFact
    <3>2. PICK s : s \in PathSql(d, paths[i], row)
      BY <2>1, PathsYield
    <3>3. ~ s.orphan /\ (s.tenant # NULL => s.tenant = c.tenant)
      BY <1>5, <3>1, <3>2
    <3>4. /\ s.tenant \in Tenants
          /\ \E p \in Parents(d, source, row) : TenantOf(d)[source.table][p] = s.tenant
      BY <2>1, <2>4, <3>2, <3>3, SourcesAreFound
    <3> QED BY <3>3, <3>4, AgentsAssumption
  <2>5. CASE i # 1 /\ row[source.column] = NULL /\ ~ source.optional
    <3>1. ~ paths[i].nullable /\ t \in WrittenOnce /\ paths[i] \in ToSet(paths)
      BY <2>1, <2>5 DEF ToSet
    <3>3. row[paths[i].column] # NULL
      BY <1>2, <3>1 DEF CheckSchemaRelationships, Sound, Legacy, ColumnsAreThere
    <3> QED BY <2>2, <2>5, <3>3
  <2> QED BY <2>3, <2>4, <2>5
<1>9. c.tenant \in Agreed(d, TenantOf(d), t, row)
  BY <1>7, <1>8 DEF Agreed
<1> QED BY <1>9

\* A table that names its agent first follows it, when its other sources do.
LEMMA FollowersSettle ==
  ASSUME NEW k, NEW view, Sound(view, k), NEW t \in AgentFirst \cap UpTo(k),
         \A source \in Authority(t) : source.table # "agents" => Settled(view.db, source.table)
  PROVE  Settled(view.db, t)
<1> DEFINE d == view.db
           agent == From("agents", "agent_id")
<1> SUFFICES ASSUME NEW row \in d[t]
             PROVE  \E v \in Tenants : Names(d, row.agent_id, v) /\ TenantOf(d)[t][row] = v
  BY DEF Settled
<1>1. t \in Followers
  BY DEF Followers
<1>2. t \in Tables /\ t \notin OwnedAlready /\ agent \in Authority(t) /\ SourceOf(t, agent, 1)
  BY <1>1, SourcesHavePaths DEF SourcesFact
<1>3. agent.table = "agents" /\ ~ agent.optional /\ agent.column = "agent_id"
  BY DEF From
<1>4. row.agent_id # NULL
  <2>1. PICK x : x \in PathSql(d, Registry[t].paths[1], row)
    BY <1>2, PathsYield
  <2>2. row[Registry[t].paths[1].column] # NULL
    BY <1>1, <2>1, FirstPathsReach
  <2> QED BY <1>2, <1>3, <2>2 DEF SourceOf
<1>5. TenantOf(d)[t][row] \in Agreed(d, TenantOf(d), t, row)
  BY <1>1, <1>2, SourcesAgree, BackfillAgrees
<1>6. PICK a \in Parents(d, agent, row) : TenantOf(d)["agents"][a] = TenantOf(d)[t][row]
  <2> HIDE DEF agent
  <2> QED BY <1>2, <1>3, <1>5 DEF Agreed
<1>7. a \in d["agents"] /\ a.agent_id = row.agent_id
  <2> HIDE DEF agent
  <2> QED BY <1>3, <1>6 DEF Parents
<1>8. a.tenant_id = TenantOf(d)[t][row]
  BY <1>6, <1>7, BackfillOfAgents
<1>9. TenantOf(d)[t][row] \in Tenants
  BY <1>5 DEF Agreed
<1> QED BY <1>4, <1>7, <1>8, <1>9 DEF Names

\* So all of them do, the parents first.
LEMMA AllSettle ==
  ASSUME NEW k \in Tranches, NEW view, Sound(view, k)
  PROVE  /\ \A t \in AgentFirst \cap UpTo(k) : Settled(view.db, t)
         /\ \A t \in Followers \cap UpTo(k) : \A row \in view.db[t] :
              TenantOf(view.db)[t][row] \in Agreed(view.db, TenantOf(view.db), t, row)
<1>1. ASSUME NEW t \in Plain \cap UpTo(k) PROVE Settled(view.db, t)
  <2>1. \A source \in Authority(t) : source.table = "agents"
    BY DEF Authority, BackfillAuthority, Plain, From
  <2> QED BY <2>1, FollowersSettle DEF AgentFirst
<1>2. ASSUME "memories" \in UpTo(k) PROVE Settled(view.db, "memories")
  <2>1. \A source \in Authority("memories") : source.table \in {"agents", "archival_batches"}
    BY DEF Authority, BackfillAuthority, From, IfNamed
  <2>2. "archival_batches" \in Plain /\ "memories" \in AgentFirst /\ "archival_batches" \in Children
    BY DEF Plain, AgentFirst, Followers, Children
  <2>3. \A source \in Authority("memories") : source.table # "agents" => source.table \in Plain \cap UpTo(k)
    BY <1>2, <2>1, <2>2, ParentsAreUpTo
  <2> QED BY <1>1, <1>2, <2>2, <2>3, FollowersSettle
<1>3. ASSUME NEW t \in Followers \cap UpTo(k)
      PROVE  \A source \in Authority(t) : source.table # "agents" => Settled(view.db, source.table)
  <2> SUFFICES ASSUME NEW source \in Authority(t), source.table # "agents"
               PROVE  Settled(view.db, source.table)
    OBVIOUS
  <2>1. source.table \in Plain \cup {"memories"}
    <3>1. CASE t \notin DOMAIN BackfillAuthority
      BY <3>1 DEF Authority, From
    <3>2. CASE t \in {"memories", "rmk_episodes", "retrieval_feedback", "memory_conflicts"}
      BY <3>2 DEF Authority, BackfillAuthority, From, IfNamed, Plain
    <3>3. CASE t \in {"memory_versions", "memory_entity_links", "co_access_edges"}
      BY <3>3 DEF Authority, BackfillAuthority, From, IfNamed, Plain
    <3> QED BY <3>1, <3>2, <3>3 DEF BackfillAuthority, Followers, AgentFirst, Plain
  <2>2. source.table \in UpTo(k)
    <3>1. source.table \in Children
      BY <2>1 DEF Children, Followers, AgentFirst
    <3> QED BY <3>1, ParentsAreUpTo
  <2> QED BY <1>1, <1>2, <2>1, <2>2
<1>4. AgentFirst \subseteq Followers
  BY DEF Followers
<1>5. ASSUME NEW t \in Followers \cap UpTo(k), NEW row \in view.db[t]
      PROVE  TenantOf(view.db)[t][row] \in Agreed(view.db, TenantOf(view.db), t, row)
  BY <1>3, SourcesAgree, BackfillAgrees, SourcesHavePaths DEF SourcesFact
<1> QED BY <1>3, <1>4, <1>5, FollowersSettle

\* The working memory follows its session, which is of the same agent.
LEMMA WorkingMemorySettles ==
  ASSUME NEW k \in Tranches, NEW view, Sound(view, k), "working_memory" \in UpTo(k), NEW row \in view.db["working_memory"]
  PROVE  /\ Settled(view.db, "working_memory")
         /\ \E s \in view.db["sessions"] :
              /\ s.agent_id = row.agent_id /\ s.session_id = row.session_id
              /\ TenantOf(view.db)["sessions"][s] = TenantOf(view.db)["working_memory"][row]
<1> DEFINE d == view.db
           t == "working_memory"
           source == From("sessions", "session_id")
<1>1. /\ t \in Tables /\ t \notin OwnedAlready /\ Authority(t) = {source}
      /\ source.table = "sessions" /\ ~ source.optional
  BY DEF Tables, Registry, OwnedAlready, Authority, BackfillAuthority, From
<1>2. /\ Registry[t].paths[1].kind = "Session" /\ Registry[t].paths[1].column = "session_id"
      /\ AgentText(FALSE) \in ToSet(Registry[t].paths)
  <2>1. Registry[t] = WorkingMemory
    BY DEF Registry
  <2>2. WorkingMemory.paths = <<SessionPath, AgentText(FALSE)>>
    BY DEF WorkingMemory, Entry
  <2>3. 2 \in DOMAIN WorkingMemory.paths /\ WorkingMemory.paths[2] = AgentText(FALSE)
    BY <2>2
  <2>4. AgentText(FALSE) \in ToSet(WorkingMemory.paths)
    BY <2>3 DEF ToSet
  <2>5. WorkingMemory.paths[1] = SessionPath /\ SessionPath.kind = "Session" /\ SessionPath.column = "session_id"
    BY <2>2 DEF SessionPath
  <2> QED BY <2>1, <2>4, <2>5
<1>3. Settled(d, "sessions")
  <2>1. "sessions" \in AgentFirst /\ "sessions" \in Children
    BY DEF AgentFirst, Plain, Children, Followers
  <2>2. source \in Authority(t) /\ source.table \in Children
    BY <1>1, <2>1
  <2>3. "sessions" \in UpTo(k)
    BY <1>1, <2>2, ParentsAreUpTo
  <2> QED BY <2>1, <2>3, AllSettle
<1>4. ASSUME NEW r \in d[t]
      PROVE  /\ TenantOf(d)[t][r] \in Agreed(d, TenantOf(d), t, r)
             /\ r.agent_id # NULL
  <2> DEFINE root == r.session_id
             parents == {s \in d["sessions"] : s.agent_id = r.agent_id /\ s.session_id = root}
             path == Registry[t].paths[1]
  <2>1. PathSql(d, path, r) = {IF r.agent_id = NULL THEN [x EXCEPT !.orphan = FALSE] ELSE x :
                                 x \in DerivedPath(d, root, parents)}
    BY <1>2 DEF PathSql
  <2>2. PICK p : p \in LeftJoin(parents)
    BY DEF LeftJoin
  <2>3. PICK a : a \in AgentsNamed(d, p.agent_id)
    BY DEF AgentsNamed, LeftJoin
  <2>4. Reached(root, p, a) \in DerivedPath(d, root, parents)
    <3> HIDE DEF parents, root
    <3> QED BY <2>2, <2>3 DEF DerivedPath
  <2>5. r.agent_id # NULL
    <3>1. AgentText(FALSE).nullable = FALSE /\ AgentText(FALSE).column = "agent_id"
      BY DEF AgentText
    <3>2. CheckSchemaRelationships(view, t) /\ t \in WrittenOnce
      BY <1>1 DEF Sound, Ready, WrittenOnce
    <3>3. <<t, "agent_id">> \notin view.relaxed
      BY <1>2, <3>1, <3>2 DEF CheckSchemaRelationships
    <3> QED BY <1>2, <3>1, <3>2, <3>3 DEF Sound, Legacy, ColumnsAreThere
  <2>6. Reached(root, p, a) \in PathSql(d, path, r)
    BY <2>1, <2>4, <2>5
  <2>7. ~ Reached(root, p, a).null /\ ~ Reached(root, p, a).orphan
    BY <2>6, RowsReachOneTenant
  <2>8. p \in parents
    BY <2>2, <2>7 DEF Reached, LeftJoin, NoRow
  <2>9. PICK v \in Tenants : TenantOf(d)["sessions"][p] = v
    BY <1>3, <2>8 DEF Settled
  <2>10. p \in Parents(d, source, r)
    BY <1>1, <2>8 DEF Parents
  <2>11. v \in Agreed(d, TenantOf(d), t, r)
    BY <1>1, <2>9, <2>10 DEF Agreed
  <2> QED BY <1>1, <2>5, <2>11, BackfillAgrees
<1>5. ASSUME NEW r \in d[t]
      PROVE  \E s \in d["sessions"] : /\ s.agent_id = r.agent_id /\ s.session_id = r.session_id
                                      /\ TenantOf(d)["sessions"][s] = TenantOf(d)[t][r]
  <2> HIDE DEF source
  <2>1. PICK s \in Parents(d, source, r) : TenantOf(d)["sessions"][s] = TenantOf(d)[t][r]
    BY <1>1, <1>4 DEF Agreed
  <2> QED BY <1>1, <2>1 DEF Parents
<1>6. Settled(d, t)
  BY <1>3, <1>4, <1>5 DEF Settled, Agreed
<1> QED BY <1>5, <1>6

-----------------------------------------------------------------------------
(***************************************************************************)
(* The rows as the backfill leaves them.                                   *)
(***************************************************************************)

\* The backfill adds the owner to a row and leaves what it had.
LEMMA FilledRows ==
  ASSUME NEW k \in Tranches, NEW view, Sound(view, k), NEW t \in UpTo(k), NEW row \in view.db[t]
  PROVE  LET f == Filled(view.db, TenantOf(view.db), t, row) IN
         /\ f.tenant_id = TenantOf(view.db)[t][row] /\ f.tenant_id \in Tenants
         /\ \A column \in Columns(t) : f[column] = row[column]
         /\ t \in OfAnAgent =>
              \E a \in view.db["agents"] : /\ a.agent_id = row.agent_id /\ a.tenant_id = f.tenant_id
                                           /\ f.agent_uuid = a.id /\ a.id # NULL
<1> DEFINE d == view.db
           f == Filled(d, TenantOf(d), t, row)
           tenant == TenantOf(d)[t][row]
           owner == [tenant_id |-> tenant, agent_uuid |-> IF tenant = NULL THEN NULL ELSE Uuid(d, row)]
<1>1. t \in Tables /\ t \notin OwnedAlready /\ Registry[t].class # "SYSTEM_GLOBAL" /\ t \in Children
  BY ListsRequire DEF UpTo
<1>2. tenant \in Tenants
  <2>1. CASE t = "working_memory"
    BY <2>1, WorkingMemorySettles DEF Settled
  <2>2. CASE t \in Followers
    BY <2>2, AllSettle DEF Agreed
  <2> QED BY <1>1, <2>1, <2>2 DEF Children
<1>3. /\ Columns(t) \subseteq DOMAIN row /\ row.id # NULL
      /\ DOMAIN row \cap {"tenant_id", "agent_uuid"} = {}
  BY <1>1 DEF Sound, Legacy, RowsAreLegacy, IsLegacy
<1>4. "agent_id" \in DOMAIN row => f = Extended(row, owner)
  BY <1>1, <1>3 DEF Filled
<1>5. "agent_id" \notin DOMAIN row => f = Extended(row, [tenant_id |-> tenant])
  BY <1>1, <1>3 DEF Filled
<1>6. f.tenant_id = tenant /\ \A column \in DOMAIN row : f[column] = row[column]
  <2> HIDE DEF f
  <2>1. CASE "agent_id" \in DOMAIN row
    BY <1>3, <1>4, <2>1 DEF Extended
  <2>2. CASE "agent_id" \notin DOMAIN row
    BY <1>3, <1>5, <2>2 DEF Extended
  <2> QED BY <2>1, <2>2
<1>7. ASSUME t \in OfAnAgent
      PROVE  \E a \in d["agents"] : /\ a.agent_id = row.agent_id /\ a.tenant_id = f.tenant_id
                                    /\ f.agent_uuid = a.id /\ a.id # NULL
  <2>1. Settled(d, t)
    BY <1>7, AllSettle, WorkingMemorySettles DEF OfAnAgent
  <2>2. PICK a \in d["agents"] : row.agent_id # NULL /\ a.agent_id = row.agent_id /\ a.tenant_id = tenant
    BY <2>1 DEF Settled, Names
  <2>3. Uuid(d, row) = a.id
    <3>1. \A b \in d["agents"] : b.agent_id = row.agent_id <=> b = a
      BY <2>2, AgentsAreOwned
    <3>2. (CHOOSE b \in d["agents"] : b.agent_id = row.agent_id) = a
      BY <2>2, <3>1
    <3> QED BY <2>2, <3>2 DEF Uuid
  <2>4. a.id # NULL
    BY AgentsColumns DEF Sound, Legacy, RowsAreLegacy, IsLegacy
  <2>5. "agent_id" \in DOMAIN row
    <3>1. CASE t = "working_memory"
      <4>1. Registry[t].paths = <<SessionPath, AgentText(FALSE)>>
        BY <3>1 DEF Registry, WorkingMemory, Entry
      <4>2. AgentText(FALSE) \in ToSet(Registry[t].paths)
        <5>1. 2 \in DOMAIN Registry[t].paths /\ Registry[t].paths[2] = AgentText(FALSE)
          BY <4>1
        <5> QED BY <5>1 DEF ToSet
      <4> QED BY <1>3, <4>2 DEF Columns, AgentText
    <3>2. CASE t \in AgentFirst
      <4>1. SourceOf(t, From("agents", "agent_id"), 1)
        BY <3>2, SourcesHavePaths DEF SourcesFact, Followers
      <4>2. 1 \in DOMAIN Registry[t].paths /\ Registry[t].paths[1].column = "agent_id"
        BY <4>1 DEF SourceOf, From
      <4>3. Registry[t].paths[1] \in ToSet(Registry[t].paths)
        BY <4>2 DEF ToSet
      <4> QED BY <1>3, <4>2, <4>3 DEF Columns
    <3> QED BY <1>7, <3>1, <3>2 DEF OfAnAgent
  <2>6. f.agent_uuid = a.id
    <3> HIDE DEF f
    <3>1. owner.agent_uuid = a.id /\ DOMAIN owner = {"tenant_id", "agent_uuid"}
      BY <1>2, <2>3, AgentsAssumption
    <3> HIDE DEF owner
    <3> QED BY <1>3, <1>4, <2>5, <3>1 DEF Extended
  <2> QED BY <1>6, <2>2, <2>4, <2>6
<1> HIDE DEF f
<1> QED BY <1>2, <1>3, <1>6, <1>7 DEF f

-----------------------------------------------------------------------------
(***************************************************************************)
(* What the plan builds.                                                   *)
(***************************************************************************)

\* The columns of the owner a tranche adds to a table, tightened in the end,
Tightened(t, name) == Column(t, name, TRUE)
OwnerColumns(k) ==
  {Tightened(t, "tenant_id") : t \in UpTo(k) \cup {"agents"}}
  \cup {Tightened(t, "agent_uuid") : t \in UpTo(k) \cap OfAnAgent}
\* except those of the log, whose rows may be of no agent.
Nullable(t, name) == Column(t, name, FALSE)
LogColumns == {Nullable("audit_logs", name) : name \in {"tenant_id", "agent_uuid"}}
\* The keys to the agents and to the parents of a row, and what they refer to.
Targets == {Target(t, columns) : t \in Tables, columns \in {IdTenant, SessionIdentity}}
KeyToAgent(t) == Key(t, <<"tenant_id", "agent_uuid">>, "agents", AgentsTarget)
AgentKeys(k) == {KeyToAgent(t) : t \in (UpTo(k) \cap OfAnAgent) \cup {"audit_logs"}}
TenantKeys(k) ==
  UNION {{Key(t, <<source.column, "tenant_id">>, source.table, IdTenant) :
            source \in {s \in Authority(t) : s.table # "agents"}} : t \in Followers \cap UpTo(k)}
SessionKey == Key("working_memory", SessionIdentity, "sessions", SessionIdentity)
SessionKeys(k) == {o \in {SessionKey} : "working_memory" \in UpTo(k)}

\* Nothing but columns for the owner, targets, and keys along a row's sources.
PlanObjects(k) ==
  OwnerColumns(k) \cup LogColumns \cup Targets \cup AgentKeys(k) \cup TenantKeys(k) \cup SessionKeys(k)

\* Each piece of a tranche is of these: the columns of the owner,
LEMMA PlannedColumns ==
  ASSUME NEW k, NEW t \in UpTo(k) \cap OfAnAgent
  PROVE  OwnershipColumns(t, TRUE) \in Seq(PlanObjects(k))
<1>1. Tightened(t, "agent_uuid") \in PlanObjects(k) /\ Tightened(t, "tenant_id") \in PlanObjects(k)
  BY DEF PlanObjects, OwnerColumns
<1> DEFINE c == OwnershipColumns(t, TRUE)
<1>2. c = <<Tightened(t, "agent_uuid"), Tightened(t, "tenant_id")>>
  BY DEF OwnershipColumns, Tightened
<1>3. c \in Seq(PlanObjects(k))
  <2> HIDE DEF c
  <2> QED BY <1>1, <1>2
<1> QED BY <1>3

\* the key to the agents,
LEMMA PlannedAgentKey ==
  ASSUME NEW k, NEW t \in (UpTo(k) \cap OfAnAgent) \cup {"audit_logs"}
  PROVE  AgentKey(t) \in Seq(PlanObjects(k))
<1>1. KeyToAgent(t) \in PlanObjects(k)
  BY DEF PlanObjects, AgentKeys
<1>2. AgentKey(t) = <<KeyToAgent(t)>>
  BY DEF AgentKey, KeyToAgent
<1> QED BY <1>1, <1>2

\* both at once,
LEMMA PlannedOwned ==
  ASSUME NEW k, NEW t \in UpTo(k) \cap OfAnAgent
  PROVE  Owned(t) \in Seq(PlanObjects(k))
<1> DEFINE c == OwnershipColumns(t, TRUE)
<1>1. Owned(t) = c \o AgentKey(t)
  BY DEF Owned
<1>2. c \in Seq(PlanObjects(k)) /\ AgentKey(t) \in Seq(PlanObjects(k))
  BY PlannedColumns, PlannedAgentKey
<1> HIDE DEF c
<1> QED BY <1>1, <1>2

\* the columns of the log,
LEMMA PlannedLog ==
  ASSUME NEW k
  PROVE  OwnershipColumns("audit_logs", FALSE) \in Seq(PlanObjects(k))
<1>1. Nullable("audit_logs", "agent_uuid") \in PlanObjects(k) /\ Nullable("audit_logs", "tenant_id") \in PlanObjects(k)
  BY DEF PlanObjects, LogColumns
<1> DEFINE c == OwnershipColumns("audit_logs", FALSE)
<1>2. c = <<Nullable("audit_logs", "agent_uuid"), Nullable("audit_logs", "tenant_id")>>
  BY DEF OwnershipColumns, Nullable
<1>3. c \in Seq(PlanObjects(k))
  <2> HIDE DEF c
  <2> QED BY <1>1, <1>2
<1> QED BY <1>3

\* a key to a parent,
LEMMA PlannedTenantKey ==
  ASSUME NEW k, NEW t \in Followers \cap UpTo(k), NEW source \in Authority(t), source.table # "agents",
         NEW column, NEW to, source.column = column, source.table = to
  PROVE  TenantKey(t, column, to) \in Seq(PlanObjects(k))
<1>1. Key(t, <<column, "tenant_id">>, to, IdTenant) \in PlanObjects(k)
  <2>1. Key(t, <<source.column, "tenant_id">>, source.table, IdTenant) \in
           {Key(t, <<s.column, "tenant_id">>, s.table, IdTenant) : s \in {s \in Authority(t) : s.table # "agents"}}
    OBVIOUS
  <2> QED BY <2>1 DEF PlanObjects, TenantKeys
<1> QED BY <1>1 DEF TenantKey

\* what it refers to,
LEMMA PlannedTarget ==
  ASSUME NEW k, NEW t \in Tables, NEW columns \in {IdTenant, SessionIdentity}
  PROVE  <<Target(t, columns)>> \in Seq(PlanObjects(k))
<1>1. Target(t, columns) \in PlanObjects(k)
  BY DEF PlanObjects, Targets
<1> QED BY <1>1

\* and the column of a table that has no name of an agent.
LEMMA PlannedLineage ==
  ASSUME NEW k, NEW t \in UpTo(k)
  PROVE  LineageColumn(t) \in Seq(PlanObjects(k))
<1>1. Tightened(t, "tenant_id") \in PlanObjects(k)
  BY DEF PlanObjects, OwnerColumns
<1>2. LineageColumn(t) = <<Tightened(t, "tenant_id")>>
  BY DEF LineageColumn, Tightened
<1> QED BY <1>1, <1>2

\* Every tranche is made of them.
LEMMA PlanIsOfPlanObjects ==
  ASSUME NEW tranche \in Tranches, NEW o \in ToSet(Planned[tranche])
  PROVE  o \in PlanObjects(tranche)
<1> DEFINE S(k) == Seq(PlanObjects(k))
<1>0. \A k, r, s : r \in S(k) /\ s \in S(k) => r \o s \in S(k)
  OBVIOUS
<1>1. /\ {"archival_batches", "entities", "memory_graph", "rmk_policies"} \subseteq UpTo(1) \cap OfAnAgent
      /\ {"sessions", "working_memory"} \subseteq UpTo(2) \cap OfAnAgent
      /\ {"memories", "extraction_jobs", "memory_retrieval_logs", "cognitive_hypervisor_timeline"}
           \subseteq UpTo(3) \cap OfAnAgent
      /\ {"memory_conflicts", "retrieval_feedback"} \subseteq UpTo(4) \cap OfAnAgent
      /\ {"memory_versions", "memory_entity_links", "co_access_edges"} \subseteq UpTo(4)
      /\ {"amp_controller_state", "rmk_episodes"} \subseteq UpTo(5) \cap OfAnAgent
      /\ {"memories", "memory_versions", "memory_entity_links", "co_access_edges", "memory_conflicts",
          "retrieval_feedback", "rmk_episodes"} \subseteq Followers
  BY TranchesAre DEF OfAnAgent, AgentFirst, Plain, Followers, Children, UpTo
<1>2. {"archival_batches", "entities", "rmk_policies", "sessions", "memories"} \subseteq Tables
  BY DEF Tables, Registry
<1>3. PlannedTranche1 \in S(1)
  <2> DEFINE c(t, b) == OwnershipColumns(t, b)
             g(t) == <<Target(t, IdTenant)>>
             k(t) == AgentKey(t)
             w == Owned("memory_graph")
  <2>1. /\ c("archival_batches", TRUE) \in S(1) /\ c("audit_logs", FALSE) \in S(1) /\ c("entities", TRUE) \in S(1)
        /\ c("rmk_policies", TRUE) \in S(1)
        /\ k("archival_batches") \in S(1) /\ k("audit_logs") \in S(1) /\ k("entities") \in S(1) /\ k("rmk_policies") \in S(1)
        /\ w \in S(1)
    BY <1>1, PlannedColumns, PlannedAgentKey, PlannedOwned, PlannedLog
  <2>2. g("archival_batches") \in S(1) /\ g("entities") \in S(1) /\ g("rmk_policies") \in S(1)
    BY <1>2, PlannedTarget
  <2>3. PlannedTranche1 =
          c("archival_batches", TRUE) \o g("archival_batches") \o k("archival_batches")
          \o c("audit_logs", FALSE) \o k("audit_logs")
          \o c("entities", TRUE) \o g("entities") \o k("entities")
          \o w
          \o c("rmk_policies", TRUE) \o g("rmk_policies") \o k("rmk_policies")
    BY DEF PlannedTranche1
  <2> HIDE DEF c, g, k, w
  <2> QED BY <1>0, <2>1, <2>2, <2>3
<1>4. PlannedTranche2 \in S(2)
  <2> DEFINE c == OwnershipColumns("sessions", TRUE)
             g == <<Target("sessions", SessionIdentity)>>
             k == AgentKey("sessions")
             w == Owned("working_memory")
             j == <<SessionKey>>
  <2>1. c \in S(2) /\ k \in S(2) /\ w \in S(2)
    BY <1>1, PlannedColumns, PlannedAgentKey, PlannedOwned
  <2>2. g \in S(2)
    BY <1>2, PlannedTarget
  <2>3. j \in S(2)
    <3>1. SessionKey \in PlanObjects(2)
      BY <1>1 DEF PlanObjects, SessionKeys
    <3> QED BY <3>1
  <2>4. PlannedTranche2 = c \o g \o k \o w \o j
    BY DEF PlannedTranche2, SessionKey
  <2> HIDE DEF c, g, k, w, j
  <2> QED BY <1>0, <2>1, <2>2, <2>3, <2>4
<1>5. PlannedTranche3 \in S(3)
  <2> DEFINE c == OwnershipColumns("memories", TRUE)
             g == <<Target("memories", IdTenant)>>
             k == AgentKey("memories")
             p == TenantKey("memories", "archival_batch_id", "archival_batches")
             w(t) == Owned(t)
  <2>1. /\ c \in S(3) /\ k \in S(3) /\ w("extraction_jobs") \in S(3) /\ w("memory_retrieval_logs") \in S(3)
        /\ w("cognitive_hypervisor_timeline") \in S(3)
    BY <1>1, PlannedColumns, PlannedAgentKey, PlannedOwned
  <2>2. g \in S(3)
    BY <1>2, PlannedTarget
  <2>3. p \in S(3)
    <3>1. IfNamed("archival_batches", "archival_batch_id") \in Authority("memories")
      BY DEF Authority, BackfillAuthority
    <3>2. /\ IfNamed("archival_batches", "archival_batch_id").table = "archival_batches"
          /\ IfNamed("archival_batches", "archival_batch_id").column = "archival_batch_id"
      BY DEF IfNamed
    <3> QED BY <1>1, <3>1, <3>2, PlannedTenantKey
  <2>4. PlannedTranche3 = c \o g \o k \o p \o w("extraction_jobs") \o w("memory_retrieval_logs")
                          \o w("cognitive_hypervisor_timeline")
    BY DEF PlannedTranche3
  <2> HIDE DEF c, g, k, p, w
  <2> QED BY <1>0, <2>1, <2>2, <2>3, <2>4
<1>6. ASSUME NEW k, NEW t \in Followers \cap UpTo(k), NEW to \in {"memories", "entities", "rmk_policies"}, NEW column,
             From(to, column) \in Authority(t) \/ IfNamed(to, column) \in Authority(t)
      PROVE  TenantKey(t, column, to) \in S(k)
  <2>1. /\ From(to, column).table = to /\ From(to, column).column = column
        /\ IfNamed(to, column).table = to /\ IfNamed(to, column).column = column
    BY DEF From, IfNamed
  <2> QED BY <1>6, <2>1, PlannedTenantKey
<1>7. PlannedTranche4 \in S(4)
  <2> DEFINE l(t) == LineageColumn(t)
             w(t) == Owned(t)
             p(t, column, to) == TenantKey(t, column, to)
  <2>1. l("memory_versions") \in S(4) /\ l("memory_entity_links") \in S(4) /\ l("co_access_edges") \in S(4)
    BY <1>1, PlannedLineage
  <2>2. w("memory_conflicts") \in S(4) /\ w("retrieval_feedback") \in S(4)
    BY <1>1, PlannedColumns, PlannedAgentKey, PlannedOwned
  <2>3. p("memory_versions", "memory_id", "memories") \in S(4)
    <3>1. From("memories", "memory_id") \in Authority("memory_versions")
      BY DEF Authority, BackfillAuthority
    <3> QED BY <1>1, <1>6, <3>1
  <2>4. /\ p("memory_entity_links", "memory_id", "memories") \in S(4)
        /\ p("memory_entity_links", "entity_id", "entities") \in S(4)
    <3>1. /\ From("memories", "memory_id") \in Authority("memory_entity_links")
          /\ From("entities", "entity_id") \in Authority("memory_entity_links")
      BY DEF Authority, BackfillAuthority
    <3> QED BY <1>1, <1>6, <3>1
  <2>5. p("co_access_edges", "memory_a", "memories") \in S(4) /\ p("co_access_edges", "memory_b", "memories") \in S(4)
    <3>1. /\ From("memories", "memory_a") \in Authority("co_access_edges")
          /\ From("memories", "memory_b") \in Authority("co_access_edges")
      BY DEF Authority, BackfillAuthority
    <3> QED BY <1>1, <1>6, <3>1
  <2>6. p("memory_conflicts", "memory_a", "memories") \in S(4) /\ p("memory_conflicts", "memory_b", "memories") \in S(4)
    <3>1. /\ IfNamed("memories", "memory_a") \in Authority("memory_conflicts")
          /\ IfNamed("memories", "memory_b") \in Authority("memory_conflicts")
      BY DEF Authority, BackfillAuthority
    <3> QED BY <1>1, <1>6, <3>1
  <2>7. p("retrieval_feedback", "memory_id", "memories") \in S(4)
    <3>1. IfNamed("memories", "memory_id") \in Authority("retrieval_feedback")
      BY DEF Authority, BackfillAuthority
    <3> QED BY <1>1, <1>6, <3>1
  <2>8. PlannedTranche4 =
          l("memory_versions") \o p("memory_versions", "memory_id", "memories")
          \o l("memory_entity_links") \o p("memory_entity_links", "memory_id", "memories")
          \o p("memory_entity_links", "entity_id", "entities")
          \o l("co_access_edges") \o p("co_access_edges", "memory_a", "memories")
          \o p("co_access_edges", "memory_b", "memories")
          \o w("memory_conflicts") \o p("memory_conflicts", "memory_a", "memories")
          \o p("memory_conflicts", "memory_b", "memories")
          \o w("retrieval_feedback") \o p("retrieval_feedback", "memory_id", "memories")
    BY DEF PlannedTranche4
  <2> HIDE DEF l, w, p
  <2> QED BY <1>0, <2>1, <2>2, <2>3, <2>4, <2>5, <2>6, <2>7, <2>8
<1>8. PlannedTranche5 \in S(5)
  <2> DEFINE w(t) == Owned(t)
             p == TenantKey("rmk_episodes", "policy_id", "rmk_policies")
  <2>1. w("amp_controller_state") \in S(5) /\ w("rmk_episodes") \in S(5)
    BY <1>1, PlannedColumns, PlannedAgentKey, PlannedOwned
  <2>2. p \in S(5)
    <3>1. IfNamed("rmk_policies", "policy_id") \in Authority("rmk_episodes")
      BY DEF Authority, BackfillAuthority
    <3> QED BY <1>1, <1>6, <3>1
  <2>3. PlannedTranche5 = w("amp_controller_state") \o w("rmk_episodes") \o p
    BY DEF PlannedTranche5
  <2> HIDE DEF w, p
  <2> QED BY <1>0, <2>1, <2>2, <2>3
<1>9. PlannedFinal \in S(6)
  <2>1. Tightened("agents", "tenant_id") \in PlanObjects(6)
    BY DEF PlanObjects, OwnerColumns
  <2>2. PlannedFinal = <<Tightened("agents", "tenant_id")>>
    BY DEF PlannedFinal, Tightened
  <2> QED BY <2>1, <2>2
<1>10. Planned[tranche] \in S(tranche)
  <2>1. tranche \in 1 .. 6
    BY DEF Tranches, T1, TFinal
  <2> HIDE DEF S
  <2> QED BY <1>3, <1>4, <1>5, <1>7, <1>8, <1>9, <2>1 DEF Planned
<1>11. \A i \in DOMAIN Planned[tranche] : Planned[tranche][i] \in PlanObjects(tranche)
  BY <1>10
<1> QED BY <1>11 DEF ToSet

-----------------------------------------------------------------------------
(***************************************************************************)
(* A clean report is permission to migrate.                                *)
(***************************************************************************)

\* The rows of a backfilled table.
LEMMA FilledTables ==
  ASSUME NEW k \in Tranches, NEW view, Sound(view, k)
  PROVE  /\ Backfilled(view.db)["agents"] = view.db["agents"]
         /\ \A t \in Children \cup {"audit_logs"} :
              /\ \A row \in Backfilled(view.db)[t] :
                   \E r \in view.db[t] : row = Filled(view.db, TenantOf(view.db), t, r)
              /\ \A r \in view.db[t] : Filled(view.db, TenantOf(view.db), t, r) \in Backfilled(view.db)[t]
<1>1. ASSUME NEW t \in Tables
      PROVE  Backfilled(view.db)[t] = {Filled(view.db, TenantOf(view.db), t, r) : r \in view.db[t]}
  BY DEF Backfilled
<1>2. Children \cup {"audit_logs"} \subseteq Tables
  BY ListsRequire DEF Tables, Registry
<1>3. \A a \in view.db["agents"] : Filled(view.db, TenantOf(view.db), "agents", a) = a
  <2>1. \A a \in view.db["agents"] : "tenant_id" \in DOMAIN a
    BY AgentsColumns DEF Sound, Legacy, RowsAreLegacy, IsLegacy
  <2> QED BY <2>1 DEF Filled
<1>4. Backfilled(view.db)["agents"] = view.db["agents"]
  <2>1. Backfilled(view.db)["agents"] = {Filled(view.db, TenantOf(view.db), "agents", r) : r \in view.db["agents"]}
    BY <1>1, AgentsColumns
  <2> QED BY <1>3, <2>1
<1>5. \A t \in Children \cup {"audit_logs"} :
        Backfilled(view.db)[t] = {Filled(view.db, TenantOf(view.db), t, r) : r \in view.db[t]}
  BY <1>1, <1>2
<1> QED BY <1>4, <1>5

\* Every column that is to be tightened has a value on every row.
LEMMA ColumnsAreFilled ==
  ASSUME NEW k \in Tranches, NEW view, Sound(view, k),
         NEW o \in OwnerColumns(k), NEW row \in Backfilled(view.db)[o.table]
  PROVE  o.what = "column" /\ Has(row, o.columns)
<1> DEFINE d == view.db
<1>1. PICK t \in UpTo(k) \cup {"agents"}, name \in {"tenant_id", "agent_uuid"} :
         /\ o = Tightened(t, name)
         /\ name = "agent_uuid" => t \in OfAnAgent
         /\ t = "agents" => name = "tenant_id"
  <2>1. "agents" \notin OfAnAgent /\ "agents" \notin Children
    BY DEF OfAnAgent, Children, Followers, AgentFirst, Plain
  <2> QED BY <2>1 DEF OwnerColumns, UpTo
<1>2. o.what = "column" /\ o.table = t /\ o.columns = <<name>>
  BY <1>1 DEF Tightened, Column
<1>3. row[name] # NULL
  <2>1. CASE t = "agents"
    BY <1>1, <1>2, <2>1, FilledTables, AgentsAreOwned, AgentsAssumption
  <2>2. CASE t \in UpTo(k)
    <3>0. t \in Children
      BY <2>2 DEF UpTo
    <3>1. PICK r \in d[t] : row = Filled(d, TenantOf(d), t, r)
      BY <1>2, <3>0, FilledTables
    <3>2. row.tenant_id # NULL
      BY <2>2, <3>1, FilledRows, AgentsAssumption
    <3>3. t \in OfAnAgent => row.agent_uuid # NULL
      BY <2>2, <3>1, FilledRows
    <3> QED BY <1>1, <2>1, <2>2, <3>2, <3>3
  <2> QED BY <2>1, <2>2
<1> QED BY <1>2, <1>3 DEF Has

\* A row of the log is given the owner of the agent it names, or none.
LEMMA LogRows ==
  ASSUME NEW k \in Tranches, NEW view, Sound(view, k), NEW row \in view.db["audit_logs"]
  PROVE  LET f == Filled(view.db, TenantOf(view.db), "audit_logs", row) IN
         \/ f.tenant_id = NULL
         \/ \E a \in view.db["agents"] : f.tenant_id = a.tenant_id /\ f.agent_uuid = a.id
<1> DEFINE d == view.db
           t == "audit_logs"
           f == Filled(d, TenantOf(d), t, row)
           tenant == TenantOf(d)[t][row]
           owner == [tenant_id |-> tenant, agent_uuid |-> IF tenant = NULL THEN NULL ELSE Uuid(d, row)]
           agent == From("agents", "agent_id")
<1>1. /\ t \in Tables /\ t \notin OwnedAlready /\ Registry[t].class # "SYSTEM_GLOBAL" /\ Authority(t) = {agent}
      /\ AgentText(TRUE) \in ToSet(Registry[t].paths)
  <2>1. Registry[t] = AuditLogs
    BY DEF Registry
  <2>2. AuditLogs.paths = <<AgentText(TRUE)>> /\ AuditLogs.class # "SYSTEM_GLOBAL"
    BY DEF AuditLogs, Entry
  <2>3. 1 \in DOMAIN AuditLogs.paths /\ AuditLogs.paths[1] = AgentText(TRUE)
    BY <2>2
  <2>4. AgentText(TRUE) \in ToSet(AuditLogs.paths)
    BY <2>3 DEF ToSet
  <2> QED BY <2>1, <2>2, <2>4 DEF Tables, Registry, OwnedAlready, Authority, BackfillAuthority
<1>2. "agent_id" \in DOMAIN row /\ DOMAIN row \cap {"tenant_id", "agent_uuid"} = {}
  <2>1. "agent_id" \in Columns(t)
    BY <1>1 DEF Columns, AgentText
  <2> QED BY <1>1, <2>1 DEF Sound, Legacy, RowsAreLegacy, IsLegacy
<1>3. f.tenant_id = owner.tenant_id /\ f.agent_uuid = owner.agent_uuid
  <2>1. f = Extended(row, owner)
    BY <1>1, <1>2 DEF Filled
  <2>2. DOMAIN owner = {"tenant_id", "agent_uuid"}
    OBVIOUS
  <2> HIDE DEF f, owner
  <2> QED BY <1>2, <2>1, <2>2 DEF Extended
<1>4. CASE Agreed(d, TenantOf(d), t, row) = {}
  <2>1. tenant = NULL
    BY <1>1, <1>4, BackfillFollows DEF Given
  <2> HIDE DEF f, tenant
  <2> QED BY <1>3, <2>1 DEF f
<1>5. CASE Agreed(d, TenantOf(d), t, row) # {}
  <2>1. agent.table = "agents" /\ ~ agent.optional
    BY DEF From
  <2> HIDE DEF agent
  <2>2. tenant \in Agreed(d, TenantOf(d), t, row)
    BY <1>1, <1>5, BackfillAgrees
  <2>3. PICK a \in Parents(d, agent, row) : TenantOf(d)["agents"][a] = tenant
    BY <1>1, <2>1, <2>2 DEF Agreed
  <2>4. a \in d["agents"] /\ a.agent_id = row.agent_id
    BY <2>1, <2>3 DEF Parents
  <2>5. a.tenant_id = tenant
    BY <2>3, <2>4, BackfillOfAgents
  <2>6. \A b \in d["agents"] : b.agent_id = row.agent_id <=> b = a
    <3>1. a.agent_id # NULL
      BY <2>4 DEF Sound, Legacy, AgentsAreOfTenants
    <3> QED BY <2>4, <3>1, AgentsAreOwned
  <2>7. Uuid(d, row) = a.id
    <3>1. (CHOOSE b \in d["agents"] : b.agent_id = row.agent_id) = a
      BY <2>4, <2>6
    <3> QED BY <2>4, <3>1 DEF Uuid
  <2>8. tenant # NULL
    BY <2>2, AgentsAssumption DEF Agreed
  <2>9. owner.tenant_id = a.tenant_id /\ owner.agent_uuid = a.id
    BY <2>5, <2>7, <2>8
  <2> HIDE DEF f, owner
  <2> QED BY <1>3, <2>4, <2>9 DEF f
<1> QED BY <1>4, <1>5

\* The composite key to the agents holds on every row.
LEMMA AgentKeysHold ==
  ASSUME NEW k \in Tranches, NEW view, Sound(view, k),
         NEW o \in AgentKeys(k), NEW row \in Backfilled(view.db)[o.table]
  PROVE  o.what = "key" /\ KeyHolds(Backfilled(view.db), row, o.columns, o.to, o.refs)
<1> DEFINE d == view.db
<1>1. PICK t \in (UpTo(k) \cap OfAnAgent) \cup {"audit_logs"} : o = KeyToAgent(t)
  BY DEF AgentKeys
<1>2. /\ o.what = "key" /\ o.table = t /\ o.columns = <<"tenant_id", "agent_uuid">>
      /\ o.to = "agents" /\ o.refs = <<"tenant_id", "id">>
  BY <1>1 DEF KeyToAgent, Key, AgentsTarget
<1>3. t \in Children \cup {"audit_logs"}
  BY DEF UpTo
<1>4. PICK r \in d[t] : row = Filled(d, TenantOf(d), t, r)
  BY <1>2, <1>3, FilledTables
<1>5. row.tenant_id = NULL \/ \E a \in d["agents"] : row.tenant_id = a.tenant_id /\ row.agent_uuid = a.id
  <2>1. CASE t = "audit_logs"
    BY <1>4, <2>1, LogRows
  <2>2. CASE t \in UpTo(k) \cap OfAnAgent
    BY <1>4, <2>2, FilledRows
  <2> QED BY <2>1, <2>2
<1>6. CASE row.tenant_id = NULL
  <2>1. ~ Has(row, <<"tenant_id", "agent_uuid">>)
    <3>1. 1 \in DOMAIN <<"tenant_id", "agent_uuid">> /\ <<"tenant_id", "agent_uuid">>[1] = "tenant_id"
      OBVIOUS
    <3> QED BY <1>6, <3>1 DEF Has
  <2> QED BY <1>2, <2>1 DEF KeyHolds
<1>7. CASE \E a \in d["agents"] : row.tenant_id = a.tenant_id /\ row.agent_uuid = a.id
  <2>1. PICK a \in d["agents"] : row.tenant_id = a.tenant_id /\ row.agent_uuid = a.id
    BY <1>7
  <2>2. a \in Backfilled(d)["agents"]
    BY FilledTables
  <2>3. SameTuple(row, <<"tenant_id", "agent_uuid">>, a, <<"tenant_id", "id">>)
    BY <2>1 DEF SameTuple
  <2> QED BY <1>2, <2>2, <2>3 DEF KeyHolds
<1> QED BY <1>5, <1>6, <1>7

\* So does every composite key to a parent the row names.
LEMMA TenantKeysHold ==
  ASSUME NEW k \in Tranches, NEW view, Sound(view, k),
         NEW o \in TenantKeys(k), NEW row \in Backfilled(view.db)[o.table]
  PROVE  o.what = "key" /\ KeyHolds(Backfilled(view.db), row, o.columns, o.to, o.refs)
<1> DEFINE d == view.db
<1>0. PICK t \in Followers \cap UpTo(k) : \E source \in Authority(t) :
         source.table # "agents" /\ o = Key(t, <<source.column, "tenant_id">>, source.table, IdTenant)
  BY DEF TenantKeys
<1>1. PICK source \in Authority(t) :
         source.table # "agents" /\ o = Key(t, <<source.column, "tenant_id">>, source.table, IdTenant)
  BY <1>0
<1>2. /\ o.what = "key" /\ o.table = t /\ o.columns = <<source.column, "tenant_id">>
      /\ o.to = source.table /\ o.refs = <<"id", "tenant_id">>
  BY <1>1 DEF Key, IdTenant
<1>3. t \in Children
  BY DEF Children
<1>4. PICK r \in d[t] : row = Filled(d, TenantOf(d), t, r)
  BY <1>2, <1>3, FilledTables
<1>5. PICK i \in DOMAIN Registry[t].paths : SourceOf(t, source, i)
  BY SourcesHavePaths DEF SourcesFact
<1>6. source.column \in Columns(t)
  <2>1. Registry[t].paths[i] \in ToSet(Registry[t].paths)
    BY DEF ToSet
  <2> QED BY <1>5, <2>1 DEF SourceOf, Columns
<1>7. row[source.column] = r[source.column] /\ row.tenant_id = TenantOf(d)[t][r]
  BY <1>3, <1>4, <1>6, FilledRows
<1>8. source.table \in UpTo(k) /\ source.table \in Children /\ source.table # "sessions"
  <2>1. source.table \in Children /\ source.table # "sessions"
    BY <1>1, <1>5 DEF SourceOf, Through, Children, Followers, AgentFirst, Plain
  <2> QED BY <2>1, ParentsAreUpTo
<1>9. SUFFICES ASSUME row[source.column] # NULL
               PROVE  \E parent \in Backfilled(d)[source.table] :
                        SameTuple(row, <<source.column, "tenant_id">>, parent, <<"id", "tenant_id">>)
  <2>1. <<source.column, "tenant_id">>[1] = source.column /\ 1 \in DOMAIN <<source.column, "tenant_id">>
    OBVIOUS
  <2> QED BY <1>2, <2>1 DEF KeyHolds, Has
<1>10. PICK p \in Parents(d, source, r) : TenantOf(d)[source.table][p] = TenantOf(d)[t][r]
  BY <1>7, <1>9, AllSettle DEF Agreed
<1>11. p \in d[source.table] /\ p.id = r[source.column]
  BY <1>1, <1>8, <1>10 DEF Parents
<1> DEFINE parent == Filled(d, TenantOf(d), source.table, p)
<1>12. parent.id = p.id /\ parent.tenant_id = TenantOf(d)[source.table][p]
  <2>1. "id" \in Columns(source.table)
    BY DEF Columns
  <2> QED BY <1>8, <1>11, <2>1, FilledRows
<1>13. parent \in Backfilled(d)[source.table]
  BY <1>8, <1>11, FilledTables
<1> HIDE DEF parent
<1>14. SameTuple(row, <<source.column, "tenant_id">>, parent, <<"id", "tenant_id">>)
  BY <1>7, <1>10, <1>11, <1>12 DEF SameTuple
<1> QED BY <1>13, <1>14

\* And the one from the working memory to its session.
LEMMA SessionKeyHolds ==
  ASSUME NEW k \in Tranches, NEW view, Sound(view, k), "working_memory" \in UpTo(k),
         NEW row \in Backfilled(view.db)["working_memory"]
  PROVE  KeyHolds(Backfilled(view.db), row, SessionIdentity, "sessions", SessionIdentity)
<1> DEFINE d == view.db
           w == "working_memory"
<1>1. /\ {w, "sessions"} \subseteq Children /\ {w, "sessions"} \subseteq OfAnAgent
      /\ {w, "sessions"} \subseteq UpTo(k)
  <2>1. {w, "sessions"} \subseteq Children /\ {w, "sessions"} \subseteq OfAnAgent
    BY DEF Children, Followers, AgentFirst, Plain, OfAnAgent
  <2>2. From("sessions", "session_id") \in Authority(w) /\ From("sessions", "session_id").table = "sessions"
    BY DEF Authority, BackfillAuthority, From
  <2> QED BY <2>1, <2>2, ParentsAreUpTo
<1>2. PICK r \in d[w] : row = Filled(d, TenantOf(d), w, r)
  BY <1>1, FilledTables
<1>3. PICK s \in d["sessions"] : /\ s.agent_id = r.agent_id /\ s.session_id = r.session_id
                                 /\ TenantOf(d)["sessions"][s] = TenantOf(d)[w][r]
  BY WorkingMemorySettles
<1> DEFINE parent == Filled(d, TenantOf(d), "sessions", s)
<1>4. "session_id" \in Columns(w) /\ "session_id" \in Columns("sessions")
  <2>1. Registry[w] = WorkingMemory /\ Registry["sessions"] = Sessions
    BY DEF Registry
  <2>2. /\ Unique(<<"agent_id", "session_id">>) \in WorkingMemory.contract
        /\ Unique(<<"agent_id", "session_id">>) \in Sessions.contract
    BY DEF WorkingMemory, Sessions, AgentChild, Entry
  <2>3. "session_id" \in ToSet(Unique(<<"agent_id", "session_id">>).columns)
    <3>1. Unique(<<"agent_id", "session_id">>).columns = <<"agent_id", "session_id">>
      BY DEF Unique
    <3>2. 2 \in DOMAIN <<"agent_id", "session_id">> /\ <<"agent_id", "session_id">>[2] = "session_id"
      OBVIOUS
    <3> QED BY <3>1, <3>2 DEF ToSet
  <2> QED BY <2>1, <2>2, <2>3 DEF Columns
<1>5. row.session_id = parent.session_id /\ row.tenant_id = parent.tenant_id
  BY <1>1, <1>2, <1>3, <1>4, FilledRows
<1>6. PICK a \in d["agents"] : /\ a.agent_id = r.agent_id /\ a.tenant_id = row.tenant_id
                               /\ row.agent_uuid = a.id
  BY <1>1, <1>2, FilledRows
<1>7. PICK b \in d["agents"] : /\ b.agent_id = s.agent_id /\ parent.agent_uuid = b.id
  BY <1>1, FilledRows
<1>8. a = b
  <2>1. r.agent_id # NULL
    BY WorkingMemorySettles DEF Settled, Names
  <2> QED BY <1>3, <1>6, <1>7, <2>1, AgentsAreOwned
<1>9. parent \in Backfilled(d)["sessions"]
  BY <1>1, FilledTables
<1> HIDE DEF parent
<1>10. SameTuple(row, SessionIdentity, parent, SessionIdentity)
  BY <1>5, <1>6, <1>7, <1>8 DEF SameTuple, SessionIdentity
<1> QED BY <1>9, <1>10 DEF KeyHolds

\* Whatever a tranche plans can be carried out, when it and the earlier ones are ready.
LEMMA SoundMigrates ==
  ASSUME NEW k \in Tranches, NEW view, Sound(view, k)
  PROVE  MigratesTranche(Backfilled(view.db), k)
<1> SUFFICES ASSUME NEW o \in ToSet(Planned[k]), NEW row \in Backfilled(view.db)[o.table]
             PROVE  CASE o.what = "key" -> KeyHolds(Backfilled(view.db), row, o.columns, o.to, o.refs)
                      [] o.what = "column" -> o.tightened => Has(row, o.columns)
                      [] OTHER -> TRUE
  BY DEF MigratesTranche
<1>1. o \in PlanObjects(k)
  BY PlanIsOfPlanObjects
<1>2. CASE o \in OwnerColumns(k)
  BY <1>2, ColumnsAreFilled
<1>3. CASE o \in LogColumns
  <2>1. PICK name : o = Nullable("audit_logs", name)
    BY <1>3 DEF LogColumns
  <2>2. o.what = "column" /\ o.tightened = FALSE
    BY <2>1 DEF Nullable, Column
  <2> QED BY <2>2
<1>4. CASE o \in Targets
  <2>1. PICK t \in Tables : \E columns \in {IdTenant, SessionIdentity} : o = Target(t, columns)
    BY <1>4 DEF Targets
  <2>2. PICK columns \in {IdTenant, SessionIdentity} : o = Target(t, columns)
    BY <2>1
  <2>3. Target(t, columns).what = "target"
    BY DEF Target
  <2>4. o.what = "target"
    BY <2>2, <2>3
  <2> QED BY <2>4
<1>5. CASE o \in AgentKeys(k)
  BY <1>5, AgentKeysHold
<1>6. CASE o \in TenantKeys(k)
  BY <1>6, TenantKeysHold
<1>7. CASE o \in SessionKeys(k)
  <2>0. o = SessionKey /\ "working_memory" \in UpTo(k)
    BY <1>7 DEF SessionKeys
  <2>1. /\ o.what = "key" /\ o.table = "working_memory" /\ o.columns = SessionIdentity
        /\ o.to = "sessions" /\ o.refs = SessionIdentity
    BY <2>0 DEF SessionKey, Key
  <2> QED BY <2>0, <2>1, SessionKeyHolds
<1> QED BY <1>1, <1>2, <1>3, <1>4, <1>5, <1>6, <1>7 DEF PlanObjects

\* A table reported neither for drift nor for a code that must be at zero is ready.
LEMMA ReportedReady ==
  ASSUME NEW view, NEW t \in Children \cup {"agents"},
         Finding(t, "SCHEMA_RELATIONSHIP_DRIFT") \notin Scan(view, t),
         \A code \in AtZero(t) : Finding(t, code) \notin Scan(view, t)
  PROVE  Ready(view, t)
<1> DEFINE drift == {Finding(t, "SCHEMA_RELATIONSHIP_DRIFT")}
           Reported(codes) == {Finding(t, code) : code \in codes}
<1>1. Registry[t].class # "SYSTEM_GLOBAL"
  <2>1. CASE t = "agents"
    BY <2>1 DEF Registry, Agents, Entry
  <2> QED BY <2>1, ListsRequire
<1>2. Scan(view, t) = IF ~ CheckSchemaRelationships(view, t) THEN drift
                      ELSE IF ~ VerifySchemaContract(view, t) THEN drift \cup Reported(ScanAmbiguity(view.db, t))
                      ELSE Reported(ScanRows(view.db, t) \cup ScanAmbiguity(view.db, t))
  BY <1>1 DEF Scan
<1>3. CheckSchemaRelationships(view, t) /\ VerifySchemaContract(view, t)
  <2> HIDE DEF Reported
  <2> QED BY <1>2
<1>4. \A code \in ScanRows(view.db, t) : Finding(t, code) \in Scan(view, t)
  BY <1>2, <1>3
<1> QED BY <1>3, <1>4 DEF Ready

\* When the audit is done, its findings are what the snapshot must be judged by.
LEMMA SoundFrom ==
  ASSUME CleanInv, audit.phase = "done", NEW k,
         \A t \in UpTo(k) \cup {"agents"} :
           /\ Finding(t, "SCHEMA_RELATIONSHIP_DRIFT") \notin audit.findings
           /\ \A code \in AtZero(t) : Finding(t, code) \notin audit.findings
  PROVE  Sound(audit, k)
<1>1. ASSUME NEW t \in UpTo(k) \cup {"agents"}, audit.db[t] # {}
      PROVE  Ready(audit, t)
  <2>1. t \in Children \cup {"agents"}
    BY DEF UpTo
  <2>2. t \in Tables
    BY <2>1, ListsRequire, AgentsColumns
  <2>3. Scan(audit, t) \subseteq audit.findings
    BY <1>1, <2>2 DEF CleanInv, AllFound
  <2> QED BY <2>1, <2>3, ReportedReady
<1> QED BY <1>1 DEF Sound, CleanInv

\* A report without a blocking finding is permission to migrate.
LEMMA CleanReportsMigrate == IInv /\ CleanInv => CleanMigrates
<1> SUFFICES ASSUME IInv, CleanInv, audit.phase = "done", ~ IsBlocked(audit.findings), NEW k \in Tranches
             PROVE  MigratesTranche(Backfilled(audit.db), k)
  BY DEF CleanMigrates
<1>1. ASSUME NEW t \in UpTo(k) \cup {"agents"}, NEW code, code # "MALFORMED_LEGACY_IDENTIFIER"
      PROVE  Finding(t, code) \notin audit.findings
  <2>1. Finding(t, code).blocking = TRUE
    BY <1>1 DEF Finding
  <2> QED BY <2>1 DEF IsBlocked
<1>2. \A t \in UpTo(k) \cup {"agents"} : "MALFORMED_LEGACY_IDENTIFIER" \notin AtZero(t)
  <2>1. "MALFORMED_LEGACY_IDENTIFIER" \notin AtZero("agents")
    BY DEF AtZero, Registry, Agents, Entry
  <2> QED BY <2>1, ListsRequire DEF UpTo
<1>3. Sound(audit, k)
  BY <1>1, <1>2, SoundFrom
<1> QED BY <1>3, SoundMigrates

\* So is READY, of a tranche and of every earlier one, where no child was found under
\* a parent of another tenant.
LEMMA ReadyReportsMigrate == IInv /\ CleanInv => ReadyUnlessCrossed
<1> DEFINE ready == AssessTranches(audit.findings)
<1> SUFFICES ASSUME IInv, CleanInv, audit.phase = "done",
                    \A f \in audit.findings : f.code # "CROSS_TENANT_PARENT_CHILD",
                    NEW k \in Tranches, \A earlier \in 1 .. k : ready[earlier]
             PROVE  MigratesTranche(Backfilled(audit.db), k)
  BY DEF ReadyUnlessCrossed
<1>1. ASSUME NEW t \in UpTo(k) \cup {"agents"}
      PROVE  t \in Tables /\ Registry[t].tranche \in 1 .. k /\ "MALFORMED_LEGACY_IDENTIFIER" \notin AtZero(t)
  <2>1. k \in 1 .. 6
    BY DEF Tranches, T1, TFinal
  <2>2. CASE t = "agents"
    <3>1. "MALFORMED_LEGACY_IDENTIFIER" \notin AtZero("agents")
      BY DEF AtZero, Registry, Agents, Entry
    <3> QED BY <2>1, <2>2, <3>1, AgentsColumns, TranchesAre
  <2>3. CASE t \in UpTo(k)
    <3>1. t \in Children /\ Registry[t].tranche <= k
      BY <2>3 DEF UpTo
    <3> QED BY <2>1, <3>1, ListsRequire
  <2> QED BY <2>2, <2>3
<1>2. ASSUME NEW t \in UpTo(k) \cup {"agents"}, NEW code, Finding(t, code) \in audit.findings,
             code # "MALFORMED_LEGACY_IDENTIFIER"
      PROVE  code # "SCHEMA_RELATIONSHIP_DRIFT" /\ code \notin Registry[t].codes
  <2>1. Finding(t, code).blocking = TRUE /\ Finding(t, code).code = code /\ Finding(t, code).table = t
    BY <1>2 DEF Finding
  <2>2. Registry[t].tranche \in Tranches
    BY <1>1 DEF Tranches, T1, TFinal
  <2>3. ready[Registry[t].tranche]
    BY <1>1
  <2>4. \A n \in Tranches : ready[n] =>
          \A f \in {f \in audit.findings : f.blocking} :
            f.table \in Tables /\ Registry[f.table].tranche = n =>
              f.code # "SCHEMA_RELATIONSHIP_DRIFT" /\ f.code \notin Registry[f.table].codes
    BY DEF AssessTranches
  <2> HIDE DEF ready
  <2>5. \A f \in {f \in audit.findings : f.blocking} :
          f.table \in Tables /\ Registry[f.table].tranche = Registry[t].tranche =>
            f.code # "SCHEMA_RELATIONSHIP_DRIFT" /\ f.code \notin Registry[f.table].codes
    BY <2>2, <2>3, <2>4
  <2>6. Finding(t, code) \in {f \in audit.findings : f.blocking} /\ t \in Tables
    BY <1>1, <1>2, <2>1
  <2> QED BY <2>1, <2>5, <2>6
<1>3. ASSUME NEW t \in UpTo(k) \cup {"agents"}, NEW code \in AtZero(t), Finding(t, code) \in audit.findings
      PROVE  FALSE
  <2>1. Finding(t, code).code = code
    BY DEF Finding
  <2>2. code # "CROSS_TENANT_PARENT_CHILD"
    BY <1>3, <2>1
  <2>3. code # "ORPHANED_MEMORY_REFERENCE"
    BY <1>3, <2>1 DEF IInv, UnreachableNeverFires
  <2> QED BY <1>1, <1>2, <1>3, <2>2, <2>3 DEF AtZero
<1>4. Sound(audit, k)
  BY <1>2, <1>3, SoundFrom
<1> QED BY <1>4, SoundMigrates

\* The audit's second invariant is one.
LEMMA CleanInvariance == Spec => []CleanInv
<1>1. Init => CleanInv
  BY CleanInit
<1>2. IInv /\ IInv' /\ CleanInv /\ [Next]_vars => CleanInv'
  BY CleanNext
<1> QED BY <1>1, <1>2, Invariance, PTL DEF Spec

\* A report that blocks nothing is permission to migrate: whatever was written and
\* whatever the schema lost before or during the scan, every planned column has a
\* value on every row the backfill leaves, and every planned key finds its row.
\* Code: audit::run and assess_tranches, plan::PLANNED_OBJECTS and
\* plan::BACKFILL_AUTHORITY.
THEOREM CleanReports == Spec => []CleanMigrates
BY CleanInvariance, Invariance, CleanReportsMigrate, PTL

\* The same of a tranche that reads READY with every earlier one, whatever still
\* blocks the later ones, if no child was found under a parent of another tenant:
\* that code, which four lists lack, is all that READY does not ask for.
\* Code: audit::assess_tranches and the required_zero_codes of the registry.
THEOREM ReadyReports == Spec => []ReadyUnlessCrossed
BY CleanInvariance, Invariance, ReadyReportsMigrate, PTL
=============================================================================
