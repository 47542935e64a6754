-------------------------- MODULE TenancyRegistry --------------------------
(***************************************************************************)
(* The tenancy decisions of src/tenancy/inventory.rs (one entry for every  *)
(* table: how a row reaches its owner, what the schema must guarantee for  *)
(* that, which audit codes must be at zero before the table is touched)    *)
(* and of src/tenancy/plan.rs (what the migration builds and fills in).    *)
(* Pure data; TenancyAudit reads a database through it.                    *)
(***************************************************************************)
EXTENDS Naturals, Sequences, SequencesExt, TLC

-----------------------------------------------------------------------------
(* Ownership paths, by the column they start from.                         *)

TenantColumn(nullable) == [kind |-> "TenantColumn", column |-> "tenant_id", nullable |-> nullable]
AgentText(nullable) == [kind |-> "AgentText", column |-> "agent_id", nullable |-> nullable]
AgentUuid == [kind |-> "AgentUuid", column |-> "agent_uuid", nullable |-> FALSE]
SessionPath == [kind |-> "Session", column |-> "session_id", nullable |-> FALSE]
MemoryPath(column, nullable) == [kind |-> "Memory", column |-> column, nullable |-> nullable]
EntityPath == [kind |-> "Entity", column |-> "entity_id", nullable |-> FALSE]
ArchivalBatchPath == [kind |-> "ArchivalBatch", column |-> "archival_batch_id", nullable |-> TRUE]
PolicyPath == [kind |-> "Policy", column |-> "policy_id", nullable |-> TRUE]

\* The table a derived path goes through on its way to the agent.
Through == [Memory |-> "memories", Entity |-> "entities",
            ArchivalBatch |-> "archival_batches", Policy |-> "rmk_policies"]

\* What the live schema must guarantee: foreign keys and unique tuples.
Unique(columns) == [columns |-> columns, to |-> "", refs |-> <<>>]
ForeignKey(columns, to, refs) == [columns |-> columns, to |-> to, refs |-> refs]
References(column, to) == ForeignKey(<<column>>, to, <<"id">>)

-----------------------------------------------------------------------------
(* The codes that must be at zero for a table.                             *)

OwnershipCodes == {"LEGACY_UNMAPPED", "ORPHANED_AGENT_REFERENCE", "UNMAPPED_AGENT",
                   "UNRESOLVABLE_OWNER", "NULL_OWNERSHIP_LINK"}

SessionChildCodes == OwnershipCodes \cup {"ORPHANED_SESSION_REFERENCE", "OWNERSHIP_PATH_DISAGREEMENT"}

MemoriesCodes == OwnershipCodes \cup {"OWNERSHIP_PATH_DISAGREEMENT"}

LineageCodes == OwnershipCodes \cup {"CROSS_TENANT_PARENT_CHILD", "OWNERSHIP_PATH_DISAGREEMENT"}

CoAccessCodes == LineageCodes \ {"ORPHANED_AGENT_REFERENCE"}

-----------------------------------------------------------------------------
(* The registry. A canonical path first, then the paths that must agree.   *)

T1 == 1
T2 == 2
T3 == 3
T4 == 4
T5 == 5
TFinal == 6
Tranches == T1 .. TFinal

Entry(class, paths, contract, tranche, codes) ==
    [class |-> class, paths |-> paths, contract |-> contract, tranche |-> tranche, codes |-> codes]

AgentChild(contract, tranche) ==
    Entry("DIRECT_AGENT_CHILD", <<AgentText(FALSE)>>, contract, tranche, OwnershipCodes)

AgentTenancyMigrations == Entry("SYSTEM_GLOBAL", <<>>, {}, TFinal, {"GLOBAL_SCOPE_UNVERIFIED"})

Agents ==
    Entry("TENANT_ROOT", <<TenantColumn(TRUE)>>,
          {Unique(<<"agent_id">>), Unique(<<"tenant_id", "id">>)},
          T1, {"LEGACY_UNMAPPED", "NULL_OWNERSHIP_LINK", "UNMAPPED_AGENT"})

AmpControllerState == AgentChild({}, T5)

ArchivalBatches == AgentChild({ForeignKey(<<"agent_id">>, "agents", <<"agent_id">>)}, T1)

AuditLogs ==
    Entry("DIRECT_AGENT_CHILD", <<AgentText(TRUE)>>, {}, T1,
          {"ORPHANED_AGENT_REFERENCE", "UNMAPPED_AGENT", "UNRESOLVABLE_OWNER"})

CoAccessEdges ==
    Entry("MEMORY_LINEAGE_CHILD", <<MemoryPath("memory_a", FALSE), MemoryPath("memory_b", FALSE)>>,
          {References("memory_a", "memories"), References("memory_b", "memories")}, T4, CoAccessCodes)

CognitiveHypervisorTimeline == AgentChild({}, T3)

CredentialAgentGrants ==
    Entry("DIRECT_AGENT_CHILD", <<AgentUuid, TenantColumn(FALSE)>>,
          {ForeignKey(<<"tenant_id", "agent_uuid">>, "agents", <<"tenant_id", "id">>),
           ForeignKey(<<"credential_id", "tenant_id">>, "credentials", <<"id", "tenant_id">>)},
          T1, {"OWNERSHIP_PATH_DISAGREEMENT", "SCHEMA_RELATIONSHIP_DRIFT"})

Credentials ==
    Entry("TENANT_GLOBAL", <<TenantColumn(FALSE)>>, {Unique(<<"id", "tenant_id">>)},
          T1, {"SCHEMA_RELATIONSHIP_DRIFT"})

Entities == AgentChild({}, T1)

ExtractionJobs == AgentChild({}, T3)

Memories ==
    Entry("DIRECT_AGENT_CHILD", <<AgentText(FALSE), ArchivalBatchPath>>,
          {References("archival_batch_id", "archival_batches")}, T3, MemoriesCodes)

MemoryConflicts ==
    Entry("DIRECT_AGENT_CHILD",
          <<AgentText(FALSE), MemoryPath("memory_a", TRUE), MemoryPath("memory_b", TRUE)>>,
          {References("memory_a", "memories"), References("memory_b", "memories")}, T4, OwnershipCodes)

MemoryEntityLinks ==
    Entry("MEMORY_LINEAGE_CHILD", <<MemoryPath("memory_id", FALSE), AgentText(FALSE), EntityPath>>,
          {References("memory_id", "memories"), References("entity_id", "entities")}, T4, LineageCodes)

MemoryGraph == AgentChild({}, T1)

MemoryRetrievalLogs == AgentChild({}, T3)

MemoryVersions ==
    Entry("MEMORY_LINEAGE_CHILD", <<MemoryPath("memory_id", FALSE), AgentText(FALSE)>>,
          {References("memory_id", "memories")}, T4, LineageCodes)

RetrievalFeedback ==
    Entry("DIRECT_AGENT_CHILD", <<AgentText(FALSE), MemoryPath("memory_id", TRUE)>>,
          {References("memory_id", "memories")}, T4, OwnershipCodes)

RmkEpisodes ==
    Entry("DIRECT_AGENT_CHILD", <<AgentText(FALSE), PolicyPath>>,
          {References("policy_id", "rmk_policies")}, T5, OwnershipCodes)

RmkPolicies == AgentChild({}, T1)

Sessions ==
    AgentChild({Unique(<<"agent_id", "session_id">>),
                ForeignKey(<<"agent_id">>, "agents", <<"agent_id">>)}, T2)

TenancyBackfillCheckpoints == Entry("SYSTEM_GLOBAL", <<>>, {}, T1, {"GLOBAL_SCOPE_UNVERIFIED"})

WorkingMemory ==
    Entry("SESSION_CHILD", <<SessionPath, AgentText(FALSE)>>,
          {Unique(<<"agent_id", "session_id">>)}, T2, SessionChildCodes)

Registry ==
    [agent_tenancy_migrations |-> AgentTenancyMigrations,
     agents |-> Agents,
     amp_controller_state |-> AmpControllerState,
     archival_batches |-> ArchivalBatches,
     audit_logs |-> AuditLogs,
     co_access_edges |-> CoAccessEdges,
     cognitive_hypervisor_timeline |-> CognitiveHypervisorTimeline,
     credential_agent_grants |-> CredentialAgentGrants,
     credentials |-> Credentials,
     entities |-> Entities,
     extraction_jobs |-> ExtractionJobs,
     memories |-> Memories,
     memory_conflicts |-> MemoryConflicts,
     memory_entity_links |-> MemoryEntityLinks,
     memory_graph |-> MemoryGraph,
     memory_retrieval_logs |-> MemoryRetrievalLogs,
     memory_versions |-> MemoryVersions,
     retrieval_feedback |-> RetrievalFeedback,
     rmk_episodes |-> RmkEpisodes,
     rmk_policies |-> RmkPolicies,
     sessions |-> Sessions,
     tenancy_backfill_checkpoints |-> TenancyBackfillCheckpoints,
     working_memory |-> WorkingMemory]
Tables == DOMAIN Registry

\* The registry is ordered by table name: the agents come before every
\* table that reaches its owner through them.
RegistryOrder ==
    <<"agent_tenancy_migrations", "agents", "amp_controller_state", "archival_batches", "audit_logs",
      "co_access_edges", "cognitive_hypervisor_timeline", "credential_agent_grants", "credentials",
      "entities", "extraction_jobs", "memories", "memory_conflicts", "memory_entity_links",
      "memory_graph", "memory_retrieval_logs", "memory_versions", "retrieval_feedback",
      "rmk_episodes", "rmk_policies", "sessions", "tenancy_backfill_checkpoints", "working_memory">>
Position == [t \in Tables |-> CHOOSE i \in DOMAIN RegistryOrder : RegistryOrder[i] = t]

-----------------------------------------------------------------------------
(* The planned objects, in the order a tranche's PREPARE builds them.      *)

\* A column is tightened to NOT NULL at the end unless it stays nullable.
Column(table, name, tightened) ==
    [what |-> "column", table |-> table, columns |-> <<name>>, to |-> "", refs |-> <<>>, tightened |-> tightened]

Target(table, columns) ==
    [what |-> "target", table |-> table, columns |-> columns, to |-> "", refs |-> <<>>, tightened |-> FALSE]

Key(table, columns, to, refs) ==
    [what |-> "key", table |-> table, columns |-> columns, to |-> to, refs |-> refs, tightened |-> FALSE]

AgentsTarget == <<"tenant_id", "id">>
IdTenant == <<"id", "tenant_id">>
SessionIdentity == <<"tenant_id", "agent_uuid", "session_id">>

\* Both ownership columns and the composite key to the agents.
OwnershipColumns(table, tightened) ==
    <<Column(table, "agent_uuid", tightened), Column(table, "tenant_id", tightened)>>
AgentKey(table) == <<Key(table, <<"tenant_id", "agent_uuid">>, "agents", AgentsTarget)>>
Owned(table) == OwnershipColumns(table, TRUE) \o AgentKey(table)
\* The composite key from a parent reference and the tenant to that parent.
TenantKey(table, column, to) == <<Key(table, <<column, "tenant_id">>, to, IdTenant)>>
LineageColumn(table) == <<Column(table, "tenant_id", TRUE)>>

PlannedTranche1 ==
    OwnershipColumns("archival_batches", TRUE)
        \o <<Target("archival_batches", IdTenant)>> \o AgentKey("archival_batches")
    \o OwnershipColumns("audit_logs", FALSE) \o AgentKey("audit_logs")
    \o OwnershipColumns("entities", TRUE) \o <<Target("entities", IdTenant)>> \o AgentKey("entities")
    \o Owned("memory_graph")
    \o OwnershipColumns("rmk_policies", TRUE)
        \o <<Target("rmk_policies", IdTenant)>> \o AgentKey("rmk_policies")

PlannedTranche2 ==
    OwnershipColumns("sessions", TRUE)
        \o <<Target("sessions", SessionIdentity)>> \o AgentKey("sessions")
    \o Owned("working_memory")
        \o <<Key("working_memory", SessionIdentity, "sessions", SessionIdentity)>>

PlannedTranche3 ==
    OwnershipColumns("memories", TRUE)
        \o <<Target("memories", IdTenant)>> \o AgentKey("memories")
        \o TenantKey("memories", "archival_batch_id", "archival_batches")
    \o Owned("extraction_jobs") \o Owned("memory_retrieval_logs")
    \o Owned("cognitive_hypervisor_timeline")

PlannedTranche4 ==
    LineageColumn("memory_versions") \o TenantKey("memory_versions", "memory_id", "memories")
    \o LineageColumn("memory_entity_links")
        \o TenantKey("memory_entity_links", "memory_id", "memories")
        \o TenantKey("memory_entity_links", "entity_id", "entities")
    \o LineageColumn("co_access_edges")
        \o TenantKey("co_access_edges", "memory_a", "memories")
        \o TenantKey("co_access_edges", "memory_b", "memories")
    \o Owned("memory_conflicts")
        \o TenantKey("memory_conflicts", "memory_a", "memories")
        \o TenantKey("memory_conflicts", "memory_b", "memories")
    \o Owned("retrieval_feedback") \o TenantKey("retrieval_feedback", "memory_id", "memories")

PlannedTranche5 ==
    Owned("amp_controller_state")
    \o Owned("rmk_episodes") \o TenantKey("rmk_episodes", "policy_id", "rmk_policies")

\* The last step tightens the agents' own tenant.
PlannedFinal == <<Column("agents", "tenant_id", TRUE)>>

Planned == <<PlannedTranche1, PlannedTranche2, PlannedTranche3, PlannedTranche4, PlannedTranche5,
             PlannedFinal>>

\* The unique tuple the plan counts on without building it.
AlreadyCurrent == {Target("agents", AgentsTarget)}

\* Foreign keys that name a tuple nothing makes unique are refused outright.
Buildable(tranche) ==
    LET before == FoldLeft(\o, <<>>, SubSeq(Planned, 1, tranche - 1))
        here == Planned[tranche]
    IN  \A i \in DOMAIN here : here[i].what = "key" =>
            Target(here[i].to, here[i].refs) \in
                AlreadyCurrent \cup ToSet(before) \cup ToSet(SubSeq(here, 1, i - 1))

-----------------------------------------------------------------------------
(* Where the backfill takes a row's tenant from, and what must agree.      *)

\* A source that must be there, and one that only counts where it is named.
From(table, column) == [table |-> table, column |-> column, optional |-> FALSE]
IfNamed(table, column) == [table |-> table, column |-> column, optional |-> TRUE]

BackfillAuthority ==
    [memory_entity_links |->
        {From("memories", "memory_id"), From("entities", "entity_id"), From("agents", "agent_id")},
     co_access_edges |-> {From("memories", "memory_a"), From("memories", "memory_b")},
     memory_versions |-> {From("memories", "memory_id")},
     memory_conflicts |->
        {From("agents", "agent_id"), IfNamed("memories", "memory_a"), IfNamed("memories", "memory_b")},
     retrieval_feedback |-> {From("agents", "agent_id"), IfNamed("memories", "memory_id")},
     memories |-> {From("agents", "agent_id"), IfNamed("archival_batches", "archival_batch_id")},
     rmk_episodes |-> {From("agents", "agent_id"), IfNamed("rmk_policies", "policy_id")},
     working_memory |-> {From("sessions", "session_id")}]

\* A table with no agreement of its own follows its agent.
Authority(table) ==
    IF table \in DOMAIN BackfillAuthority THEN BackfillAuthority[table]
    ELSE {From("agents", "agent_id")}

\* The parents a table's bridge trigger resolves a new row's owner from.
Transition ==
    [table \in {"archival_batches", "audit_logs", "entities", "memory_graph", "rmk_policies", "sessions",
                "extraction_jobs", "memory_retrieval_logs", "cognitive_hypervisor_timeline",
                "amp_controller_state"} |-> {"agents"}]
    @@ [working_memory |-> {"sessions"},
        memories |-> {"agents", "archival_batches"},
        memory_versions |-> {"memories"},
        memory_entity_links |-> {"memories", "entities", "agents"},
        co_access_edges |-> {"memories"},
        memory_conflicts |-> {"agents", "memories"},
        retrieval_feedback |-> {"agents", "memories"},
        rmk_episodes |-> {"agents", "rmk_policies"}]

\* A new row and an old one are owned by the same authority, and every table
\* that gets ownership columns has a bridge.
BridgesMatchBackfill ==
    /\ \A table \in DOMAIN Transition : Transition[table] = {s.table : s \in Authority(table)}
    /\ DOMAIN Transition =
         {o.table : o \in UNION {ToSet(Planned[tranche]) : tranche \in T1 .. T5}}

\* Codes the plan says cannot fire, on the tables it says it of.
UnreachableRequiredZero ==
    {<<"memories", "ORPHANED_SESSION_REFERENCE">>, <<"co_access_edges", "ORPHANED_MEMORY_REFERENCE">>,
     <<"memory_entity_links", "ORPHANED_MEMORY_REFERENCE">>,
     <<"memory_versions", "ORPHANED_MEMORY_REFERENCE">>,
     <<"co_access_edges", "ORPHANED_AGENT_REFERENCE">>,
     <<"agents", "FUTURE_TENANT_UNIQUENESS_COLLISION">>}
=============================================================================
