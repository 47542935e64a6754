--------------------------- MODULE MCTenancyAudit ---------------------------
(* Instances of TenancyAudit for TLC: two agents of two tenants, and every *)
(* shape of row their children can have.                                   *)
EXTENDS TenancyAudit

\* Agent u1 may be unowned or of tenant t1; u2 may also share its name once
\* nothing forbids it.  "ghost" names no agent, "" is a blank name.
AgentRows ==
    [id : {"u1"}, agent_id : {"a1"}, tenant_id : {NULL, "t1"}]
    \cup [id : {"u2"}, agent_id : {"a2"}, tenant_id : {"t1", "t2"}]
    \cup {[id |-> "u2", agent_id |-> "a1", tenant_id |-> "t2"]}
Names == {"a1", "a2"}

MCTenants == {"t1", "t2"}

MCUniverse ==
    [agents |-> AgentRows,
     archival_batches |-> [id : {"b1"}, agent_id : Names],
     audit_logs |-> [id : {"l1"}, agent_id : {"a1", "ghost", NULL}],
     co_access_edges |-> {[id |-> "e1", memory_a |-> "m1", memory_b |-> "m2"]},
     entities |-> [id : {"n1"}, agent_id : {"a1", "a2", "ghost"}],
     memories |-> [id : {"m1"}, agent_id : {"a1", "ghost", NULL}, archival_batch_id : {NULL, "b1"}]
                  \cup [id : {"m2"}, agent_id : {"a2"}, archival_batch_id : {NULL}],
     memory_conflicts |-> [id : {"c1"}, agent_id : {"a1"}, memory_a : {"m1", NULL}, memory_b : {"m2"}],
     memory_entity_links |-> [id : {"k1"}, memory_id : {"m1"}, agent_id : Names, entity_id : {"n1"}],
     memory_versions |-> [id : {"v1"}, memory_id : {"m1", "m3"}, agent_id : Names],
     retrieval_feedback |-> [id : {"f1"}, agent_id : Names, memory_id : {"m1"}],
     rmk_policies |-> [id : {"p1"}, agent_id : {"a1", "a2", ""}],
     rmk_episodes |-> [id : {"x1"}, agent_id : Names, policy_id : {NULL, "p1"}],
     amp_controller_state |-> [id : {"s1"}, agent_id : {"a1", "ghost"}],
     sessions |-> [id : {"s1"}, agent_id : Names, session_id : {"z"}],
     working_memory |-> [id : {"w1"}, agent_id : {"a1"}, session_id : {"z"}],
     credentials |-> [id : {"d1"}, tenant_id : MCTenants],
     credential_agent_grants |->
        [id : {"g1"}, agent_uuid : {"u1", "u2"}, credential_id : {"d1"}, tenant_id : MCTenants]]

\* What the schema may have lost.
MCDroppable ==
    {<<"agents", Unique(<<"agent_id">>)>>, <<"memory_versions", References("memory_id", "memories")>>}
MCRelaxable == {<<"memories", "agent_id">>}

\* Tables that are looked at together.
MCFamilies ==
    {{"agents", "archival_batches", "memories", "memory_versions"},
     {"agents", "memories", "entities", "memory_entity_links"},
     {"agents", "memories", "co_access_edges"},
     {"agents", "memories", "memory_conflicts"},
     {"agents", "memories", "retrieval_feedback"},
     {"agents", "sessions", "working_memory", "audit_logs"},
     {"agents", "rmk_policies", "rmk_episodes"},
     {"agents", "amp_controller_state"},
     {"agents", "credentials", "credential_agent_grants"}}
=============================================================================
