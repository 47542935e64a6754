---------------------------- MODULE AgentGrants ----------------------------
(***************************************************************************)
(* Which agents a credential may act for: src/credentials/grants.rs, the   *)
(* tables, keys and triggers of migrations 0029 to 0031, and the schema    *)
(* contract of src/credentials/store.rs that a start verifies.             *)
(*                                                                         *)
(* A credential is restricted to the agents its grants name or tenant-wide *)
(* and never both.  Two triggers keep that: the one on grants reads        *)
(* tenant_wide under FOR SHARE, the one on credentials looks for grants    *)
(* when tenant_wide turns on.  A statement is modelled in the steps at     *)
(* which another one can come between: its begin (the snapshot it reads    *)
(* by), its trigger and keys (the row locks it waits for and then holds)   *)
(* and its commit.  Psql is a writer like the kernel, and alone changes    *)
(* tenant_wide of an existing credential; it may also alter the schema     *)
(* while no kernel is up, and a start then verifies what it left.          *)
(***************************************************************************)
EXTENDS Naturals, FiniteSets

CONSTANTS CredentialIds, Agents, Tenants, Writers,
          Absent,     \* no such row
          Unmapped    \* agents.tenant_id IS NULL

ASSUME NullsAssumption ==
  /\ Absent \notin Tenants /\ Unmapped \notin Tenants /\ Absent # Unmapped
  /\ Absent \notin [tenant : Tenants, wide : BOOLEAN, revoked : BOOLEAN]

VARIABLES credentials,  \* rows of credentials
          agents,       \* agents.tenant_id of each row
          grants,       \* rows of credential_agent_grants
          schema,       \* what the schema has lost, "sound" if nothing
          up,           \* a kernel runs, so verify_schema has passed
          unchecked,    \* history: credentials written past a trigger that was lost
          tx            \* the statement of each writer

grantsVars == <<credentials, agents, grants, schema, up, unchecked, tx>>

Row == [tenant : Tenants, wide : BOOLEAN, revoked : BOOLEAN]

Grant == [credential : CredentialIds, tenant : Tenants, agent : Agents]

\* Migrations 0030 and 0031: the ways the mutual exclusion and the composite key
\* can be lost under a restore, a bulk load or an ALTER.
Losses == {"grant_trigger_disabled", "wide_trigger_disabled", "wide_body_replaced",
           "wide_function_stable", "agent_key_by_id", "unique_id_tenant_dropped"}

NoStatement == [op |-> "none", pc |-> "idle"]

Statement == {NoStatement}
  \cup [op : {"grant"}, pc : {"begun", "held", "refused"}, row : Grant, hand : BOOLEAN, share : BOOLEAN]
  \cup [op : {"widen", "narrow", "revoke"}, pc : {"begun", "held", "refused"},
        credential : CredentialIds, seen : BOOLEAN]
  \cup [op : {"delete"}, pc : {"held"}, agent : Agents]

GrantsInit ==
  /\ credentials = [c \in CredentialIds |-> Absent]
  /\ agents \in [Agents -> Tenants \cup {Unmapped}]
  /\ grants = {} /\ schema = "sound" /\ up = FALSE /\ unchecked = {}
  /\ tx = [w \in Writers |-> NoStatement]

GrantsOf(c) == {g \in grants : g.credential = c}

------------------------------------------------------------------------------
(* authorize_agent: one statement over the three tables, the tenant taken from
   the authenticated context. *)

AuthorizeAgent(c, tenant, a) ==
  IF credentials[c] = Absent THEN "denied:credential_not_found"
  ELSE IF credentials[c].tenant # tenant THEN "denied:credential_not_found"
  ELSE IF credentials[c].wide /\ GrantsOf(c) # {} THEN "denied:contradictory_mode"
  ELSE IF agents[a] # tenant THEN "denied:agent_outside_tenant"
  ELSE IF credentials[c].wide THEN "granted:tenant_wide"
  ELSE IF [credential |-> c, tenant |-> tenant, agent |-> a] \in grants THEN "granted:explicit"
  ELSE "denied:no_grant"

\* Mutation: a credential without grants is not restricted.
AuthorizeUnlessRestricted(c, tenant, a) ==
  IF credentials[c] = Absent THEN "denied:credential_not_found"
  ELSE IF credentials[c].tenant # tenant \/ agents[a] # tenant THEN "denied:agent_outside_tenant"
  ELSE IF GrantsOf(c) = {} THEN "granted:tenant_wide"
  ELSE IF [credential |-> c, tenant |-> tenant, agent |-> a] \in grants THEN "granted:explicit"
  ELSE "denied:no_grant"

Authorize(c, tenant, a) == AuthorizeAgent(c, tenant, a)

MayActFor(c, a) ==
  /\ credentials[c] # Absent
  /\ Authorize(c, credentials[c].tenant, a) \in {"granted:explicit", "granted:tenant_wide"}

------------------------------------------------------------------------------
(* Locks.  An update of a credential, a FOR SHARE on it, an agent being deleted
   and the FOR KEY SHARE of a grant's keys are held to the commit. *)

Held(ops) == {w \in Writers : tx[w].pc = "held" /\ tx[w].op \in ops}

Updating(c) == \E w \in Held({"widen", "narrow", "revoke"}) : tx[w].credential = c

Shared(c) == \E w \in Held({"grant"}) : tx[w].share /\ tx[w].row.credential = c

Deleting(a) == \E w \in Held({"delete"}) : tx[w].agent = a

Referenced(a) == \E w \in Held({"grant"}) : tx[w].row.agent = a

------------------------------------------------------------------------------
(* grant and its trigger credential_agent_grants_reject_tenant_wide *)

\* FOR SHARE waits for an UPDATE of the credential and reads what it left.
LocksShare(c) == ~Updating(c)

\* Mutation: the trigger reads tenant_wide without a lock.
LocksNothing(c) == TRUE

ShareLock(c) == LocksShare(c)

GrantTriggerFires == schema # "grant_trigger_disabled"

TenantWide(c) == credentials[c] # Absent /\ credentials[c].wide

OfTheirTenant(g) ==
  /\ credentials[g.credential] # Absent
  /\ credentials[g.credential].tenant = g.tenant

\* Both keys are composite: one tenant must be the credential's and the agent's.
\* Dropping UNIQUE (id, tenant_id) takes the key that needs it along.
CompositeKeysHold(g) ==
  /\ schema # "unique_id_tenant_dropped" => OfTheirTenant(g)
  /\ IF schema = "agent_key_by_id" THEN agents[g.agent] # Absent ELSE agents[g.agent] = g.tenant

\* Mutation: the agent's key names agents (id) alone.
KeysHoldById(g) ==
  /\ schema # "unique_id_tenant_dropped" => OfTheirTenant(g)
  /\ agents[g.agent] # Absent

KeysHold(g) == CompositeKeysHold(g)

\* The primary key is (credential_id, agent_uuid): the tenant is no part of it.
Duplicate(g) == \E h \in grants : h.credential = g.credential /\ h.agent = g.agent

InFlight(g) == \E w \in Held({"grant"}) :
  tx[w].row.credential = g.credential /\ tx[w].row.agent = g.agent

BeginGrant(w) ==
  \E g \in Grant, hand \in BOOLEAN :
    /\ tx[w] = NoStatement /\ (hand \/ up)
    /\ tx' = [tx EXCEPT ![w] = [op |-> "grant", pc |-> "begun", row |-> g, hand |-> hand, share |-> FALSE]]
    /\ UNCHANGED <<credentials, agents, grants, schema, up, unchecked>>

InsertGrant(w) ==
  /\ tx[w].op = "grant" /\ tx[w].pc = "begun"
  /\ LET g == tx[w].row
         fires == GrantTriggerFires
         refused == (fires /\ TenantWide(g.credential)) \/ Duplicate(g) \/ ~KeysHold(g)
     IN /\ fires => ShareLock(g.credential)
        /\ ~InFlight(g) /\ ~Deleting(g.agent)
        /\ tx' = [tx EXCEPT ![w].pc = IF refused THEN "refused" ELSE "held", ![w].share = fires]
        /\ unchecked' = IF fires \/ refused \/ ~tx[w].hand THEN unchecked
                        ELSE unchecked \cup {g.credential}
  /\ UNCHANGED <<credentials, agents, grants, schema, up>>

CommitGrant(w) ==
  /\ tx[w].op = "grant" /\ tx[w].pc = "held"
  /\ grants' = grants \cup {tx[w].row}
  /\ tx' = [tx EXCEPT ![w] = NoStatement]
  /\ UNCHANGED <<credentials, agents, schema, up, unchecked>>

\* revoke_grant: one DELETE, by the kernel or by hand.
RevokeGrant ==
  \E g \in grants :
    /\ grants' = grants \ {g}
    /\ UNCHANGED <<credentials, agents, schema, up, unchecked, tx>>

------------------------------------------------------------------------------
(* insert and revoke of store.rs, tenant_wide set by hand, and their trigger
   credentials_reject_tenant_wide_with_grants *)

\* insert: no grant can name a row that is not there yet, so the trigger passes.
InsertCredential ==
  /\ up
  /\ \E c \in CredentialIds, t \in Tenants, wide \in BOOLEAN :
       /\ credentials[c] = Absent
       /\ credentials' = [credentials EXCEPT ![c] = [tenant |-> t, wide |-> wide, revoked |-> FALSE]]
  /\ UNCHANGED <<agents, grants, schema, up, unchecked, tx>>

BeginUpdate(w) ==
  \E c \in CredentialIds, op \in {"widen", "narrow", "revoke"} :
    /\ tx[w] = NoStatement /\ credentials[c] # Absent
    /\ op = "revoke" => up /\ ~credentials[c].revoked
    /\ tx' = [tx EXCEPT ![w] = [op |-> op, pc |-> "begun", credential |-> c, seen |-> GrantsOf(c) # {}]]
    /\ UNCHANGED <<credentials, agents, grants, schema, up, unchecked>>

WideTriggerFires == schema \notin {"wide_trigger_disabled", "wide_body_replaced"}

\* A VOLATILE function looks again after the wait for the row, a STABLE one reads
\* by the snapshot its statement began with.
FindsGrants(w) ==
  IF schema = "wide_function_stable" THEN tx[w].seen ELSE GrantsOf(tx[w].credential) # {}

\* The trigger of 0031 refuses a real transition to tenant_wide only.
RefusesTransition(w) ==
  /\ tx[w].op = "widen" /\ ~credentials[tx[w].credential].wide
  /\ FindsGrants(w)

\* Mutation: the trigger of 0030 refuses every write of a row with both.
RefusesBoth(w) ==
  /\ tx[w].op = "widen" \/ (tx[w].op = "revoke" /\ credentials[tx[w].credential].wide)
  /\ FindsGrants(w)

Refuses(w) == RefusesTransition(w)

UpdateCredential(w) ==
  /\ tx[w].op \in {"widen", "narrow", "revoke"} /\ tx[w].pc = "begun"
  /\ LET c == tx[w].credential
         refused == WideTriggerFires /\ Refuses(w)
     IN /\ ~Updating(c) /\ ~Shared(c)
        /\ tx' = [tx EXCEPT ![w].pc = IF refused THEN "refused" ELSE "held"]
        /\ unchecked' = IF tx[w].op = "widen" /\ ~refused
                           /\ schema \in {"wide_trigger_disabled", "wide_body_replaced", "wide_function_stable"}
                        THEN unchecked \cup {c} ELSE unchecked
  /\ UNCHANGED <<credentials, agents, grants, schema, up>>

\* A revocation sets the status and leaves tenant_wide alone.
Updated(row, op) ==
  [tenant |-> row.tenant, wide |-> IF op = "revoke" THEN row.wide ELSE op = "widen",
   revoked |-> row.revoked \/ op = "revoke"]

CommitUpdate(w) ==
  /\ tx[w].op \in {"widen", "narrow", "revoke"} /\ tx[w].pc = "held"
  /\ credentials' = [credentials EXCEPT ![tx[w].credential] = Updated(@, tx[w].op)]
  /\ tx' = [tx EXCEPT ![w] = NoStatement]
  /\ UNCHANGED <<agents, grants, schema, up, unchecked>>

------------------------------------------------------------------------------
(* Agents: assigned once by the backfill, deleted with the grants that name them *)

MapAgent ==
  \E a \in Agents, t \in Tenants :
    /\ agents[a] = Unmapped /\ ~Referenced(a) /\ ~Deleting(a)
    /\ agents' = [agents EXCEPT ![a] = t]
    /\ UNCHANGED <<credentials, grants, schema, up, unchecked, tx>>

\* delete_agent: SELECT ... FOR UPDATE of the agent waits for grants that name it.
LockAgent(w) ==
  \E a \in Agents :
    /\ up /\ tx[w] = NoStatement
    /\ agents[a] # Absent /\ ~Referenced(a) /\ ~Deleting(a)
    /\ tx' = [tx EXCEPT ![w] = [op |-> "delete", pc |-> "held", agent |-> a]]
    /\ UNCHANGED <<credentials, agents, grants, schema, up, unchecked>>

CommitDelete(w) ==
  /\ tx[w].op = "delete"
  /\ agents' = [agents EXCEPT ![tx[w].agent] = Absent]
  /\ grants' = {g \in grants : g.agent # tx[w].agent}
  /\ tx' = [tx EXCEPT ![w] = NoStatement]
  /\ UNCHANGED <<credentials, schema, up, unchecked>>

\* A refused statement is answered; one that waits or holds locks may fail.
EndStatement(w) ==
  /\ tx[w] # NoStatement
  /\ tx' = [tx EXCEPT ![w] = NoStatement]
  /\ UNCHANGED <<credentials, agents, grants, schema, up, unchecked>>

------------------------------------------------------------------------------
(* The schema and the starts that verify it *)

\* ALTER TABLE waits for every statement that writes the table, CREATE OR REPLACE
\* FUNCTION and ALTER FUNCTION for none.
Quiet(loss) ==
  LET writing(ops) == \E w \in Writers : tx[w].op \in ops
  IN CASE loss = "grant_trigger_disabled" -> ~writing({"grant", "delete"})
       [] loss = "wide_trigger_disabled"  -> ~writing({"widen", "narrow", "revoke"})
       [] loss = "agent_key_by_id"        -> ~writing({"grant", "delete"})
       [] loss = "unique_id_tenant_dropped" -> ~writing({"grant", "widen", "narrow", "revoke"})
       [] OTHER -> TRUE

Lose ==
  \E loss \in Losses :
    /\ ~up /\ schema = "sound" /\ Quiet(loss)
    /\ schema' = loss
    /\ UNCHANGED <<credentials, agents, grants, up, unchecked, tx>>

\* Adding a composite key back validates the rows; enabling a trigger does not.
Repair ==
  /\ ~up /\ schema # "sound" /\ Quiet(schema)
  /\ schema = "unique_id_tenant_dropped" => \A g \in grants : OfTheirTenant(g)
  /\ schema = "agent_key_by_id" => \A g \in grants : agents[g.agent] = g.tenant
  /\ schema' = "sound"
  /\ UNCHANGED <<credentials, agents, grants, up, unchecked, tx>>

\* verify_trigger_functions: volatility, body, configuration and signature.
VerifyTriggerFunctions == schema \notin {"wide_body_replaced", "wide_function_stable"}

\* verify_grants_schema: keys, triggers, their state and declaration, then the functions.
VerifyGrantsSchema ==
  /\ schema \notin {"agent_key_by_id", "grant_trigger_disabled", "wide_trigger_disabled"}
  /\ VerifyTriggerFunctions

\* Mutation: a disabled trigger is listed like an enabled one.
VerifyPresence == schema # "agent_key_by_id" /\ VerifyTriggerFunctions

\* verify_schema: keys and constraints of credentials, then the schema of the grants.
VerifyCredentialsSchema == schema # "unique_id_tenant_dropped" /\ VerifyGrantsSchema

VerifySchema == VerifyCredentialsSchema

\* assert_schema_contract before the authenticator is built.
Start ==
  /\ ~up /\ VerifySchema
  /\ up' = TRUE
  /\ UNCHANGED <<credentials, agents, grants, schema, unchecked, tx>>

\* The process ends; a statement the server has begun may still commit.
Stop ==
  /\ up /\ up' = FALSE
  /\ UNCHANGED <<credentials, agents, grants, schema, unchecked, tx>>

------------------------------------------------------------------------------
GrantStep(w) == BeginGrant(w) \/ InsertGrant(w) \/ CommitGrant(w)

UpdateStep(w) == BeginUpdate(w) \/ UpdateCredential(w) \/ CommitUpdate(w)

DeleteStep(w) == LockAgent(w) \/ CommitDelete(w)

GrantsNext ==
  \/ \E w \in Writers : GrantStep(w) \/ UpdateStep(w) \/ DeleteStep(w) \/ EndStatement(w)
  \/ RevokeGrant \/ InsertCredential \/ MapAgent \/ Lose \/ Repair \/ Start \/ Stop

GrantsSpec == GrantsInit /\ [][GrantsNext]_grantsVars

------------------------------------------------------------------------------
(* Properties *)

\* The tables hold rows of their types and every writer a statement of one kind.
GrantsTypeOK ==
  /\ credentials \in [CredentialIds -> Row \cup {Absent}]
  /\ agents \in [Agents -> Tenants \cup {Unmapped, Absent}]
  /\ grants \subseteq Grant
  /\ schema \in Losses \cup {"sound"}
  /\ up \in BOOLEAN /\ unchecked \subseteq CredentialIds
  /\ tx \in [Writers -> Statement]

\* A credential is tenant-wide and has grants only if somebody wrote it by hand
\* past a trigger the schema had lost: writes that cross each other never do it,
\* and neither does a kernel, which does not start on such a schema.
NeverBothModes ==
  \A c \in CredentialIds : TenantWide(c) /\ GrantsOf(c) # {} => c \in unchecked

\* Whatever assignments and deletions of agents cross the grants, a grant names an
\* existing agent of the tenant the credential belongs to, as long as the two
\* composite keys are there.
GrantsFollowTheirAgents ==
  \A g \in grants :
    /\ schema # "unique_id_tenant_dropped" => OfTheirTenant(g)
    /\ agents[g.agent] # Absent
    /\ schema # "agent_key_by_id" => agents[g.agent] = g.tenant

\* The repair path stays open: no revocation and no return to restricted is ever
\* refused, even of a credential that has both.
RepairsNeverRefused ==
  \A w \in Writers : tx[w].pc = "refused" => tx[w].op \notin {"revoke", "narrow"}

BothModes(c) == TenantWide(c) /\ GrantsOf(c) # {}

\* A credential begins to act for an agent only by a grant of that agent, by being
\* issued or made tenant-wide, or as the agent is assigned to a tenant. What
\* withdraws a grant or deletes an agent widens nothing, with one exception the code
\* has: a credential that was given both modes past a lost trigger is denied, and
\* gets the mode that is left when its last grant goes or its flag is cleared.
AuthorityIsGiven ==
  [][\A c \in CredentialIds, a \in Agents :
       ~MayActFor(c, a) /\ MayActFor(c, a)' =>
         \/ credentials'[c] # credentials[c] /\ TenantWide(c)'
         \/ agents[a] = Unmapped
         \/ \E g \in grants' \ grants : g.credential = c /\ g.agent = a
         \/ c \in unchecked /\ BothModes(c) /\ ~BothModes(c)']_grantsVars

\* The same without the exception. The code does not keep it: authorize_agent reads
\* the flag and the grants as they are, so the last grant of a contradictory credential
\* that is withdrawn, or goes with its agent, leaves a tenant-wide one.
WithdrawalsGiveNothing ==
  [][\A c \in CredentialIds, a \in Agents :
       ~MayActFor(c, a) /\ MayActFor(c, a)' =>
         \/ credentials'[c] # credentials[c]
         \/ agents[a] = Unmapped
         \/ grants' \ grants # {}]_grantsVars
=============================================================================
