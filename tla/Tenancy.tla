------------------------------ MODULE Tenancy ------------------------------
(***************************************************************************)
(* Who owns what: the assignment of agents to tenants when replicas start  *)
(* (tenancy/mod.rs, main.rs), the rows that inherit their agent's owner by *)
(* the bridge triggers and composite keys of migrations 0032 and 0041, and *)
(* the deletion of an agent (memory/store.rs) against both.                *)
(*                                                                         *)
(* Transactions are READ COMMITTED: every statement sees what is committed *)
(* when it runs, and meets the others on the lock of the agent's row. An   *)
(* UPDATE of tenant_id and FOR UPDATE take it exclusively, the check of a  *)
(* foreign key shares it. A key with a NULL component is not checked       *)
(* (MATCH SIMPLE).                                                         *)
(***************************************************************************)
EXTENDS Naturals, FiniteSets

CONSTANTS
    Agents,     \* values of agents.agent_id; deleted ones may be used again
    Tenants,
    None,       \* NULL, and nobody
    Replicas,   \* kernel processes that start
    Envs,       \* the environments operators start them with
    Registered, \* whether the registry holds an active credential
    Rows,       \* ids of child rows, each written by one statement at a time
    Mems,       \* ids of memories that a compaction makes or archives
    Deleters,   \* requests that delete an agent
    MaxUuid,    \* bound: agents ever created
    MaxFaults   \* bound: transactions that die

ASSUME ConstantsAssumption ==
    /\ None \notin Tenants \cup Replicas \cup Deleters \cup Rows
    /\ Replicas \cap Deleters = {}
    /\ Registered \in BOOLEAN
    /\ MaxUuid \in Nat \ {0}
    /\ MaxFaults \in Nat

Maps == [Agents -> Tenants \cup {None}]
Modes == {"single_tenant", "mapped"}

\* An environment: what the variables say. "map" is None when neither
\* LEGACY_TENANT_MAP nor LEGACY_TENANT_MAP_FILE is set.
ASSUME EnvsAssumption ==
    Envs \subseteq [mode : Modes \cup {None, "other"}, tenant : Tenants \cup {None},
                    map : Maps \cup {None}, enabled : BOOLEAN, key : BOOLEAN, open : BOOLEAN]

VARIABLES
    agents,    \* the rows of agents
    created,   \* how many agents were ever created: the last id handed out
    ledger,    \* the (mode, tenant) pairs in agent_tenancy_migrations
    child,     \* the rows of tables that carry (tenant_id, agent_uuid)
    memory,    \* memories.archival_batch_id: the row of the batch a memory names
    advisory,  \* the replica that holds BACKFILL_ADVISORY_LOCK_ID
    lock,      \* who holds an agent's row exclusively
    replica, writer, deleter, faults

vars == <<agents, created, ledger, child, memory, advisory, lock, replica, writer, deleter, faults>>

NoAgent == [uuid |-> 0, tenant |-> None]
Exists(a) == agents[a] # NoAgent

\* archival_batches has a second key, on the agent's text, which cascades;
\* rmk_policies stands for the four tables that have none.
Tables == {"archival_batches", "rmk_policies"}
NoRow == [table |-> None, agent |-> None, uuid |-> 0, tenant |-> None]
ChildRows == [table : Tables, agent : Agents, uuid : 0..MaxUuid, tenant : Tenants \cup {None}]

Down == [at |-> "down", env |-> None, assigned |-> {}]
Silent == [at |-> "none", new |-> NoRow, keyed |-> FALSE]
Calm == [at |-> "none", agent |-> None, found |-> FALSE, swept |-> {}, doomed |-> {}]

Init ==
    /\ agents \in [Agents -> {NoAgent, [uuid |-> 1, tenant |-> None]}]
    /\ \A a, b \in Agents : Exists(a) /\ Exists(b) => a = b
    /\ created = Cardinality({a \in Agents : Exists(a)})
    /\ ledger = {}
    /\ child = [i \in Rows |-> NoRow]
    /\ memory = [m \in Mems |-> None]
    /\ advisory = None
    /\ lock = [a \in Agents |-> None]
    /\ replica = [r \in Replicas |-> Down]
    /\ writer = [i \in Rows |-> Silent]
    /\ deleter = [d \in Deleters |-> Calm]
    /\ faults = 0

\* The share of an agent's row that a checked key keeps to the commit.
Shared(a) == \E i \in Rows : writer[i].at = "commit" /\ writer[i].new.agent = a /\ writer[i].keyed

\* The V1 path creates agents without a tenant (upsert_agent).
UpsertAgent(a) ==
    /\ ~Exists(a)
    /\ created < MaxUuid
    /\ created' = created + 1
    /\ agents' = [agents EXCEPT ![a] = [uuid |-> created + 1, tenant |-> None]]
    /\ UNCHANGED <<ledger, child, memory, advisory, lock, replica, writer, deleter, faults>>

-----------------------------------------------------------------------------
(* A replica starts: settings, backfill, gate.                             *)

\* TenancySettings::from_values: what a mode needs is there, and nothing
\* that belongs to the other one.
Valid(env) ==
    CASE env.mode = None -> TRUE
      [] env.mode = "single_tenant" -> env.tenant # None /\ env.map = None
      [] env.mode = "mapped" -> env.tenant = None /\ env.map # None /\ \E a \in Agents : env.map[a] # None
      [] OTHER -> FALSE

\* The tenant a plan gives an agent, if any.
Planned(env, a) == IF env.mode = "single_tenant" THEN env.tenant ELSE env.map[a]

\* What the ledger keeps of a plan.
Entry(env) == [mode |-> env.mode, tenant |-> env.tenant]

\* A replica that ends with less than multi-tenant service forgets its plan.
Go(r, at) ==
    replica' = [replica EXCEPT ![r] =
        IF at \in {"refused", "serving"} THEN [Down EXCEPT !.at = at] ELSE [@ EXCEPT !.at = at]]

Start(r) ==
    /\ replica[r].at = "down"
    /\ \E env \in Envs :
        replica' = [replica EXCEPT ![r] =
            IF Valid(env) THEN [Down EXCEPT !.env = env, !.at = IF env.mode = None THEN "gate" ELSE "lock"]
                          ELSE [Down EXCEPT !.at = "refused"]]
    /\ UNCHANGED <<agents, created, ledger, child, memory, advisory, lock, writer, deleter, faults>>

\* Mutation: every replica gets on with its backfill at once.
TakeNoLock(r) ==
    /\ Go(r, "ledger")
    /\ UNCHANGED advisory
\* pg_advisory_xact_lock.
TakeLock(r) ==
    /\ advisory = None
    /\ Go(r, "ledger")
    /\ advisory' = r

LockBackfill(r) ==
    /\ replica[r].at = "lock"
    /\ TakeLock(r)
    /\ UNCHANGED <<agents, created, ledger, child, memory, lock, writer, deleter, faults>>

\* Mutation: the lock belongs to the session, which the pool keeps open.
EndTransactionOfSession(r) ==
    /\ lock' = [a \in Agents |-> IF lock[a] = r THEN None ELSE lock[a]]
    /\ UNCHANGED advisory
\* The end of the transaction, in whichever way, drops its locks.
EndTransaction(r) ==
    /\ lock' = [a \in Agents |-> IF lock[a] = r THEN None ELSE lock[a]]
    /\ advisory' = IF advisory = r THEN None ELSE advisory

\* The newest entry by applied_at, which is when the transaction began and
\* not when it committed: it may be any.
ReadLedger(r) ==
    /\ replica[r].at = "ledger"
    /\ \/ /\ ledger = {} \/ Entry(replica[r].env) \in ledger
          /\ Go(r, "conflicts")
          /\ UNCHANGED <<lock, advisory>>
       \/ /\ ledger \ {Entry(replica[r].env)} # {}
          /\ Go(r, "refused")
          /\ EndTransaction(r)
    /\ UNCHANGED <<agents, created, ledger, child, memory, writer, deleter, faults>>

\* A map that contradicts an assignment is refused as a whole. A single
\* tenant is not looked at in this way.
Contradicted(env) ==
    env.mode = "mapped" /\ \E a \in Agents :
        env.map[a] # None /\ Exists(a) /\ agents[a].tenant \notin {None, env.map[a]}

CheckConflicts(r) ==
    /\ replica[r].at = "conflicts"
    /\ IF Contradicted(replica[r].env)
       THEN /\ Go(r, "refused")
            /\ EndTransaction(r)
       ELSE /\ Go(r, "assign")
            /\ UNCHANGED <<lock, advisory>>
    /\ UNCHANGED <<agents, created, ledger, child, memory, writer, deleter, faults>>

\* The rows the UPDATE takes.
Assignable(env) ==
    {a \in Agents : Exists(a) /\ agents[a].tenant = None /\ Planned(env, a) # None}

\* UPDATE agents SET tenant_id, row by row; whoever holds one of the rows
\* waits for no other one.
Assign(r) ==
    LET targets == Assignable(replica[r].env) IN
    /\ replica[r].at = "assign"
    /\ \A a \in targets : lock[a] = None /\ ~Shared(a)
    /\ lock' = [a \in Agents |-> IF a \in targets THEN r ELSE lock[a]]
    /\ replica' = [replica EXCEPT ![r].at = "record", ![r].assigned = targets]
    /\ UNCHANGED <<agents, created, ledger, child, memory, advisory, writer, deleter, faults>>

\* The ledger gets an entry on the first run and when something was
\* assigned; then COMMIT.
CommitBackfill(r) ==
    LET env == replica[r].env IN
    /\ replica[r].at = "record"
    /\ agents' = [a \in Agents |-> IF a \in replica[r].assigned
                                   THEN [agents[a] EXCEPT !.tenant = Planned(env, a)] ELSE agents[a]]
    /\ ledger' = IF ledger = {} \/ replica[r].assigned # {} THEN ledger \cup {Entry(env)} ELSE ledger
    /\ EndTransaction(r)
    /\ replica' = [replica EXCEPT ![r].at = "gate", ![r].assigned = {}]
    /\ UNCHANGED <<created, child, memory, writer, deleter, faults>>

\* The gate's second and third condition.
Recorded(env) == Entry(env) \in ledger

\* assert_multi_tenant_preconditions, first half. It runs outside of any
\* transaction.
ReadGate(r) ==
    LET env == replica[r].env IN
    /\ replica[r].at = "gate"
    /\ Go(r, CASE ~env.enabled -> "serving" [] env.mode # None /\ Recorded(env) -> "count" [] OTHER -> "refused")
    /\ UNCHANGED <<agents, created, ledger, child, memory, advisory, lock, writer, deleter, faults>>

\* Its second half, and assert_registry_ready_for_multi_tenant. "multi" is
\* serving with MULTI_TENANT_ENABLED.
CountUnmapped(r) ==
    LET env == replica[r].env
        unmapped == {a \in Agents : Exists(a) /\ agents[a].tenant = None}
        unauthenticated == ~env.key /\ env.open
    IN
    /\ replica[r].at = "count"
    /\ Go(r, IF unmapped = {} /\ ~unauthenticated /\ ~env.key /\ Registered THEN "multi" ELSE "refused")
    /\ UNCHANGED <<agents, created, ledger, child, memory, advisory, lock, writer, deleter, faults>>

-----------------------------------------------------------------------------
(* A statement inserts or updates a child row.                             *)

\* Mutation: the bridge only fills what the writer left NULL.
ResolveMissing(a, given) ==
    [uuid |-> agents[a].uuid, tenant |-> IF given.tenant = None THEN agents[a].tenant ELSE given.tenant]
\* The bridge trigger takes the owner from the agent of that text, or NULLs
\* when there is none, whatever the writer supplied.
Resolve(a, given) == agents[a]

\* ... and refuses what contradicts it.
Contradicts(a, given) ==
    /\ Exists(a)
    /\ \/ given.uuid \notin {0, agents[a].uuid}
       \/ given.tenant # None /\ agents[a].tenant # None /\ given.tenant # agents[a].tenant

Owned(row) == row.uuid # 0 /\ row.tenant # None

\* INSERT: the bridge runs before the keys are looked at. No part of the
\* kernel supplies an owner; the bridge is there for whoever does.
Insert(i) ==
    /\ writer[i].at = "none"
    /\ child[i] = NoRow
    /\ \E t \in Tables, a \in Agents, given \in {[uuid |-> 0, tenant |-> x] : x \in Tenants \cup {None}} :
        LET owner == Resolve(a, given)
            row == [table |-> t, agent |-> a, uuid |-> owner.uuid, tenant |-> owner.tenant]
        IN
        /\ ~Contradicts(a, given)
        /\ writer' = [writer EXCEPT ![i] = [at |-> "keys", new |-> row,
                                            keyed |-> t = "archival_batches" \/ Owned(row)]]
    /\ UNCHANGED <<agents, created, ledger, child, memory, advisory, lock, replica, deleter, faults>>

Doomed(i) == \E d \in Deleters : i \in deleter[d].doomed

\* UPDATE of a row that is there: the bridge runs again, on the row's own
\* owner, and its keys are looked at when the owner changed.
Update(i) ==
    LET row == child[i]
        new == [row EXCEPT !.uuid = agents[row.agent].uuid, !.tenant = agents[row.agent].tenant]
    IN
    /\ writer[i].at = "none"
    /\ row # NoRow
    /\ ~Doomed(i)
    /\ ~Contradicts(row.agent, row)
    /\ new # row
    /\ writer' = [writer EXCEPT ![i] = [at |-> "keys", new |-> new, keyed |-> Owned(new)]]
    /\ UNCHANGED <<agents, created, ledger, child, memory, advisory, lock, replica, deleter, faults>>

\* What the keys ask of a row.
Matches(row) ==
    /\ row.table = "archival_batches" => Exists(row.agent)
    /\ Owned(row) => agents[row.agent] = [uuid |-> row.uuid, tenant |-> row.tenant]

\* The foreign keys, which wait for the agent's row.
CheckKeys(i) ==
    LET row == writer[i].new IN
    /\ writer[i].at = "keys"
    /\ writer[i].keyed => lock[row.agent] = None
    /\ writer' = [writer EXCEPT ![i] = IF writer[i].keyed /\ ~Matches(row) THEN Silent ELSE [@ EXCEPT !.at = "commit"]]
    /\ UNCHANGED <<agents, created, ledger, child, memory, advisory, lock, replica, deleter, faults>>

CommitRow(i) ==
    /\ writer[i].at = "commit"
    /\ child' = [child EXCEPT ![i] = writer[i].new]
    /\ writer' = [writer EXCEPT ![i] = Silent]
    /\ UNCHANGED <<agents, created, ledger, memory, advisory, lock, replica, deleter, faults>>

-----------------------------------------------------------------------------
(* archive_agent, which runs in one statement after another for minutes.   *)

Swept(m) == \E d \in Deleters : m \in deleter[d].swept

\* A compaction stores an L3 memory with its batch, or tags a source with it. The
\* key asks that the batch is there; nothing asks for the agent.
NameBatch(m) ==
    /\ memory[m] = None
    /\ \E i \in Rows :
        /\ child[i].table = "archival_batches"
        /\ memory' = [memory EXCEPT ![m] = i]
    /\ UNCHANGED <<agents, created, ledger, child, advisory, lock, replica, writer, deleter, faults>>

-----------------------------------------------------------------------------
(* delete_agent.                                                           *)

\* Mutation: the parent is not locked before its children are deleted.
LockForNobody(a, d) == UNCHANGED lock
\* SELECT ... FOR UPDATE; a missing agent falls through.
LockForUpdate(a, d) ==
    /\ lock[a] = None /\ ~Shared(a)
    /\ lock' = IF Exists(a) THEN [lock EXCEPT ![a] = d] ELSE lock

LockAgent(d) ==
    /\ deleter[d].at = "none"
    /\ \E a \in Agents :
        /\ LockForUpdate(a, d)
        /\ deleter' = [deleter EXCEPT ![d] = [Calm EXCEPT !.at = "memories", !.agent = a, !.found = Exists(a)]]
    /\ UNCHANGED <<agents, created, ledger, child, memory, advisory, replica, writer, faults>>

\* A row in the hands of an UPDATE.
Held(i) == writer[i].at # "none" /\ child[i] # NoRow
Of(a, table) == {i \in Rows : child[i].agent = a /\ child[i].table = table}

\* The memories of the agent that name one of its batches.
InBatchesOf(a) == {m \in Mems : memory[m] \in Of(a, "archival_batches")}

\* DELETE FROM memories. Those that name no batch stand in nobody's way.
DeleteMemories(d) ==
    LET mems == InBatchesOf(deleter[d].agent) IN
    /\ deleter[d].at = "memories"
    /\ \A m \in mems : ~Swept(m)
    /\ deleter' = [deleter EXCEPT ![d].at = "children", ![d].swept = mems]
    /\ UNCHANGED <<agents, created, ledger, child, memory, advisory, lock, replica, writer, faults>>

\* The deletes of entities, memory_graph, audit_logs and rmk_policies: everything
\* committed there that names the agent by its text.
DeleteChildren(d) ==
    LET rows == Of(deleter[d].agent, "rmk_policies") IN
    /\ deleter[d].at = "children"
    /\ \A i \in rows : ~Held(i) /\ ~Doomed(i)
    /\ deleter' = [deleter EXCEPT ![d].at = "agent", ![d].doomed = rows]
    /\ UNCHANGED <<agents, created, ledger, child, memory, advisory, lock, replica, writer, faults>>

\* A policy that is still there and owned makes its key on the agent refuse.
BlockedByRow(d) ==
    LET a == deleter[d].agent IN
    \E i \in Of(a, "rmk_policies") \ deleter[d].doomed : Owned(child[i]) /\ child[i].uuid = agents[a].uuid

\* A memory that is still there and names a batch refuses the cascade to the batch:
\* memories.archival_batch_id has no ON DELETE.
BlockedByMemory(d) == InBatchesOf(deleter[d].agent) \ deleter[d].swept # {}

Unlocked(d) == [a \in Agents |-> IF lock[a] = d THEN None ELSE lock[a]]

\* DELETE FROM agents, from which batches cascade by the agent's text, and the end
\* of the transaction.
DeleteAgent(d) ==
    LET a == deleter[d].agent
        gone == deleter[d].doomed \cup Of(a, "archival_batches")
    IN
    /\ deleter[d].at = "agent"
    /\ lock[a] \in {None, d} /\ ~Shared(a)
    /\ \A i \in Of(a, "archival_batches") : ~Held(i)
    /\ \/ /\ Exists(a) /\ (BlockedByRow(d) \/ BlockedByMemory(d))
          /\ deleter' = [deleter EXCEPT ![d] = [Calm EXCEPT !.at = "failed"]]
          /\ UNCHANGED <<agents, child, memory>>
       \/ /\ ~(Exists(a) /\ (BlockedByRow(d) \/ BlockedByMemory(d)))
          /\ deleter' = [deleter EXCEPT ![d].at = "deleted", ![d].swept = {}, ![d].doomed = {}]
          /\ agents' = [agents EXCEPT ![a] = NoAgent]
          /\ child' = [i \in Rows |-> IF i \in gone THEN NoRow ELSE child[i]]
          /\ memory' = [m \in Mems |-> IF m \in deleter[d].swept THEN None ELSE memory[m]]
    /\ lock' = Unlocked(d)
    /\ UNCHANGED <<created, ledger, advisory, replica, writer, faults>>

-----------------------------------------------------------------------------
\* A transaction dies: its process, its connection, or, of a deletion and an
\* update that wait for each other's row, the one PostgreSQL picks.
ReplicaDies(r) ==
    /\ replica[r].at \notin {"down", "refused", "serving", "multi"}
    /\ faults < MaxFaults
    /\ faults' = faults + 1
    /\ replica' = [replica EXCEPT ![r] = Down]
    /\ EndTransaction(r)
    /\ UNCHANGED <<agents, created, ledger, child, memory, writer, deleter>>

Deadlocked(i, d) ==
    /\ writer[i].at = "keys" /\ writer[i].keyed /\ Held(i)
    /\ lock[child[i].agent] = d /\ deleter[d].at \in {"memories", "children", "agent"}

WriterAborts(i) ==
    /\ \E d \in Deleters : Deadlocked(i, d)
    /\ writer' = [writer EXCEPT ![i] = Silent]
    /\ UNCHANGED <<agents, created, ledger, child, memory, advisory, lock, replica, deleter, faults>>

DeleterAborts(d) ==
    /\ \E i \in Rows : Deadlocked(i, d)
    /\ deleter' = [deleter EXCEPT ![d] = [Calm EXCEPT !.at = "aborted"]]
    /\ lock' = Unlocked(d)
    /\ UNCHANGED <<agents, created, ledger, child, memory, advisory, replica, writer, faults>>

Backfill(r) == LockBackfill(r) \/ ReadLedger(r) \/ CheckConflicts(r) \/ Assign(r) \/ CommitBackfill(r)
Boot(r) == Backfill(r) \/ ReadGate(r) \/ CountUnmapped(r)
Write(i) == CheckKeys(i) \/ CommitRow(i) \/ WriterAborts(i)
Delete(d) == DeleteMemories(d) \/ DeleteChildren(d) \/ DeleteAgent(d) \/ DeleterAborts(d)

Next ==
    \/ \E a \in Agents : UpsertAgent(a)
    \/ \E r \in Replicas : Start(r) \/ Boot(r) \/ ReplicaDies(r)
    \/ \E i \in Rows : Insert(i) \/ Update(i) \/ Write(i)
    \/ \E m \in Mems : NameBatch(m)
    \/ \E d \in Deleters : LockAgent(d) \/ Delete(d)

Spec == Init /\ [][Next]_vars

\* Statements end, and so do waits for locks: whoever holds one goes on by
\* itself, and PostgreSQL queues those who wait.
Fairness ==
    /\ \A r \in Replicas : WF_vars(Boot(r))
    /\ \A i \in Rows : WF_vars(Write(i))
    /\ \A d \in Deleters : WF_vars(Delete(d))

FairSpec == Spec /\ Fairness

-----------------------------------------------------------------------------
(* Properties                                                              *)

\* Every variable has its type, and the exclusive locks belong to those who
\* are at the statements between taking and dropping them.
TypeOK ==
    /\ agents \in [Agents -> [uuid : 0..MaxUuid, tenant : Tenants \cup {None}]]
    /\ created \in 0..MaxUuid
    /\ ledger \subseteq [mode : Modes, tenant : Tenants \cup {None}]
    /\ child \in [Rows -> ChildRows \cup {NoRow}]
    /\ memory \in [Mems -> Rows \cup {None}]
    /\ advisory \in Replicas \cup {None}
    /\ lock \in [Agents -> Replicas \cup Deleters \cup {None}]
    /\ replica \in [Replicas -> [at : {"down", "lock", "ledger", "conflicts", "assign", "record", "gate", "count",
                                       "refused", "serving", "multi"},
                                 env : Envs \cup {None}, assigned : SUBSET Agents]]
    /\ writer \in [Rows -> [at : {"none", "keys", "commit"}, new : ChildRows \cup {NoRow}, keyed : BOOLEAN]]
    /\ deleter \in [Deleters -> [at : {"none", "memories", "children", "agent", "deleted", "failed", "aborted"},
                                 agent : Agents \cup {None}, found : BOOLEAN,
                                 swept : SUBSET Mems, doomed : SUBSET Rows]]
    /\ faults \in 0..MaxFaults
    /\ \A r \in Replicas : advisory = r <=> replica[r].at \in {"ledger", "conflicts", "assign", "record"}

\* However many replicas start with whatever plans, one mode with one tenant
\* is ever recorded: "two starting replicas cannot interleave their UPDATEs
\* and record contradictory migration rows" (BACKFILL_ADVISORY_LOCK_ID). A
\* replica that serves in multi-tenant mode has that one, also long after
\* its gate was read.
OnePlanEver ==
    /\ Cardinality(ledger) <= 1
    /\ \A r \in Replicas : replica[r].at = "multi" => Entry(replica[r].env) \in ledger

\* A child row that carries a tenant has the owner of its agent, and that
\* agent still exists: whatever writers supply, and across triggers that
\* read before a backfill commits, rows written while their agent is
\* deleted, and agents created anew.
OwnedRowsAgree ==
    \A i \in Rows : child[i].tenant # None =>
        agents[child[i].agent] = [uuid |-> child[i].uuid, tenant |-> child[i].tenant]

\* A deletion that found its agent is refused only by a memory that a compaction
\* stored with a batch of the agent after the deletion had emptied memories, never by
\* a row that carries an owner: none slips in behind the statement that emptied its
\* table (delete_agent, FOR UPDATE).
RefusedOnlyForACompaction ==
    [][\A d \in Deleters : deleter[d].found /\ deleter[d].at = "agent" /\ deleter'[d].at = "failed" =>
        /\ InBatchesOf(deleter[d].agent) \ deleter[d].swept # {}
        /\ \A i \in Rows : child[i].agent = deleter[d].agent /\ child[i].table = "rmk_policies" /\ Owned(child[i])
            => i \in deleter[d].doomed]_vars

\* What the comment on the lock says of the deletion. The code does not keep it: the
\* lock does not reach the insert of a memory, which no key ties to the agent.
LockedDeletionsSucceed ==
    [][\A d \in Deleters : deleter[d].found => deleter'[d].at # "failed"]_vars

\* A replica that starts is refused or serves: no wait on the advisory lock
\* or on an agent's row lasts for ever, also when a replica dies holding it.
EveryStartEnds ==
    \A r \in Replicas : replica[r].at = "lock" ~> replica[r].at \in {"refused", "serving", "multi", "down"}

\* "Delete an agent and all associated data in a single transaction"
\* (memory/store.rs:77): no row names an agent once a deletion that found it
\* has ended, unless the agent was created again.
NothingOutlivesItsAgent ==
    \A d \in Deleters : (deleter[d].at = "deleted" /\ deleter[d].found /\ ~Exists(deleter[d].agent)) =>
        \A i \in Rows : child[i].agent = deleter[d].agent => child[i].uuid = 0
=============================================================================
