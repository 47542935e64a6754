----------------------------- MODULE TenancyProofs -----------------------------
(***************************************************************************)
(* Proofs about Tenancy, for any agents, tenants, environments, replicas,  *)
(* writers and deletions: one plan is ever recorded, a row that carries a  *)
(* tenant agrees with its agent, and a deletion that locked its agent is   *)
(* refused by nothing but a memory that a compaction stored meanwhile.     *)
(* All three rest on who holds which lock when.                            *)
(***************************************************************************)
EXTENDS Tenancy, FiniteSetTheorems, TLAPS

Places == {"down", "lock", "ledger", "conflicts", "assign", "record", "gate", "count",
           "refused", "serving", "multi"}

\* Only an agent that is not there has the id 0.
AgentsInv == \A a \in Agents : agents[a].uuid = 0 => agents[a] = NoAgent

\* A backfill has a plan of one of the two modes.
PlansInv ==
    \A r \in Replicas : replica[r].at \in {"lock", "ledger", "conflicts", "assign", "record"} =>
        replica[r].env \in Envs /\ Valid(replica[r].env) /\ replica[r].env.mode # None

\* The ledger holds one plan, and the backfill that got past it agrees with it.
LedgerInv ==
    /\ \A d, e \in ledger : d = e
    /\ \A r \in Replicas : replica[r].at \in {"conflicts", "assign", "record"} =>
           ledger = {} \/ Entry(replica[r].env) \in ledger
    /\ \A r \in Replicas : replica[r].at \in {"count", "multi"} => Entry(replica[r].env) \in ledger

\* What a backfill is about to assign is there, locked and without a tenant.
AssignInv ==
    \A r \in Replicas : replica[r].at = "record" =>
        \A a \in replica[r].assigned : lock[a] = r /\ Exists(a) /\ agents[a].tenant = None

\* A tenant comes with an id and makes the keys be looked at; a row whose keys
\* were looked at keeps its agent from being locked, so they still hold.
WritersInv ==
    \A i \in Rows : writer[i].at # "none" =>
        LET row == writer[i].new IN
        /\ row \in ChildRows
        /\ row.tenant # None => row.uuid # 0 /\ writer[i].keyed
        /\ writer[i].at = "commit" /\ writer[i].keyed => lock[row.agent] = None
        /\ writer[i].at = "commit" /\ row.tenant # None =>
               agents[row.agent] = [uuid |-> row.uuid, tenant |-> row.tenant]

Deleting == {"memories", "children", "agent"}

\* A deletion that found its agent holds it, and once it has emptied the
\* table no policy of that agent carries a tenant.
DeletersInv ==
    \A d \in Deleters :
        /\ deleter[d].at \in Deleting => deleter[d].agent \in Agents
        /\ deleter[d].found /\ deleter[d].at \in Deleting => lock[deleter[d].agent] = d
        /\ deleter[d].found /\ deleter[d].at = "agent" =>
               \A i \in Of(deleter[d].agent, "rmk_policies") \ deleter[d].doomed : child[i].tenant = None

IInv ==
    /\ TypeOK
    /\ AgentsInv
    /\ PlansInv
    /\ LedgerInv
    /\ AssignInv
    /\ WritersInv
    /\ DeletersInv
    /\ OwnedRowsAgree

-----------------------------------------------------------------------------
(***************************************************************************)
(* Types.                                                                  *)
(***************************************************************************)

ReplicaState == [at : Places, env : Envs \cup {None}, assigned : SUBSET Agents]

WriterState == [at : {"none", "keys", "commit"}, new : ChildRows \cup {NoRow}, keyed : BOOLEAN]

DeleterState == [at : {"none", "memories", "children", "agent", "deleted", "failed", "aborted"},
                 agent : Agents \cup {None}, found : BOOLEAN,
                 swept : SUBSET Mems, doomed : SUBSET Rows]

AgentRow == [uuid : 0..MaxUuid, tenant : Tenants \cup {None}]

InBackfill == {"ledger", "conflicts", "assign", "record"}

\* The types of Tenancy, by the names above.
LEMMA TypeParts ==
    TypeOK <=>
        /\ agents \in [Agents -> AgentRow]
        /\ created \in 0..MaxUuid
        /\ ledger \subseteq [mode : Modes, tenant : Tenants \cup {None}]
        /\ child \in [Rows -> ChildRows \cup {NoRow}]
        /\ memory \in [Mems -> Rows \cup {None}]
        /\ advisory \in Replicas \cup {None}
        /\ lock \in [Agents -> Replicas \cup Deleters \cup {None}]
        /\ replica \in [Replicas -> ReplicaState]
        /\ writer \in [Rows -> WriterState]
        /\ deleter \in [Deleters -> DeleterState]
        /\ faults \in 0..MaxFaults
        /\ \A r \in Replicas : advisory = r <=> replica[r].at \in InBackfill
BY DEF TypeOK, ReplicaState, WriterState, DeleterState, AgentRow, InBackfill, Places

\* The same of the state after a step.
LEMMA TypePartsNext ==
    TypeOK' <=>
        /\ agents' \in [Agents -> AgentRow]
        /\ created' \in 0..MaxUuid
        /\ ledger' \subseteq [mode : Modes, tenant : Tenants \cup {None}]
        /\ child' \in [Rows -> ChildRows \cup {NoRow}]
        /\ memory' \in [Mems -> Rows \cup {None}]
        /\ advisory' \in Replicas \cup {None}
        /\ lock' \in [Agents -> Replicas \cup Deleters \cup {None}]
        /\ replica' \in [Replicas -> ReplicaState]
        /\ writer' \in [Rows -> WriterState]
        /\ deleter' \in [Deleters -> DeleterState]
        /\ faults' \in 0..MaxFaults
        /\ \A r \in Replicas : advisory' = r <=> replica'[r].at \in InBackfill
BY DEF TypeOK, ReplicaState, WriterState, DeleterState, AgentRow, InBackfill, Places

\* A replica that moves keeps its plan unless it is refused or serves without
\* one; the others stay where they are.
LEMMA GoMoves ==
    ASSUME TypeOK, NEW r \in Replicas, NEW at \in Places, Go(r, at)
    PROVE  /\ replica' \in [Replicas -> ReplicaState]
           /\ replica'[r].at = at
           /\ at \notin {"refused", "serving"} =>
                replica'[r].env = replica[r].env /\ replica'[r].assigned = replica[r].assigned
           /\ \A s \in Replicas \ {r} : replica'[s] = replica[s]
<1>1. replica \in [Replicas -> ReplicaState]
    BY TypeParts
<1>2. CASE at \in {"refused", "serving"}
    <2>0. [Down EXCEPT !.at = at] = [at |-> at, env |-> None, assigned |-> {}]
        BY DEF Down
    <2>1. replica' = [replica EXCEPT ![r] = [at |-> at, env |-> None, assigned |-> {}]]
        BY <1>2, <2>0 DEF Go
    <2>2. [at |-> at, env |-> None, assigned |-> {}] \in ReplicaState
        BY DEF ReplicaState
    <2>3. replica'[r] = [at |-> at, env |-> None, assigned |-> {}]
        BY <1>1, <2>1
    <2>4. replica'[r].at = at
        BY <2>3
    <2> QED BY <1>1, <1>2, <2>1, <2>2, <2>4
<1>3. CASE at \notin {"refused", "serving"}
    <2>1. replica' = [replica EXCEPT ![r] = [replica[r] EXCEPT !.at = at]]
        BY <1>3 DEF Go
    <2>2. [replica[r] EXCEPT !.at = at] \in ReplicaState
        BY <1>1 DEF ReplicaState
    <2>3. /\ [replica[r] EXCEPT !.at = at].at = at
          /\ [replica[r] EXCEPT !.at = at].env = replica[r].env
          /\ [replica[r] EXCEPT !.at = at].assigned = replica[r].assigned
        BY <1>1 DEF ReplicaState
    <2> QED BY <1>1, <1>3, <2>1, <2>2, <2>3
<1> QED BY <1>2, <1>3

\* The end of a transaction drops its locks and no others.
LEMMA EndTransactionLocks ==
    ASSUME TypeOK, NEW r \in Replicas, EndTransaction(r)
    PROVE  /\ lock' \in [Agents -> Replicas \cup Deleters \cup {None}]
           /\ advisory' \in Replicas \cup {None}
           /\ advisory' # r
           /\ \A s \in Replicas \ {r} : advisory' = s <=> advisory = s
           /\ \A a \in Agents : lock'[a] = IF lock[a] = r THEN None ELSE lock[a]
BY TypeParts, ConstantsAssumption DEF EndTransaction

\* The end of a deletion too.
LEMMA UnlockedLocks ==
    ASSUME TypeOK, NEW d \in Deleters, lock' = Unlocked(d)
    PROVE  /\ lock' \in [Agents -> Replicas \cup Deleters \cup {None}]
           /\ \A a \in Agents : lock'[a] = IF lock[a] = d THEN None ELSE lock[a]
BY TypeParts DEF Unlocked

\* At most one agent is there in the beginning.
LEMMA TypeInit == Init => TypeOK
<1> SUFFICES ASSUME Init PROVE TypeOK
    OBVIOUS
<1>1. agents \in [Agents -> AgentRow]
    <2>1. 1 \in 0..MaxUuid /\ 0 \in 0..MaxUuid
        BY ConstantsAssumption
    <2>2. NoAgent \in AgentRow /\ [uuid |-> 1, tenant |-> None] \in AgentRow
        BY <2>1 DEF NoAgent, AgentRow
    <2>3. agents \in [Agents -> {NoAgent, [uuid |-> 1, tenant |-> None]}]
        BY DEF Init
    <2> HIDE DEF AgentRow
    <2> QED BY <2>2, <2>3
<1>2. created \in 0..MaxUuid
    <2> DEFINE there == {a \in Agents : Exists(a)}
    <2>1. (\A a, b \in there : a = b) /\ created = Cardinality(there)
        BY DEF Init
    <2>2. CASE there = {}
        BY <2>1, <2>2, FS_EmptySet, ConstantsAssumption
    <2>3. CASE \E a : there = {a}
        <3>1. Cardinality(there) = 1
            BY <2>3, FS_Singleton
        <3> QED BY <2>1, <3>1, ConstantsAssumption
    <2>4. there = {} \/ \E a : there = {a}
        BY <2>1
    <2> QED BY <2>2, <2>3, <2>4
<1>3. replica \in [Replicas -> ReplicaState] /\ \A r \in Replicas : replica[r].at = "down"
    BY DEF Init, Down, ReplicaState, Places
<1>4. writer \in [Rows -> WriterState] /\ child \in [Rows -> ChildRows \cup {NoRow}]
    BY DEF Init, Silent, WriterState
<1>5. deleter \in [Deleters -> DeleterState] /\ memory \in [Mems -> Rows \cup {None}]
    BY DEF Init, Calm, DeleterState
<1>6. faults \in 0..MaxFaults
    BY ConstantsAssumption DEF Init
<1>7. \A r \in Replicas : advisory = r <=> replica[r].at \in InBackfill
    BY <1>3, ConstantsAssumption DEF Init, InBackfill
<1> QED BY <1>1, <1>2, <1>3, <1>4, <1>5, <1>6, <1>7, TypeParts DEF Init

\* A valid plan with a mode is an entry of the ledger, and gives an agent a
\* tenant or none.
LEMMA PlanTypes ==
    ASSUME NEW env \in Envs, Valid(env), env.mode # None
    PROVE  /\ Entry(env) \in [mode : Modes, tenant : Tenants \cup {None}]
           /\ \A a \in Agents : Planned(env, a) \in Tenants \cup {None}
<1>1. /\ env.mode \in Modes \cup {None, "other"} /\ env.tenant \in Tenants \cup {None}
      /\ env.map \in Maps \cup {None}
    BY EnvsAssumption
<1>2. env.mode \in Modes
    BY <1>1 DEF Valid, Modes
<1>3. CASE env.mode = "single_tenant"
    BY <1>1, <1>2, <1>3 DEF Entry, Planned
<1>4. CASE env.mode = "mapped"
    <2>1. env.map # None
        BY <1>4, <1>2 DEF Valid
    <2>2. env.map \in Maps
        BY <1>1, <2>1
    <2> QED BY <1>1, <1>2, <1>4, <2>2 DEF Entry, Planned, Maps
<1> QED BY <1>2, <1>3, <1>4 DEF Modes

\* Moving a replica, with nothing else than its transaction's end, keeps the
\* types if it holds the advisory lock exactly while it is in its backfill.
LEMMA GoKeepsTypes ==
    ASSUME TypeOK, NEW r \in Replicas, NEW at \in Places, Go(r, at),
           UNCHANGED <<agents, created, ledger, child, memory, writer, deleter>>, faults' \in 0..MaxFaults,
           \/ UNCHANGED <<lock, advisory>> /\ (replica[r].at \in InBackfill <=> at \in InBackfill)
           \/ EndTransaction(r) /\ at \notin InBackfill
    PROVE  TypeOK'
<1>1. /\ replica' \in [Replicas -> ReplicaState] /\ replica'[r].at = at
      /\ \A s \in Replicas \ {r} : replica'[s] = replica[s]
    BY GoMoves
<1>2. CASE UNCHANGED <<lock, advisory>> /\ (replica[r].at \in InBackfill <=> at \in InBackfill)
    BY <1>1, <1>2, TypeParts, TypePartsNext
<1>3. CASE EndTransaction(r) /\ at \notin InBackfill
    <2>1. /\ lock' \in [Agents -> Replicas \cup Deleters \cup {None}]
          /\ advisory' \in Replicas \cup {None} /\ advisory' # r
          /\ \A s \in Replicas \ {r} : advisory' = s <=> advisory = s
        BY <1>3, EndTransactionLocks
    <2>2. \A s \in Replicas : advisory' = s <=> replica'[s].at \in InBackfill
        BY <1>1, <1>3, <2>1, TypeParts
    <2> QED BY <1>1, <2>1, <2>2, TypeParts, TypePartsNext
<1> QED BY <1>2, <1>3

\* Every step of a starting replica keeps the types.
LEMMA BootTypes ==
    ASSUME TypeOK, PlansInv, NEW r \in Replicas, Start(r) \/ Boot(r) \/ ReplicaDies(r)
    PROVE  TypeOK'
<1>p. /\ {"refused", "serving", "conflicts", "assign", "gate", "count", "multi", "ledger"} \subseteq Places
      /\ "record" \in Places /\ "down" \in Places /\ "lock" \in Places
    BY DEF Places
<1>f. faults \in 0..MaxFaults /\ replica \in [Replicas -> ReplicaState]
    BY TypeParts
<1>1. CASE Start(r)
    <2>1. PICK env \in Envs :
            replica' = [replica EXCEPT ![r] =
                IF Valid(env)
                THEN [Down EXCEPT !.env = env, !.at = IF env.mode = None THEN "gate" ELSE "lock"]
                ELSE [Down EXCEPT !.at = "refused"]]
        BY <1>1 DEF Start
    <2>2. [Down EXCEPT !.env = env, !.at = IF env.mode = None THEN "gate" ELSE "lock"]
            = [at |-> IF env.mode = None THEN "gate" ELSE "lock", env |-> env, assigned |-> {}]
        <3> DEFINE at == IF env.mode = None THEN "gate" ELSE "lock"
        <3> HIDE DEF at
        <3>1. [Down EXCEPT !.env = env, !.at = at] = [[Down EXCEPT !.env = env] EXCEPT !.at = at]
            OBVIOUS
        <3>2. [Down EXCEPT !.env = env] = [at |-> "down", env |-> env, assigned |-> {}]
            BY DEF Down
        <3>3. [[at |-> "down", env |-> env, assigned |-> {}] EXCEPT !.at = at]
                = [at |-> at, env |-> env, assigned |-> {}]
            OBVIOUS
        <3> QED BY <3>1, <3>2, <3>3 DEF at
    <2>3. [Down EXCEPT !.at = "refused"] = [at |-> "refused", env |-> None, assigned |-> {}]
        BY DEF Down
    <2>4. \E x \in ReplicaState : x.at \notin InBackfill /\ replica' = [replica EXCEPT ![r] = x]
        <3>1. CASE Valid(env)
            <4>1. [at |-> IF env.mode = None THEN "gate" ELSE "lock", env |-> env, assigned |-> {}]
                    \in ReplicaState
                BY <1>p DEF ReplicaState
            <4> QED BY <2>1, <2>2, <3>1, <4>1 DEF InBackfill
        <3>2. CASE ~Valid(env)
            <4>1. [at |-> "refused", env |-> None, assigned |-> {}] \in ReplicaState
                BY <1>p DEF ReplicaState
            <4> QED BY <2>1, <2>3, <3>2, <4>1 DEF InBackfill
        <3> QED BY <3>1, <3>2
    <2>5. replica[r].at \notin InBackfill
        BY <1>1 DEF Start, InBackfill
    <2>6. /\ replica' \in [Replicas -> ReplicaState] /\ replica'[r].at \notin InBackfill
          /\ \A s \in Replicas \ {r} : replica'[s] = replica[s]
        BY <1>f, <2>4
    <2>7. UNCHANGED <<agents, created, ledger, child, memory, advisory, lock, writer, deleter, faults>>
        BY <1>1 DEF Start
    <2> QED BY <2>5, <2>6, <2>7, TypeParts, TypePartsNext
<1>2. CASE LockBackfill(r)
    <2>1. advisory = None /\ Go(r, "ledger") /\ advisory' = r
        BY <1>2 DEF LockBackfill, TakeLock
    <2>2. /\ replica' \in [Replicas -> ReplicaState] /\ replica'[r].at = "ledger"
          /\ \A s \in Replicas \ {r} : replica'[s] = replica[s]
        BY <1>p, <2>1, GoMoves
    <2>3. UNCHANGED <<agents, created, ledger, child, memory, lock, writer, deleter, faults>>
        BY <1>2 DEF LockBackfill
    <2>4. \A s \in Replicas : replica[s].at \notin InBackfill
        BY <2>1, TypeParts, ConstantsAssumption
    <2>5. \A s \in Replicas : advisory' = s <=> replica'[s].at \in InBackfill
        BY <2>1, <2>2, <2>4 DEF InBackfill
    <2> QED BY <2>1, <2>2, <2>3, <2>5, TypeParts, TypePartsNext
<1>3. CASE ReadLedger(r)
    BY <1>3, <1>p, <1>f, GoKeepsTypes DEF ReadLedger, InBackfill
<1>4. CASE CheckConflicts(r)
    BY <1>4, <1>p, <1>f, GoKeepsTypes DEF CheckConflicts, InBackfill
<1>5. CASE Assign(r)
    <2> DEFINE targets == Assignable(replica[r].env)
    <2>1. /\ replica[r].at = "assign"
          /\ lock' = [a \in Agents |-> IF a \in targets THEN r ELSE lock[a]]
          /\ replica' = [replica EXCEPT ![r].at = "record", ![r].assigned = targets]
          /\ UNCHANGED <<agents, created, ledger, child, memory, advisory, writer, deleter, faults>>
        BY <1>5 DEF Assign
    <2>2. targets \in SUBSET Agents
        BY DEF Assignable
    <2>3. lock' \in [Agents -> Replicas \cup Deleters \cup {None}]
        BY <2>1, TypeParts
    <2>4. /\ replica' \in [Replicas -> ReplicaState] /\ replica'[r].at = "record"
          /\ \A s \in Replicas \ {r} : replica'[s] = replica[s]
        <3> HIDE DEF targets
        <3> QED BY <1>f, <1>p, <2>1, <2>2 DEF ReplicaState
    <2>5. \A s \in Replicas : advisory' = s <=> replica'[s].at \in InBackfill
        BY <2>1, <2>4, TypeParts DEF InBackfill
    <2> QED BY <2>1, <2>3, <2>4, <2>5, TypeParts, TypePartsNext
<1>6. CASE CommitBackfill(r)
    <2> DEFINE env == replica[r].env
    <2>1. /\ replica[r].at = "record"
          /\ agents' = [a \in Agents |-> IF a \in replica[r].assigned
                                         THEN [agents[a] EXCEPT !.tenant = Planned(env, a)] ELSE agents[a]]
          /\ ledger' \subseteq ledger \cup {Entry(env)}
          /\ EndTransaction(r)
          /\ replica' = [replica EXCEPT ![r].at = "gate", ![r].assigned = {}]
          /\ UNCHANGED <<created, child, memory, writer, deleter, faults>>
        BY <1>6 DEF CommitBackfill
    <2>2. env \in Envs /\ Valid(env) /\ env.mode # None
        BY <2>1 DEF PlansInv
    <2>3. /\ Entry(env) \in [mode : Modes, tenant : Tenants \cup {None}]
          /\ \A a \in Agents : Planned(env, a) \in Tenants \cup {None}
        <3> HIDE DEF env
        <3> QED BY <2>2, PlanTypes
    <2>4. ledger' \subseteq [mode : Modes, tenant : Tenants \cup {None}]
        <3> HIDE DEF env
        <3> QED BY <2>1, <2>3, TypeParts
    <2>5. agents' \in [Agents -> AgentRow]
        <3>1. agents \in [Agents -> AgentRow]
            BY TypeParts
        <3>2. \A a \in Agents : [agents[a] EXCEPT !.tenant = Planned(env, a)] \in AgentRow
            <4> HIDE DEF env
            <4> QED BY <2>3, <3>1 DEF AgentRow
        <3> HIDE DEF env, AgentRow
        <3> QED BY <2>1, <3>1, <3>2
    <2>6. /\ replica' \in [Replicas -> ReplicaState] /\ replica'[r].at = "gate"
          /\ \A s \in Replicas \ {r} : replica'[s] = replica[s]
        BY <1>f, <1>p, <2>1 DEF ReplicaState
    <2>7. /\ lock' \in [Agents -> Replicas \cup Deleters \cup {None}]
          /\ advisory' \in Replicas \cup {None} /\ advisory' # r
          /\ \A s \in Replicas \ {r} : advisory' = s <=> advisory = s
        BY <2>1, EndTransactionLocks
    <2>8. \A s \in Replicas : advisory' = s <=> replica'[s].at \in InBackfill
        BY <2>6, <2>7, TypeParts DEF InBackfill
    <2> QED BY <2>1, <2>4, <2>5, <2>6, <2>7, <2>8, TypeParts, TypePartsNext
<1>7. CASE ReadGate(r)
    <2>1. \E at \in {"serving", "count", "refused"} : Go(r, at)
        BY <1>7 DEF ReadGate
    <2>2. /\ replica[r].at = "gate"
          /\ UNCHANGED <<agents, created, ledger, child, memory, advisory, lock, writer, deleter, faults>>
        BY <1>7 DEF ReadGate
    <2> QED BY <2>1, <2>2, <1>p, <1>f, GoKeepsTypes DEF InBackfill
<1>8. CASE CountUnmapped(r)
    <2>1. \E at \in {"multi", "refused"} : Go(r, at)
        BY <1>8 DEF CountUnmapped
    <2>2. /\ replica[r].at = "count"
          /\ UNCHANGED <<agents, created, ledger, child, memory, advisory, lock, writer, deleter, faults>>
        BY <1>8 DEF CountUnmapped
    <2> QED BY <2>1, <2>2, <1>p, <1>f, GoKeepsTypes DEF InBackfill
<1>9. CASE ReplicaDies(r)
    <2>1. /\ faults' = faults + 1 /\ faults < MaxFaults /\ EndTransaction(r)
          /\ replica' = [replica EXCEPT ![r] = Down]
          /\ UNCHANGED <<agents, created, ledger, child, memory, writer, deleter>>
        BY <1>9 DEF ReplicaDies
    <2>2. /\ replica' \in [Replicas -> ReplicaState] /\ replica'[r].at = "down"
          /\ \A s \in Replicas \ {r} : replica'[s] = replica[s]
        <3>1. Down \in ReplicaState /\ Down.at = "down"
            BY <1>p DEF Down, ReplicaState
        <3> QED BY <1>f, <2>1, <3>1
    <2>3. /\ lock' \in [Agents -> Replicas \cup Deleters \cup {None}]
          /\ advisory' \in Replicas \cup {None} /\ advisory' # r
          /\ \A s \in Replicas \ {r} : advisory' = s <=> advisory = s
        BY <2>1, EndTransactionLocks
    <2>4. faults' \in 0..MaxFaults
        BY <1>f, <2>1, ConstantsAssumption
    <2>5. \A s \in Replicas : advisory' = s <=> replica'[s].at \in InBackfill
        BY <2>2, <2>3, TypeParts DEF InBackfill
    <2> QED BY <2>1, <2>2, <2>3, <2>4, <2>5, TypeParts, TypePartsNext
<1> QED BY <1>1, <1>2, <1>3, <1>4, <1>5, <1>6, <1>7, <1>8, <1>9 DEF Boot, Backfill

\* A row that is there is one of a table.
LEMMA RowIsThere ==
    ASSUME TypeOK, NEW i \in Rows, child[i] # NoRow
    PROVE  child[i] \in ChildRows
BY TypeParts

\* A row with the owner of an agent is a row of its table.
LEMMA OwnedRowTypes ==
    ASSUME TypeOK, NEW t \in Tables, NEW a \in Agents
    PROVE  [table |-> t, agent |-> a, uuid |-> agents[a].uuid, tenant |-> agents[a].tenant] \in ChildRows
<1>1. agents[a] \in AgentRow
    BY TypeParts
<1> QED BY <1>1 DEF AgentRow, ChildRows

\* A row keeps its table and its agent when its owner changes.
LEMMA RowWithOwner ==
    ASSUME NEW row \in ChildRows, NEW u, NEW t
    PROVE  [row EXCEPT !.uuid = u, !.tenant = t]
             = [table |-> row.table, agent |-> row.agent, uuid |-> u, tenant |-> t]
<1>1. [row EXCEPT !.uuid = u, !.tenant = t] = [[row EXCEPT !.uuid = u] EXCEPT !.tenant = t]
    OBVIOUS
<1>2. [row EXCEPT !.uuid = u]
        = [table |-> row.table, agent |-> row.agent, uuid |-> u, tenant |-> row.tenant]
    BY DEF ChildRows
<1>3. [[table |-> row.table, agent |-> row.agent, uuid |-> u, tenant |-> row.tenant] EXCEPT !.tenant = t]
        = [table |-> row.table, agent |-> row.agent, uuid |-> u, tenant |-> t]
    OBVIOUS
<1> QED BY <1>1, <1>2, <1>3

\* What the bridge makes of an insert.
LEMMA Inserted ==
    ASSUME TypeOK, NEW i \in Rows, Insert(i)
    PROVE  \E t \in Tables, a \in Agents :
             LET row == [table |-> t, agent |-> a, uuid |-> agents[a].uuid, tenant |-> agents[a].tenant] IN
             writer' = [writer EXCEPT ![i] = [at |-> "keys", new |-> row,
                                              keyed |-> t = "archival_batches" \/ Owned(row)]]
BY DEF Insert, Resolve

\* What the bridge makes of an update.
LEMMA Updated ==
    ASSUME TypeOK, NEW i \in Rows, Update(i)
    PROVE  \E t \in Tables, a \in Agents :
             LET row == [table |-> t, agent |-> a, uuid |-> agents[a].uuid, tenant |-> agents[a].tenant] IN
             writer' = [writer EXCEPT ![i] = [at |-> "keys", new |-> row, keyed |-> Owned(row)]]
<1> DEFINE t == child[i].table
           a == child[i].agent
           row == [table |-> t, agent |-> a, uuid |-> agents[a].uuid, tenant |-> agents[a].tenant]
           new == [child[i] EXCEPT !.uuid = agents[a].uuid, !.tenant = agents[a].tenant]
<1>1. child[i] \in ChildRows
    BY RowIsThere DEF Update
<1>2. t \in Tables /\ a \in Agents
    BY <1>1 DEF ChildRows
<1>3. new = row
    BY <1>1, RowWithOwner
<1>4. writer' = [writer EXCEPT ![i] = [at |-> "keys", new |-> new, keyed |-> Owned(new)]]
    BY DEF Update
<1>5. writer' = [writer EXCEPT ![i] = [at |-> "keys", new |-> row, keyed |-> Owned(row)]]
    <2> HIDE DEF new, row
    <2> QED BY <1>3, <1>4
<1> QED BY <1>2, <1>5

\* Every step of a statement that writes a row keeps the types.
LEMMA WriteTypes ==
    ASSUME TypeOK, NEW i \in Rows, Insert(i) \/ Update(i) \/ Write(i)
    PROVE  TypeOK'
<1>t. writer \in [Rows -> WriterState] /\ child \in [Rows -> ChildRows \cup {NoRow}]
    BY TypeParts
<1>s. Silent \in WriterState
    BY DEF Silent, WriterState
<1>1. CASE Insert(i) \/ Update(i)
    <2>1. PICK t \in Tables, a \in Agents, keyed \in BOOLEAN :
            writer' = [writer EXCEPT ![i] =
                [at |-> "keys", keyed |-> keyed,
                 new |-> [table |-> t, agent |-> a, uuid |-> agents[a].uuid, tenant |-> agents[a].tenant]]]
        <3>1. CASE Insert(i)
            <4>1. PICK t \in Tables, a \in Agents :
                    LET row == [table |-> t, agent |-> a, uuid |-> agents[a].uuid, tenant |-> agents[a].tenant]
                    IN  writer' = [writer EXCEPT ![i] = [at |-> "keys", new |-> row,
                                     keyed |-> t = "archival_batches" \/ Owned(row)]]
                BY <3>1, Inserted
            <4> QED BY <4>1 DEF Owned
        <3>2. CASE Update(i)
            <4>1. PICK t \in Tables, a \in Agents :
                    LET row == [table |-> t, agent |-> a, uuid |-> agents[a].uuid, tenant |-> agents[a].tenant]
                    IN  writer' = [writer EXCEPT ![i] = [at |-> "keys", new |-> row, keyed |-> Owned(row)]]
                BY <3>2, Updated
            <4> QED BY <4>1 DEF Owned
        <3> QED BY <1>1, <3>1, <3>2
    <2> DEFINE row == [table |-> t, agent |-> a, uuid |-> agents[a].uuid, tenant |-> agents[a].tenant]
    <2>2. row \in ChildRows
        BY OwnedRowTypes
    <2>3. [at |-> "keys", keyed |-> keyed, new |-> row] \in WriterState
        <3> HIDE DEF row
        <3> QED BY <2>2 DEF WriterState
    <2>4. writer' \in [Rows -> WriterState]
        <3> HIDE DEF row, WriterState
        <3>1. writer' = [writer EXCEPT ![i] = [at |-> "keys", keyed |-> keyed, new |-> row]]
            BY <2>1 DEF row
        <3> QED BY <1>t, <2>3, <3>1
    <2>5. UNCHANGED <<agents, created, ledger, child, memory, advisory, lock, replica, deleter, faults>>
        BY <1>1 DEF Insert, Update
    <2> QED BY <2>4, <2>5, TypeParts, TypePartsNext
<1>2. CASE CheckKeys(i)
    <2>1. writer' = [writer EXCEPT ![i] = Silent] \/ writer' = [writer EXCEPT ![i].at = "commit"]
        BY <1>2 DEF CheckKeys
    <2>2. writer' \in [Rows -> WriterState]
        BY <1>t, <1>s, <2>1 DEF WriterState
    <2>3. UNCHANGED <<agents, created, ledger, child, memory, advisory, lock, replica, deleter, faults>>
        BY <1>2 DEF CheckKeys
    <2> QED BY <2>2, <2>3, TypeParts, TypePartsNext
<1>3. CASE CommitRow(i)
    <2>1. writer[i].new \in ChildRows \cup {NoRow}
        BY <1>t DEF WriterState
    <2>2. /\ child' = [child EXCEPT ![i] = writer[i].new]
          /\ writer' = [writer EXCEPT ![i] = Silent]
          /\ UNCHANGED <<agents, created, ledger, memory, advisory, lock, replica, deleter, faults>>
        BY <1>3 DEF CommitRow
    <2>3. writer' \in [Rows -> WriterState] /\ child' \in [Rows -> ChildRows \cup {NoRow}]
        BY <1>t, <1>s, <2>1, <2>2
    <2> QED BY <2>2, <2>3, TypeParts, TypePartsNext
<1>4. CASE WriterAborts(i)
    <2>1. /\ writer' = [writer EXCEPT ![i] = Silent]
          /\ UNCHANGED <<agents, created, ledger, child, memory, advisory, lock, replica, deleter, faults>>
        BY <1>4 DEF WriterAborts
    <2>2. writer' \in [Rows -> WriterState]
        BY <1>t, <1>s, <2>1
    <2> QED BY <2>1, <2>2, TypeParts, TypePartsNext
<1> QED BY <1>1, <1>2, <1>3, <1>4 DEF Write

\* Every step of a deletion keeps the types.
LEMMA DeleteTypes ==
    ASSUME TypeOK, DeletersInv, NEW d \in Deleters, LockAgent(d) \/ Delete(d)
    PROVE  TypeOK'
<1>t. /\ deleter \in [Deleters -> DeleterState] /\ child \in [Rows -> ChildRows \cup {NoRow}]
      /\ agents \in [Agents -> AgentRow] /\ memory \in [Mems -> Rows \cup {None}]
      /\ lock \in [Agents -> Replicas \cup Deleters \cup {None}]
    BY TypeParts
<1>c. \A at \in {"failed", "aborted"} : [Calm EXCEPT !.at = at] \in DeleterState
    BY DEF Calm, DeleterState
<1>1. CASE LockAgent(d)
    <2>1. PICK a \in Agents :
            /\ lock' = IF Exists(a) THEN [lock EXCEPT ![a] = d] ELSE lock
            /\ deleter' = [deleter EXCEPT ![d] = [Calm EXCEPT !.at = "memories", !.agent = a, !.found = Exists(a)]]
        BY <1>1 DEF LockAgent, LockForUpdate
    <2>2. [Calm EXCEPT !.at = "memories", !.agent = a, !.found = Exists(a)] \in DeleterState
        BY DEF Calm, DeleterState, Exists
    <2>3. deleter' \in [Deleters -> DeleterState]
        BY <1>t, <2>1, <2>2
    <2>4. lock' \in [Agents -> Replicas \cup Deleters \cup {None}]
        BY <1>t, <2>1
    <2>5. UNCHANGED <<agents, created, ledger, child, memory, advisory, replica, writer, faults>>
        BY <1>1 DEF LockAgent
    <2> QED BY <2>3, <2>4, <2>5, TypeParts, TypePartsNext
<1>m. CASE DeleteMemories(d)
    <2> DEFINE mems == InBatchesOf(deleter[d].agent)
    <2>1. /\ deleter' = [deleter EXCEPT ![d].at = "children", ![d].swept = mems]
          /\ UNCHANGED <<agents, created, ledger, child, memory, advisory, lock, replica, writer, faults>>
        BY <1>m DEF DeleteMemories
    <2>2. mems \in SUBSET Mems
        BY DEF InBatchesOf
    <2>3. deleter' \in [Deleters -> DeleterState]
        <3> HIDE DEF mems
        <3>1. [deleter[d] EXCEPT !.at = "children", !.swept = mems] \in DeleterState
            BY <1>t, <2>2 DEF DeleterState
        <3> QED BY <1>t, <2>1, <3>1
    <2> QED BY <2>1, <2>3, TypeParts, TypePartsNext
<1>2. CASE DeleteChildren(d)
    <2> DEFINE rows == Of(deleter[d].agent, "rmk_policies")
    <2>1. /\ deleter' = [deleter EXCEPT ![d].at = "agent", ![d].doomed = rows]
          /\ UNCHANGED <<agents, created, ledger, child, memory, advisory, lock, replica, writer, faults>>
        BY <1>2 DEF DeleteChildren
    <2>2. rows \in SUBSET Rows
        BY DEF Of
    <2>3. deleter' \in [Deleters -> DeleterState]
        <3> HIDE DEF rows
        <3>1. [deleter[d] EXCEPT !.at = "agent", !.doomed = rows] \in DeleterState
            BY <1>t, <2>2 DEF DeleterState
        <3> QED BY <1>t, <2>1, <3>1
    <2> QED BY <2>1, <2>3, TypeParts, TypePartsNext
<1>3. CASE DeleteAgent(d)
    <2> DEFINE a == deleter[d].agent
               gone == deleter[d].doomed \cup Of(a, "archival_batches")
    <2>1. /\ \/ /\ deleter' = [deleter EXCEPT ![d] = [Calm EXCEPT !.at = "failed"]]
                /\ UNCHANGED <<agents, child, memory>>
             \/ /\ deleter' = [deleter EXCEPT ![d].at = "deleted", ![d].swept = {}, ![d].doomed = {}]
                /\ agents' = [agents EXCEPT ![a] = NoAgent]
                /\ child' = [i \in Rows |-> IF i \in gone THEN NoRow ELSE child[i]]
                /\ memory' = [m \in Mems |-> IF m \in deleter[d].swept THEN None ELSE memory[m]]
          /\ lock' = Unlocked(d)
          /\ UNCHANGED <<created, ledger, advisory, replica, writer, faults>>
        BY <1>3 DEF DeleteAgent
    <2>2. deleter' \in [Deleters -> DeleterState]
        BY <1>t, <1>c, <2>1 DEF DeleterState
    <2>3. NoAgent \in AgentRow
        BY ConstantsAssumption DEF NoAgent, AgentRow
    <2>4. /\ agents' \in [Agents -> AgentRow] /\ child' \in [Rows -> ChildRows \cup {NoRow}]
          /\ memory' \in [Mems -> Rows \cup {None}]
        <3> HIDE DEF gone, AgentRow, a
        <3> QED BY <1>t, <2>1, <2>3
    <2>5. lock' \in [Agents -> Replicas \cup Deleters \cup {None}]
        BY <2>1, UnlockedLocks
    <2> QED BY <2>1, <2>2, <2>4, <2>5, TypeParts, TypePartsNext
<1>4. CASE DeleterAborts(d)
    <2>1. /\ deleter' = [deleter EXCEPT ![d] = [Calm EXCEPT !.at = "aborted"]]
          /\ lock' = Unlocked(d)
          /\ UNCHANGED <<agents, created, ledger, child, memory, advisory, replica, writer, faults>>
        BY <1>4 DEF DeleterAborts
    <2>2. deleter' \in [Deleters -> DeleterState]
        BY <1>t, <1>c, <2>1
    <2>3. lock' \in [Agents -> Replicas \cup Deleters \cup {None}]
        BY <2>1, UnlockedLocks
    <2> QED BY <2>1, <2>2, <2>3, TypeParts, TypePartsNext
<1> QED BY <1>1, <1>m, <1>2, <1>3, <1>4 DEF Delete

\* Every step keeps the types.
LEMMA TypeStep == IInv /\ [Next]_vars => TypeOK'
<1> SUFFICES ASSUME TypeOK, PlansInv, DeletersInv, [Next]_vars PROVE TypeOK'
    BY DEF IInv
<1>1. ASSUME NEW a \in Agents, UpsertAgent(a) PROVE TypeOK'
    <2>1. /\ created < MaxUuid /\ created' = created + 1
          /\ agents' = [agents EXCEPT ![a] = [uuid |-> created + 1, tenant |-> None]]
          /\ UNCHANGED <<ledger, child, memory, advisory, lock, replica, writer, deleter, faults>>
        BY <1>1 DEF UpsertAgent
    <2>2. created + 1 \in 0..MaxUuid
        BY <2>1, TypeParts, ConstantsAssumption
    <2>3. [uuid |-> created + 1, tenant |-> None] \in AgentRow
        BY <2>2 DEF AgentRow
    <2>4. agents' \in [Agents -> AgentRow]
        BY <2>1, <2>3, TypeParts
    <2> QED BY <2>1, <2>2, <2>4, TypeParts, TypePartsNext
<1>2. CASE UNCHANGED vars
    BY <1>2, TypeParts, TypePartsNext DEF vars
<1>3. ASSUME NEW m \in Mems, NameBatch(m) PROVE TypeOK'
    <2>1. PICK i \in Rows : memory' = [memory EXCEPT ![m] = i]
        BY <1>3 DEF NameBatch
    <2>2. UNCHANGED <<agents, created, ledger, child, advisory, lock, replica, writer, deleter, faults>>
        BY <1>3 DEF NameBatch
    <2> QED BY <2>1, <2>2, TypeParts, TypePartsNext
<1> QED BY <1>1, <1>2, <1>3, BootTypes, WriteTypes, DeleteTypes DEF Next

-----------------------------------------------------------------------------
(***************************************************************************)
(* Who changes what.                                                       *)
(***************************************************************************)

\* A replica moves by itself.
LEMMA ReplicaMoves ==
    ASSUME TypeOK, [Next]_vars, NEW r \in Replicas, replica'[r] # replica[r]
    PROVE  Start(r) \/ Boot(r) \/ ReplicaDies(r)
<1>r. replica \in [Replicas -> ReplicaState]
    BY TypeParts
<1>1. ASSUME NEW s \in Replicas, Start(s) \/ Boot(s) \/ ReplicaDies(s) PROVE s = r
    <2> SUFFICES ASSUME s # r PROVE replica'[r] = replica[r]
        OBVIOUS
    <2>1. \E x : replica' = [replica EXCEPT ![s] = x]
        BY <1>1 DEF Start, Boot, Backfill, LockBackfill, TakeLock, ReadLedger, CheckConflicts, Assign,
                    CommitBackfill, ReadGate, CountUnmapped, ReplicaDies, Go
    <2> QED BY <1>r, <2>1
<1>2. CASE \E a \in Agents : UpsertAgent(a)
    BY <1>2 DEF UpsertAgent
<1>3. ASSUME NEW i \in Rows, Insert(i) \/ Update(i) \/ Write(i) PROVE FALSE
    BY <1>3 DEF Insert, Update, Write, CheckKeys, CommitRow, WriterAborts
<1>4. ASSUME NEW d \in Deleters, LockAgent(d) \/ Delete(d) PROVE FALSE
    BY <1>4 DEF LockAgent, Delete, DeleteMemories, DeleteChildren, DeleteAgent, DeleterAborts
<1>5. CASE (\E m \in Mems : NameBatch(m)) \/ UNCHANGED vars
    BY <1>5 DEF NameBatch, vars
<1> QED BY <1>1, <1>2, <1>3, <1>4, <1>5 DEF Next

\* So does a statement that writes a row,
LEMMA WriterMoves ==
    ASSUME TypeOK, [Next]_vars, NEW i \in Rows, writer'[i] # writer[i]
    PROVE  Insert(i) \/ Update(i) \/ Write(i)
<1>w. writer \in [Rows -> WriterState]
    BY TypeParts
<1>1. ASSUME NEW j \in Rows, Insert(j) \/ Update(j) \/ Write(j) PROVE j = i
    <2> SUFFICES ASSUME j # i PROVE writer'[i] = writer[i]
        OBVIOUS
    <2>1. \E x : writer' = [writer EXCEPT ![j] = x]
        BY <1>1, Inserted DEF Insert, Update, Write, CheckKeys, CommitRow, WriterAborts
    <2> QED BY <1>w, <2>1
<1>2. CASE \E a \in Agents : UpsertAgent(a)
    BY <1>2 DEF UpsertAgent
<1>3. ASSUME NEW r \in Replicas, Start(r) \/ Boot(r) \/ ReplicaDies(r) PROVE FALSE
    BY <1>3 DEF Start, Boot, Backfill, LockBackfill, ReadLedger, CheckConflicts, Assign,
                CommitBackfill, ReadGate, CountUnmapped, ReplicaDies
<1>4. ASSUME NEW d \in Deleters, LockAgent(d) \/ Delete(d) PROVE FALSE
    BY <1>4 DEF LockAgent, Delete, DeleteMemories, DeleteChildren, DeleteAgent, DeleterAborts
<1>5. CASE (\E m \in Mems : NameBatch(m)) \/ UNCHANGED vars
    BY <1>5 DEF NameBatch, vars
<1> QED BY <1>1, <1>2, <1>3, <1>4, <1>5 DEF Next

\* and a deletion.
LEMMA DeleterMoves ==
    ASSUME TypeOK, [Next]_vars, NEW d \in Deleters, deleter'[d] # deleter[d]
    PROVE  LockAgent(d) \/ Delete(d)
<1>t. deleter \in [Deleters -> DeleterState]
    BY TypeParts
<1>1. ASSUME NEW e \in Deleters, LockAgent(e) \/ Delete(e) PROVE e = d
    <2> SUFFICES ASSUME e # d PROVE deleter'[d] = deleter[d]
        OBVIOUS
    <2>1. \E x : deleter' = [deleter EXCEPT ![e] = x]
        BY <1>1 DEF LockAgent, Delete, DeleteMemories, DeleteChildren, DeleteAgent, DeleterAborts
    <2> QED BY <1>t, <2>1
<1>2. CASE \E a \in Agents : UpsertAgent(a)
    BY <1>2 DEF UpsertAgent
<1>3. ASSUME NEW r \in Replicas, Start(r) \/ Boot(r) \/ ReplicaDies(r) PROVE FALSE
    BY <1>3 DEF Start, Boot, Backfill, LockBackfill, ReadLedger, CheckConflicts, Assign,
                CommitBackfill, ReadGate, CountUnmapped, ReplicaDies
<1>4. ASSUME NEW i \in Rows, Insert(i) \/ Update(i) \/ Write(i) PROVE FALSE
    BY <1>4 DEF Insert, Update, Write, CheckKeys, CommitRow, WriterAborts
<1>5. CASE (\E m \in Mems : NameBatch(m)) \/ UNCHANGED vars
    BY <1>5 DEF NameBatch, vars
<1> QED BY <1>1, <1>2, <1>3, <1>4, <1>5 DEF Next

\* An agent's row changes by its creation, by the backfill that assigns it
\* and by its deletion.
AgentCreated(a) ==
    /\ ~Exists(a) /\ agents'[a] = [uuid |-> created + 1, tenant |-> None]
    /\ UNCHANGED <<ledger, child, memory, advisory, lock, replica, writer, deleter, faults>>

AgentAssigned(r, a) ==
    /\ CommitBackfill(r) /\ a \in replica[r].assigned
    /\ agents'[a] = [agents[a] EXCEPT !.tenant = Planned(replica[r].env, a)]

AgentDeleted(d, a) ==
    /\ DeleteAgent(d) /\ deleter[d].agent = a /\ deleter'[d].at = "deleted"
    /\ agents'[a] = NoAgent
    /\ child' = [i \in Rows |-> IF i \in deleter[d].doomed \cup Of(a, "archival_batches")
                                THEN NoRow ELSE child[i]]
    /\ Exists(a) => ~BlockedByRow(d)

\* Nobody else changes an agent's row.
LEMMA AgentChanges ==
    ASSUME IInv, [Next]_vars, NEW a \in Agents, agents'[a] # agents[a]
    PROVE  \/ AgentCreated(a)
           \/ \E r \in Replicas : AgentAssigned(r, a)
           \/ \E d \in Deleters : AgentDeleted(d, a)
<1>a. agents \in [Agents -> AgentRow] /\ deleter \in [Deleters -> DeleterState]
    BY TypeParts DEF IInv
<1>1. ASSUME NEW b \in Agents, UpsertAgent(b) PROVE AgentCreated(a)
    BY <1>1, <1>a DEF UpsertAgent, AgentCreated
<1>2. ASSUME NEW r \in Replicas, Start(r) \/ Boot(r) \/ ReplicaDies(r) PROVE AgentAssigned(r, a)
    <2>1. CommitBackfill(r)
        BY <1>2 DEF Start, Boot, Backfill, LockBackfill, ReadLedger, CheckConflicts, Assign,
                    ReadGate, CountUnmapped, ReplicaDies
    <2> QED BY <2>1 DEF CommitBackfill, AgentAssigned
<1>3. ASSUME NEW i \in Rows, Insert(i) \/ Update(i) \/ Write(i) PROVE FALSE
    BY <1>3 DEF Insert, Update, Write, CheckKeys, CommitRow, WriterAborts
<1>4. ASSUME NEW d \in Deleters, LockAgent(d) \/ Delete(d) PROVE AgentDeleted(d, a)
    <2>1. DeleteAgent(d)
        BY <1>4 DEF LockAgent, Delete, DeleteMemories, DeleteChildren, DeleterAborts
    <2>2. /\ deleter' = [deleter EXCEPT ![d].at = "deleted", ![d].swept = {}, ![d].doomed = {}]
          /\ agents' = [agents EXCEPT ![deleter[d].agent] = NoAgent]
          /\ child' = [i \in Rows |-> IF i \in deleter[d].doomed \cup Of(deleter[d].agent, "archival_batches")
                                      THEN NoRow ELSE child[i]]
          /\ ~(Exists(deleter[d].agent) /\ BlockedByRow(d))
        BY <2>1 DEF DeleteAgent
    <2>3. deleter[d].agent = a /\ agents'[a] = NoAgent
        BY <1>a, <2>2
    <2>4. deleter'[d].at = "deleted"
        BY <1>a, <2>2 DEF DeleterState
    <2> QED BY <2>1, <2>2, <2>3, <2>4 DEF AgentDeleted
<1>5. CASE (\E m \in Mems : NameBatch(m)) \/ UNCHANGED vars
    BY <1>5 DEF NameBatch, vars
<1> QED BY <1>1, <1>2, <1>3, <1>4, <1>5 DEF Next

\* A lock is taken from nobody while no key shares it, by a backfill that
\* assigns or a deletion that begins, and dropped by its holder's end.
LockTaken(a) ==
    /\ lock[a] = None /\ ~Shared(a)
    /\ UNCHANGED <<agents, child, writer>>

LockDropped(a) ==
    /\ lock'[a] = None
    /\ \/ lock[a] \in Replicas /\ replica'[lock[a]].at # "record"
       \/ lock[a] \in Deleters /\ deleter'[lock[a]].at \notin Deleting

\* No lock is taken or dropped otherwise.
LEMMA LockChanges ==
    ASSUME IInv, [Next]_vars, NEW a \in Agents, lock'[a] # lock[a]
    PROVE  LockTaken(a) \/ LockDropped(a)
<1>t. TypeOK /\ lock \in [Agents -> Replicas \cup Deleters \cup {None}]
      /\ replica \in [Replicas -> ReplicaState] /\ deleter \in [Deleters -> DeleterState]
    BY TypeParts DEF IInv
<1>e. ASSUME NEW r \in Replicas, EndTransaction(r), replica'[r].at # "record" PROVE LockDropped(a)
    BY <1>e, <1>t, EndTransactionLocks DEF LockDropped
<1>u. ASSUME NEW d \in Deleters, lock' = Unlocked(d), deleter'[d].at \notin Deleting
      PROVE  LockDropped(a)
    BY <1>u, <1>t, UnlockedLocks DEF LockDropped
<1>1. CASE \E b \in Agents : UpsertAgent(b)
    BY <1>1 DEF UpsertAgent
<1>2. ASSUME NEW r \in Replicas, Start(r) \/ LockBackfill(r) \/ ReadGate(r) \/ CountUnmapped(r) PROVE FALSE
    BY <1>2 DEF Start, LockBackfill, ReadGate, CountUnmapped
<1>3. ASSUME NEW r \in Replicas, ReadLedger(r) \/ CheckConflicts(r) PROVE LockDropped(a)
    <2>1. EndTransaction(r) /\ Go(r, "refused")
        BY <1>3 DEF ReadLedger, CheckConflicts
    <2>2. replica'[r].at = "refused"
        BY <1>t, <2>1, GoMoves DEF Places
    <2> QED BY <1>e, <2>1, <2>2
<1>4. ASSUME NEW r \in Replicas, Assign(r) PROVE LockTaken(a)
    <2>1. a \in Assignable(replica[r].env)
        BY <1>4, <1>t DEF Assign
    <2> QED BY <1>4, <2>1 DEF Assign, LockTaken
<1>5. ASSUME NEW r \in Replicas, CommitBackfill(r) \/ ReplicaDies(r) PROVE LockDropped(a)
    <2>1. EndTransaction(r)
        BY <1>5 DEF CommitBackfill, ReplicaDies
    <2>2. CASE CommitBackfill(r)
        <3>1. replica'[r].at = "gate"
            BY <1>t, <2>2 DEF CommitBackfill, ReplicaState
        <3> QED BY <1>e, <2>1, <3>1
    <2>3. CASE ReplicaDies(r)
        <3>1. replica'[r].at = "down"
            BY <1>t, <2>3 DEF ReplicaDies, Down
        <3> QED BY <1>e, <2>1, <3>1
    <2> QED BY <1>5, <2>2, <2>3
<1>6. ASSUME NEW i \in Rows, Insert(i) \/ Update(i) \/ Write(i) PROVE FALSE
    BY <1>6 DEF Insert, Update, Write, CheckKeys, CommitRow, WriterAborts
<1>7. ASSUME NEW d \in Deleters, LockAgent(d) PROVE LockTaken(a)
    <2>1. PICK b \in Agents : LockForUpdate(b, d)
        BY <1>7 DEF LockAgent
    <2>2. a = b
        BY <2>1, <1>t DEF LockForUpdate
    <2> QED BY <1>7, <2>1, <2>2 DEF LockAgent, LockForUpdate, LockTaken
<1>8. ASSUME NEW d \in Deleters, Delete(d) PROVE LockDropped(a)
    <2>1. DeleteAgent(d) \/ DeleterAborts(d)
        BY <1>8 DEF Delete, DeleteMemories, DeleteChildren
    <2>2. lock' = Unlocked(d)
        BY <2>1 DEF DeleteAgent, DeleterAborts
    <2>3. deleter'[d].at \in {"failed", "deleted", "aborted"}
        BY <1>t, <2>1 DEF DeleteAgent, DeleterAborts, DeleterState, Calm
    <2> QED BY <1>u, <2>2, <2>3 DEF Deleting
<1>9. CASE (\E m \in Mems : NameBatch(m)) \/ UNCHANGED vars
    BY <1>9 DEF NameBatch, vars
<1> QED BY <1>1, <1>2, <1>3, <1>4, <1>5, <1>6, <1>7, <1>8, <1>9 DEF Next, Boot, Backfill

-----------------------------------------------------------------------------
(***************************************************************************)
(* The invariant, conjunct by conjunct.                                    *)
(***************************************************************************)

\* An agent gets its id when it is created and keeps it when it is assigned.
LEMMA AgentsStep == IInv /\ [Next]_vars => AgentsInv'
<1> SUFFICES ASSUME IInv, [Next]_vars, NEW a \in Agents, agents'[a] # agents[a], agents'[a].uuid = 0
             PROVE  agents'[a] = NoAgent
    BY DEF IInv, AgentsInv
<1>t. TypeOK /\ agents[a] \in AgentRow /\ created \in Nat
    BY TypeParts, ConstantsAssumption DEF IInv
<1>1. ~AgentCreated(a)
    BY <1>t DEF AgentCreated
<1>2. ASSUME NEW r \in Replicas, AgentAssigned(r, a) PROVE FALSE
    <2>1. Exists(a)
        BY <1>2 DEF IInv, AssignInv, AgentAssigned, CommitBackfill
    <2>2. agents[a].uuid # 0
        BY <2>1 DEF IInv, AgentsInv, Exists
    <2> QED BY <1>2, <1>t, <2>2 DEF AgentAssigned, AgentRow
<1> QED BY <1>1, <1>2, AgentChanges DEF AgentDeleted

\* A replica enters its backfill with a valid plan, and keeps it there.
LEMMA PlansStep == IInv /\ [Next]_vars => PlansInv'
<1> DEFINE Planning == {"lock", "ledger", "conflicts", "assign", "record"}
<1> SUFFICES ASSUME IInv, [Next]_vars, NEW r \in Replicas, replica'[r].at \in Planning
             PROVE  replica'[r].env \in Envs /\ Valid(replica'[r].env) /\ replica'[r].env.mode # None
    BY DEF PlansInv, Valid
<1>t. TypeOK /\ replica \in [Replicas -> ReplicaState] /\ PlansInv
    BY TypeParts DEF IInv
<1>k. ASSUME replica[r].at \in Planning, replica'[r].env = replica[r].env
      PROVE  replica'[r].env \in Envs /\ Valid(replica'[r].env) /\ replica'[r].env.mode # None
    BY <1>k, <1>t DEF PlansInv
<1>p. Planning \subseteq Places /\ "refused" \in Places
    BY DEF Places
<1>1. CASE replica'[r] = replica[r]
    BY <1>1, <1>k
<1>2. CASE Start(r)
    <2>1. PICK env \in Envs :
            replica' = [replica EXCEPT ![r] =
                IF Valid(env)
                THEN [Down EXCEPT !.env = env, !.at = IF env.mode = None THEN "gate" ELSE "lock"]
                ELSE [Down EXCEPT !.at = "refused"]]
        BY <1>2 DEF Start
    <2>2. Valid(env) /\ env.mode # None
        BY <1>t, <2>1 DEF Down
    <2>3. replica'[r].env = env
        BY <1>t, <2>1, <2>2 DEF Down
    <2> QED BY <2>2, <2>3
<1>3. ASSUME \E at \in Planning \cup {"refused"} : Go(r, at), replica[r].at \in Planning
      PROVE  replica'[r].env \in Envs /\ Valid(replica'[r].env) /\ replica'[r].env.mode # None
    <2>1. PICK at \in Planning \cup {"refused"} : Go(r, at)
        BY <1>3
    <2>2. replica'[r].at = at /\ (at # "refused" => replica'[r].env = replica[r].env)
        BY <2>1, <1>t, <1>p, GoMoves
    <2> QED BY <1>3, <1>k, <2>2
<1>4. CASE LockBackfill(r) \/ ReadLedger(r) \/ CheckConflicts(r)
    BY <1>3, <1>4 DEF LockBackfill, TakeLock, ReadLedger, CheckConflicts
<1>5. CASE Assign(r)
    <2>1. replica'[r].env = replica[r].env /\ replica[r].at = "assign"
        BY <1>5, <1>t DEF Assign, ReplicaState
    <2> QED BY <1>k, <2>1
<1>6. CASE CommitBackfill(r) \/ ReadGate(r) \/ CountUnmapped(r) \/ ReplicaDies(r)
    <2>1. CASE CommitBackfill(r)
        BY <2>1, <1>t DEF CommitBackfill, ReplicaState
    <2>2. CASE ReadGate(r) \/ CountUnmapped(r)
        <3>1. \E at \in {"serving", "count", "refused", "multi"} : Go(r, at)
            BY <2>2 DEF ReadGate, CountUnmapped
        <3>2. {"serving", "count", "refused", "multi"} \subseteq Places
            BY DEF Places
        <3>3. replica'[r].at \in {"serving", "count", "refused", "multi"}
            BY <3>1, <3>2, <1>t, GoMoves
        <3> QED BY <3>3
    <2>3. CASE ReplicaDies(r)
        BY <2>3, <1>t DEF ReplicaDies, Down
    <2> QED BY <1>6, <2>1, <2>2, <2>3
<1> QED BY <1>1, <1>2, <1>4, <1>5, <1>6, <1>t, ReplicaMoves DEF Boot, Backfill

\* Only the replica that holds the advisory lock records a plan, and it read
\* the ledger while it held it: what it records is what is there.
LEMMA LedgerChanges ==
    ASSUME IInv, [Next]_vars
    PROVE  \/ ledger' = ledger
           \/ \E r \in Replicas : /\ replica[r].at = "record" /\ replica'[r].at = "gate"
                                  /\ \A s \in Replicas \ {r} : replica'[s] = replica[s]
                                  /\ ledger = {} /\ ledger' = {Entry(replica[r].env)}
<1>t. TypeOK /\ replica \in [Replicas -> ReplicaState]
    BY TypeParts DEF IInv
<1>1. ASSUME NEW r \in Replicas, CommitBackfill(r), ledger' # ledger
      PROVE  /\ replica[r].at = "record" /\ replica'[r].at = "gate"
             /\ \A s \in Replicas \ {r} : replica'[s] = replica[s]
             /\ ledger = {} /\ ledger' = {Entry(replica[r].env)}
    <2>1. replica[r].at = "record" /\ ledger' = ledger \cup {Entry(replica[r].env)}
        BY <1>1 DEF CommitBackfill
    <2>2. ledger = {}
        BY <1>1, <2>1 DEF IInv, LedgerInv
    <2>3. replica'[r].at = "gate" /\ \A s \in Replicas \ {r} : replica'[s] = replica[s]
        BY <1>1, <1>t DEF CommitBackfill, ReplicaState
    <2> QED BY <2>1, <2>2, <2>3
<1>2. ledger' = ledger \/ \E r \in Replicas : CommitBackfill(r)
    BY DEF Next, vars, UpsertAgent, Start, Boot, Backfill, LockBackfill, ReadLedger, CheckConflicts,
           Assign, ReadGate, CountUnmapped, ReplicaDies, Insert, Update, Write, CheckKeys, CommitRow,
           WriterAborts, LockAgent, Delete, DeleteMemories, DeleteChildren, DeleteAgent, DeleterAborts, NameBatch
<1> QED BY <1>1, <1>2

\* A replica gets past the ledger, or past the gate, on what the ledger says.
LEMMA LedgerStep == IInv /\ [Next]_vars => LedgerInv'
<1> SUFFICES ASSUME IInv, [Next]_vars PROVE LedgerInv'
    OBVIOUS
<1>t. TypeOK /\ LedgerInv /\ replica \in [Replicas -> ReplicaState]
    BY TypeParts DEF IInv
<1>p. {"conflicts", "assign", "record", "count", "multi", "refused", "serving", "gate", "ledger"} \subseteq Places
    BY DEF Places
<1>1. CASE ledger' = ledger
    <2> SUFFICES ASSUME NEW r \in Replicas
                 PROVE  /\ replica'[r].at \in {"conflicts", "assign", "record"} =>
                             ledger = {} \/ Entry(replica'[r].env) \in ledger
                        /\ replica'[r].at \in {"count", "multi"} => Entry(replica'[r].env) \in ledger
        BY <1>1, <1>t DEF LedgerInv, Entry
    <2>1. CASE replica'[r] = replica[r]
        BY <2>1, <1>t DEF LedgerInv
    <2>2. CASE Start(r)
        <3>1. PICK env \in Envs :
                replica' = [replica EXCEPT ![r] =
                    IF Valid(env)
                    THEN [Down EXCEPT !.env = env, !.at = IF env.mode = None THEN "gate" ELSE "lock"]
                    ELSE [Down EXCEPT !.at = "refused"]]
            BY <2>2 DEF Start
        <3>2. replica'[r].at \in {"gate", "lock", "refused"}
            BY <1>t, <3>1 DEF Down
        <3> QED BY <3>2
    <2>3. CASE LockBackfill(r)
        <3>1. replica'[r].at = "ledger"
            BY <2>3, <1>t, <1>p, GoMoves DEF LockBackfill, TakeLock
        <3> QED BY <3>1
    <2>4. CASE ReadLedger(r)
        <3>1. CASE /\ Go(r, "conflicts")
                   /\ ledger = {} \/ Entry(replica[r].env) \in ledger
            BY <3>1, <1>t, <1>p, GoMoves
        <3>2. CASE Go(r, "refused")
            <4>1. replica'[r].at = "refused"
                BY <3>2, <1>t, <1>p, GoMoves
            <4> QED BY <4>1
        <3> QED BY <2>4, <3>1, <3>2 DEF ReadLedger
    <2>5. CASE CheckConflicts(r)
        <3>1. replica[r].at = "conflicts"
            BY <2>5 DEF CheckConflicts
        <3>2. CASE Go(r, "assign")
            <4>1. replica'[r].at = "assign" /\ replica'[r].env = replica[r].env
                BY <3>2, <1>t, <1>p, GoMoves
            <4> QED BY <3>1, <4>1, <1>t DEF LedgerInv
        <3>3. CASE Go(r, "refused")
            <4>1. replica'[r].at = "refused"
                BY <3>3, <1>t, <1>p, GoMoves
            <4> QED BY <4>1
        <3> QED BY <2>5, <3>2, <3>3 DEF CheckConflicts
    <2>6. CASE Assign(r)
        <3>1. replica[r].at = "assign" /\ replica'[r].at = "record" /\ replica'[r].env = replica[r].env
            BY <2>6, <1>t DEF Assign, ReplicaState
        <3> QED BY <3>1, <1>t DEF LedgerInv
    <2>7. CASE CommitBackfill(r) \/ ReplicaDies(r)
        <3>1. replica'[r].at \in {"gate", "down"}
            BY <2>7, <1>t DEF CommitBackfill, ReplicaDies, Down, ReplicaState
        <3> QED BY <3>1
    <2>8. CASE ReadGate(r)
        <3>1. Go(r, "serving") \/ Go(r, "refused") \/ (Go(r, "count") /\ Entry(replica[r].env) \in ledger)
            BY <2>8 DEF ReadGate, Recorded
        <3>2. CASE Go(r, "serving") \/ Go(r, "refused")
            <4>1. replica'[r].at \in {"serving", "refused"}
                BY <3>2, <1>t, <1>p, GoMoves
            <4> QED BY <4>1
        <3>3. CASE Go(r, "count") /\ Entry(replica[r].env) \in ledger
            <4>1. replica'[r].at = "count" /\ replica'[r].env = replica[r].env
                BY <3>3, <1>t, <1>p, GoMoves
            <4> QED BY <3>3, <4>1
        <3> QED BY <3>1, <3>2, <3>3
    <2>9. CASE CountUnmapped(r)
        <3>1. replica[r].at = "count" /\ (Go(r, "multi") \/ Go(r, "refused"))
            BY <2>9 DEF CountUnmapped
        <3>2. CASE Go(r, "multi")
            <4>1. replica'[r].at = "multi" /\ replica'[r].env = replica[r].env
                BY <3>2, <1>t, <1>p, GoMoves
            <4> QED BY <3>1, <4>1, <1>t DEF LedgerInv
        <3>3. CASE Go(r, "refused")
            <4>1. replica'[r].at = "refused"
                BY <3>3, <1>t, <1>p, GoMoves
            <4> QED BY <4>1
        <3> QED BY <3>1, <3>2, <3>3
    <2> QED BY <2>1, <2>2, <2>3, <2>4, <2>5, <2>6, <2>7, <2>8, <2>9, <1>t, ReplicaMoves
            DEF Boot, Backfill
<1>2. CASE ledger' # ledger
    <2>1. PICK r \in Replicas :
            /\ replica[r].at = "record" /\ replica'[r].at = "gate"
            /\ \A s \in Replicas \ {r} : replica'[s] = replica[s]
            /\ ledger = {} /\ ledger' = {Entry(replica[r].env)}
        BY <1>2, LedgerChanges
    <2>2. \A s \in Replicas \ {r} : replica[s].at \notin {"conflicts", "assign", "record"}
        BY <1>t, <2>1, TypeParts DEF InBackfill
    <2>3. \A s \in Replicas : replica[s].at \notin {"count", "multi"}
        BY <1>t, <2>1 DEF LedgerInv
    <2> QED BY <2>1, <2>2, <2>3 DEF LedgerInv
<1> QED BY <1>1, <1>2

\* A replica gets to its record of what it assigns by assigning it.
LEMMA RecordReached ==
    ASSUME IInv, [Next]_vars, NEW r \in Replicas, replica'[r] # replica[r], replica'[r].at = "record"
    PROVE  Assign(r)
<1>t. TypeOK /\ replica \in [Replicas -> ReplicaState]
    BY TypeParts DEF IInv
<1>p. {"conflicts", "assign", "count", "multi", "refused", "serving", "ledger"} \subseteq Places
    BY DEF Places
<1>g. ASSUME NEW at \in Places \ {"record"}, Go(r, at) PROVE FALSE
    BY <1>g, <1>t, GoMoves
<1>1. ~Start(r)
    BY <1>t DEF Start, Down
<1>2. ~LockBackfill(r)
    BY <1>g, <1>p DEF LockBackfill, TakeLock
<1>3. ~ReadLedger(r) /\ ~CheckConflicts(r)
    BY <1>g, <1>p DEF ReadLedger, CheckConflicts
<1>4. ~CommitBackfill(r)
    BY <1>t DEF CommitBackfill, ReplicaState
<1>5. ~ReadGate(r) /\ ~CountUnmapped(r)
    <2>1. ASSUME ReadGate(r) PROVE FALSE
        <3>1. Go(r, "serving") \/ Go(r, "count") \/ Go(r, "refused")
            BY <2>1 DEF ReadGate
        <3> QED BY <3>1, <1>g, <1>p
    <2>2. ASSUME CountUnmapped(r) PROVE FALSE
        <3>1. Go(r, "multi") \/ Go(r, "refused")
            BY <2>2 DEF CountUnmapped
        <3> QED BY <3>1, <1>g, <1>p
    <2> QED BY <2>1, <2>2
<1>6. ~ReplicaDies(r)
    BY <1>t DEF ReplicaDies, Down
<1> QED BY <1>1, <1>2, <1>3, <1>4, <1>5, <1>6, <1>t, ReplicaMoves DEF Boot, Backfill

\* What a backfill is about to assign stays in its hands to the commit: the
\* agent can neither be deleted nor assigned by somebody else.
LEMMA AssignStep == IInv /\ [Next]_vars => AssignInv'
<1> SUFFICES ASSUME IInv, [Next]_vars,
                    NEW r \in Replicas, replica'[r].at = "record", NEW a \in replica'[r].assigned
             PROVE  lock'[a] = r /\ agents'[a] # NoAgent /\ agents'[a].tenant = None
    BY DEF AssignInv, Exists
<1>t. TypeOK /\ replica \in [Replicas -> ReplicaState]
    BY TypeParts DEF IInv
<1>1. CASE replica'[r] # replica[r]
    <2>1. Assign(r)
        BY <1>1, RecordReached
    <2>2. a \in Assignable(replica[r].env)
        BY <2>1, <1>t DEF Assign, ReplicaState
    <2>3. a \in Agents /\ lock'[a] = r /\ agents' = agents
        BY <2>1, <2>2 DEF Assign, Assignable
    <2> QED BY <2>2, <2>3 DEF Assignable, Exists
<1>2. CASE replica'[r] = replica[r]
    <2>1. replica[r].at = "record" /\ a \in replica[r].assigned /\ a \in Agents
        BY <1>2, <1>t DEF ReplicaState
    <2>2. lock[a] = r /\ Exists(a) /\ agents[a].tenant = None
        BY <2>1 DEF IInv, AssignInv
    <2>3. r # None /\ r \notin Deleters
        BY ConstantsAssumption
    <2>4. lock'[a] = lock[a]
        BY <2>1, <2>2, <2>3, LockChanges DEF LockTaken, LockDropped
    <2>5. ~AgentCreated(a)
        BY <2>2 DEF AgentCreated
    <2>6. ASSUME NEW s \in Replicas, AgentAssigned(s, a) PROVE FALSE
        <3>1. lock[a] = s
            BY <2>6 DEF IInv, AssignInv, AgentAssigned, CommitBackfill
        <3>2. replica'[s].at = "gate"
            BY <2>6, <1>t DEF AgentAssigned, CommitBackfill, ReplicaState
        <3> QED BY <3>1, <3>2, <2>2
    <2>7. ASSUME NEW d \in Deleters, AgentDeleted(d, a) PROVE FALSE
        BY <2>7, <2>2, <2>3 DEF AgentDeleted, DeleteAgent
    <2>8. agents'[a] = agents[a]
        BY <2>1, <2>5, <2>6, <2>7, AgentChanges
    <2> QED BY <2>2, <2>4, <2>8 DEF Exists
<1> QED BY <1>1, <1>2

\* A row that is about to be written has its agent's owner, which its share of
\* the agent's row keeps there to the commit.
LEMMA WritersStep == IInv /\ [Next]_vars => WritersInv'
<1> SUFFICES ASSUME IInv, [Next]_vars, NEW i \in Rows, writer'[i].at # "none"
             PROVE  LET row == writer'[i].new IN
                    /\ row \in ChildRows
                    /\ row.tenant # None => row.uuid # 0 /\ writer'[i].keyed
                    /\ writer'[i].at = "commit" /\ writer'[i].keyed => lock'[row.agent] = None
                    /\ writer'[i].at = "commit" /\ row.tenant # None =>
                           agents'[row.agent] = [uuid |-> row.uuid, tenant |-> row.tenant]
    BY DEF WritersInv
<1>t. TypeOK /\ writer \in [Rows -> WriterState]
    BY TypeParts DEF IInv
<1>1. CASE Insert(i) \/ Update(i)
    <2> DEFINE row(t, a) == [table |-> t, agent |-> a, uuid |-> agents[a].uuid, tenant |-> agents[a].tenant]
    <2>1. ASSUME NEW t \in Tables, NEW a \in Agents, NEW k,
                 writer' = [writer EXCEPT ![i] = [at |-> "keys", new |-> row(t, a), keyed |-> k]],
                 Owned(row(t, a)) => k
          PROVE  /\ writer'[i].at = "keys"
                 /\ writer'[i].new \in ChildRows
                 /\ writer'[i].new.tenant # None => writer'[i].new.uuid # 0 /\ writer'[i].keyed
        <3>1. writer'[i] = [at |-> "keys", new |-> row(t, a), keyed |-> k]
            BY <2>1, <1>t
        <3>2. writer'[i].at = "keys" /\ writer'[i].new = row(t, a) /\ writer'[i].keyed = k
            BY <3>1
        <3>3. row(t, a) \in ChildRows
            BY <1>t, OwnedRowTypes
        <3>4. row(t, a).tenant # None => row(t, a).uuid # 0
            BY DEF IInv, AgentsInv, NoAgent
        <3>5. row(t, a).tenant # None => k
            BY <2>1, <3>4 DEF Owned
        <3> HIDE DEF row
        <3> QED BY <3>2, <3>3, <3>4, <3>5
    <2>2. \E t \in Tables, a \in Agents : \E k :
            /\ writer' = [writer EXCEPT ![i] = [at |-> "keys", new |-> row(t, a), keyed |-> k]]
            /\ Owned(row(t, a)) => k
        <3>1. CASE Insert(i)
            <4>1. PICK t \in Tables, a \in Agents :
                    writer' = [writer EXCEPT ![i] = [at |-> "keys", new |-> row(t, a),
                                                     keyed |-> t = "archival_batches" \/ Owned(row(t, a))]]
                BY <3>1, <1>t, Inserted
            <4> HIDE DEF row
            <4> QED BY <4>1
        <3>2. CASE Update(i)
            <4>1. PICK t \in Tables, a \in Agents :
                    writer' = [writer EXCEPT ![i] = [at |-> "keys", new |-> row(t, a), keyed |-> Owned(row(t, a))]]
                BY <3>2, <1>t, Updated
            <4> HIDE DEF row
            <4> QED BY <4>1
        <3> QED BY <1>1, <3>1, <3>2
    <2> HIDE DEF row
    <2>3. /\ writer'[i].at = "keys"
          /\ writer'[i].new \in ChildRows
          /\ writer'[i].new.tenant # None => writer'[i].new.uuid # 0 /\ writer'[i].keyed
        BY <2>1, <2>2
    <2> QED BY <2>3
<1>2. CASE CheckKeys(i)
    <2> DEFINE row == writer[i].new
    <2>1. /\ writer[i].at = "keys"
          /\ writer[i].keyed => lock[row.agent] = None
          /\ writer' = [writer EXCEPT ![i] = IF writer[i].keyed /\ ~Matches(row) THEN Silent
                                             ELSE [writer[i] EXCEPT !.at = "commit"]]
          /\ agents' = agents /\ lock' = lock
        BY <1>2 DEF CheckKeys
    <2>2. ~(writer[i].keyed /\ ~Matches(row))
        BY <2>1, <1>t DEF Silent
    <2>3. writer'[i].at = "commit" /\ writer'[i].new = row /\ writer'[i].keyed = writer[i].keyed
        BY <2>1, <2>2, <1>t DEF WriterState
    <2>4. row \in ChildRows /\ (row.tenant # None => row.uuid # 0 /\ writer[i].keyed)
        BY <2>1 DEF IInv, WritersInv
    <2>5. row.tenant # None => agents[row.agent] = [uuid |-> row.uuid, tenant |-> row.tenant]
        BY <2>2, <2>4 DEF Matches, Owned
    <2> QED BY <2>1, <2>3, <2>4, <2>5
<1>3. CASE CommitRow(i) \/ WriterAborts(i)
    <2>1. writer'[i] = Silent
        BY <1>3, <1>t DEF CommitRow, WriterAborts
    <2> QED BY <2>1 DEF Silent
<1>4. CASE writer'[i] = writer[i]
    <2> DEFINE row == writer[i].new
               a == row.agent
    <2>1. /\ row \in ChildRows
          /\ row.tenant # None => row.uuid # 0 /\ writer[i].keyed
          /\ writer[i].at = "commit" /\ writer[i].keyed => lock[a] = None
          /\ writer[i].at = "commit" /\ row.tenant # None =>
                 agents[a] = [uuid |-> row.uuid, tenant |-> row.tenant]
        BY <1>4 DEF IInv, WritersInv
    <2>2. a \in Agents
        BY <2>1 DEF ChildRows
    <2>3. CASE writer[i].at = "commit" /\ writer[i].keyed
        <3>1. Shared(a) /\ lock[a] = None
            BY <2>1, <2>3 DEF Shared
        <3>2. lock'[a] = None
            BY <2>2, <3>1, LockChanges DEF LockTaken, LockDropped
        <3>3. ASSUME row.tenant # None PROVE agents'[a] = agents[a]
            <4>1. agents[a].tenant # None
                BY <2>1, <2>3, <3>3
            <4>2. ~AgentCreated(a)
                BY <4>1 DEF AgentCreated, Exists, NoAgent
            <4>3. ASSUME NEW r \in Replicas, AgentAssigned(r, a) PROVE FALSE
                BY <4>1, <4>3 DEF AgentAssigned, CommitBackfill, IInv, AssignInv
            <4>4. ASSUME NEW d \in Deleters, AgentDeleted(d, a) PROVE FALSE
                BY <4>4, <3>1 DEF AgentDeleted, DeleteAgent
            <4> QED BY <2>2, <4>2, <4>3, <4>4, AgentChanges
        <3> HIDE DEF row, a
        <3> QED BY <1>4, <2>1, <2>3, <3>2, <3>3 DEF row, a
    <2>4. CASE ~(writer[i].at = "commit" /\ writer[i].keyed)
        BY <1>4, <2>1, <2>4
    <2> QED BY <2>3, <2>4
<1> QED BY <1>1, <1>2, <1>3, <1>4, <1>t, WriterMoves DEF Write

\* A row changes when its own statement commits, or goes with an agent.
LEMMA ChildChanges ==
    ASSUME IInv, [Next]_vars, NEW i \in Rows, child'[i] # child[i]
    PROVE  \/ CommitRow(i) /\ child'[i] = writer[i].new
           \/ child'[i] = NoRow
<1>t. child \in [Rows -> ChildRows \cup {NoRow}]
    BY TypeParts DEF IInv
<1>1. ASSUME NEW j \in Rows, Insert(j) \/ Update(j) \/ Write(j)
      PROVE  CommitRow(i) /\ child'[i] = writer[i].new
    <2>1. CommitRow(j)
        BY <1>1 DEF Insert, Update, Write, CheckKeys, WriterAborts
    <2>2. child' = [child EXCEPT ![j] = writer[j].new]
        BY <2>1 DEF CommitRow
    <2>3. j = i
        BY <1>t, <2>2
    <2> QED BY <1>t, <2>1, <2>2, <2>3
<1>2. CASE \E a \in Agents : UpsertAgent(a)
    BY <1>2 DEF UpsertAgent
<1>3. ASSUME NEW r \in Replicas, Start(r) \/ Boot(r) \/ ReplicaDies(r) PROVE FALSE
    BY <1>3 DEF Start, Boot, Backfill, LockBackfill, ReadLedger, CheckConflicts, Assign,
                CommitBackfill, ReadGate, CountUnmapped, ReplicaDies
<1>4. ASSUME NEW d \in Deleters, LockAgent(d) \/ Delete(d) PROVE child'[i] = NoRow
    BY <1>4 DEF LockAgent, Delete, DeleteMemories, DeleteChildren, DeleteAgent, DeleterAborts
<1>5. CASE (\E m \in Mems : NameBatch(m)) \/ UNCHANGED vars
    BY <1>5 DEF NameBatch, vars
<1> QED BY <1>1, <1>2, <1>3, <1>4, <1>5 DEF Next

\* A deletion that found its agent holds its row to the end, and no policy
\* with a tenant comes in behind the statement that emptied the table: its
\* keys would have to wait for the agent.
LEMMA DeletersStep == IInv /\ [Next]_vars => DeletersInv'
<1> SUFFICES ASSUME IInv, [Next]_vars, NEW d \in Deleters
             PROVE  /\ deleter'[d].at \in Deleting => deleter'[d].agent \in Agents
                    /\ deleter'[d].found /\ deleter'[d].at \in Deleting =>
                           lock'[deleter'[d].agent] = d
                    /\ deleter'[d].found /\ deleter'[d].at = "agent" =>
                           \A i \in Rows : /\ child'[i].agent = deleter'[d].agent
                                           /\ child'[i].table = "rmk_policies"
                                           /\ i \notin deleter'[d].doomed
                                           => child'[i].tenant = None
    BY DEF DeletersInv, Of
<1>t. TypeOK /\ deleter \in [Deleters -> DeleterState] /\ lock \in [Agents -> Replicas \cup Deleters \cup {None}]
    BY TypeParts DEF IInv
<1>d. d # None /\ d \notin Replicas
    BY ConstantsAssumption
<1>i. /\ deleter[d].at \in Deleting => deleter[d].agent \in Agents
      /\ deleter[d].found /\ deleter[d].at \in Deleting => lock[deleter[d].agent] = d
      /\ deleter[d].found /\ deleter[d].at = "agent" =>
             \A i \in Rows : /\ child[i].agent = deleter[d].agent
                             /\ child[i].table = "rmk_policies"
                             /\ i \notin deleter[d].doomed
                             => child[i].tenant = None
    BY DEF IInv, DeletersInv, Of
<1>1. CASE LockAgent(d)
    <2>1. PICK a \in Agents :
            /\ LockForUpdate(a, d)
            /\ deleter' = [deleter EXCEPT ![d] = [Calm EXCEPT !.at = "memories", !.agent = a, !.found = Exists(a)]]
        BY <1>1 DEF LockAgent
    <2>2. deleter'[d] = [Calm EXCEPT !.at = "memories", !.agent = a, !.found = Exists(a)]
        BY <2>1, <1>t
    <2>3. deleter'[d].at = "memories" /\ deleter'[d].agent = a /\ deleter'[d].found = Exists(a)
        BY <2>2 DEF Calm
    <2>4. Exists(a) => lock'[a] = d
        BY <2>1, <1>t DEF LockForUpdate
    <2> QED BY <2>3, <2>4 DEF Deleting
<1>m. CASE DeleteMemories(d)
    <2>1. /\ deleter[d].at = "memories"
          /\ deleter' = [deleter EXCEPT ![d].at = "children", ![d].swept = InBatchesOf(deleter[d].agent)]
          /\ lock' = lock
        BY <1>m DEF DeleteMemories
    <2>2. /\ deleter'[d].at = "children" /\ deleter'[d].agent = deleter[d].agent
          /\ deleter'[d].found = deleter[d].found
        BY <2>1, <1>t DEF DeleterState
    <2> QED BY <1>i, <2>1, <2>2 DEF Deleting
<1>2. CASE DeleteChildren(d)
    <2>1. /\ deleter[d].at = "children"
          /\ deleter' = [deleter EXCEPT ![d].at = "agent", ![d].doomed = Of(deleter[d].agent, "rmk_policies")]
          /\ child' = child /\ lock' = lock
        BY <1>2 DEF DeleteChildren
    <2>2. /\ deleter'[d].at = "agent" /\ deleter'[d].agent = deleter[d].agent
          /\ deleter'[d].found = deleter[d].found
          /\ deleter'[d].doomed = Of(deleter[d].agent, "rmk_policies")
        BY <2>1, <1>t DEF DeleterState
    <2> QED BY <1>i, <2>1, <2>2 DEF Of, Deleting
<1>3. CASE DeleteAgent(d) \/ DeleterAborts(d)
    <2>1. deleter'[d].at \in {"deleted", "failed", "aborted"}
        BY <1>3, <1>t DEF DeleteAgent, DeleterAborts, DeleterState, Calm
    <2> QED BY <2>1 DEF Deleting
<1>4. CASE deleter'[d] = deleter[d]
    <2> DEFINE a == deleter[d].agent
    <2>1. ASSUME deleter[d].found, deleter[d].at \in Deleting PROVE lock'[a] = d
        <3>1. lock[a] = d /\ a \in Agents
            BY <1>i, <2>1
        <3> QED BY <3>1, <2>1, <1>4, <1>d, LockChanges DEF LockTaken, LockDropped
    <2>2. ASSUME deleter[d].found, deleter[d].at = "agent", NEW i \in Rows,
                 child'[i].agent = a, child'[i].table = "rmk_policies",
                 i \notin deleter[d].doomed
          PROVE  child'[i].tenant = None
        <3>1. CASE child'[i] = child[i]
            BY <1>i, <2>2, <3>1
        <3>2. CASE child'[i] = NoRow
            BY <3>2 DEF NoRow
        <3>3. CASE CommitRow(i) /\ child'[i] = writer[i].new
            <4>1. lock[a] = d
                BY <1>i, <2>2 DEF Deleting
            <4>2. writer[i].at = "commit" /\ writer[i].new.agent = a
                BY <2>2, <3>3 DEF CommitRow
            <4>3. writer[i].new.tenant # None => lock[a] = None
                BY <4>2 DEF IInv, WritersInv
            <4> QED BY <3>3, <4>1, <4>3, <1>d
        <3> QED BY <3>1, <3>2, <3>3, ChildChanges
    <2> HIDE DEF a
    <2> QED BY <1>i, <1>4, <2>1, <2>2 DEF a
<1> QED BY <1>1, <1>m, <1>2, <1>3, <1>4, <1>t, DeleterMoves DEF Delete

\* A row with a tenant is written with its agent's owner; the agent then
\* keeps both, for a backfill only assigns agents that have none, and a
\* deletion takes the row along or is refused.
LEMMA RowsStep == IInv /\ [Next]_vars => OwnedRowsAgree'
<1> SUFFICES ASSUME IInv, [Next]_vars, NEW i \in Rows, child'[i].tenant # None
             PROVE  agents'[child'[i].agent] = [uuid |-> child'[i].uuid, tenant |-> child'[i].tenant]
    BY DEF OwnedRowsAgree
<1>t. TypeOK
    BY DEF IInv
<1>1. CASE CommitRow(i) /\ child'[i] = writer[i].new
    <2>1. writer[i].at = "commit" /\ agents' = agents
        BY <1>1 DEF CommitRow
    <2> QED BY <1>1, <2>1 DEF IInv, WritersInv
<1>2. CASE child'[i] = NoRow
    BY <1>2 DEF NoRow
<1>3. CASE child'[i] = child[i]
    <2> DEFINE a == child[i].agent
    <2>1. child[i] \in ChildRows /\ child[i].tenant # None
        BY <1>3, <1>t, RowIsThere DEF NoRow
    <2>2. a \in Agents /\ child[i].table \in Tables
        BY <2>1 DEF ChildRows
    <2>3. agents[a] = [uuid |-> child[i].uuid, tenant |-> child[i].tenant]
        BY <2>1 DEF IInv, OwnedRowsAgree
    <2>4. agents[a].tenant # None /\ agents[a].uuid = child[i].uuid
        BY <2>1, <2>3
    <2>5. Exists(a) /\ child[i].uuid # 0
        BY <2>2, <2>4 DEF IInv, AgentsInv, Exists, NoAgent
    <2>6. ~AgentCreated(a)
        BY <2>5 DEF AgentCreated
    <2>7. ASSUME NEW r \in Replicas, AgentAssigned(r, a) PROVE FALSE
        BY <2>4, <2>7 DEF AgentAssigned, CommitBackfill, IInv, AssignInv
    <2>8. ASSUME NEW d \in Deleters, AgentDeleted(d, a) PROVE FALSE
        <3>1. i \notin deleter[d].doomed \cup Of(a, "archival_batches")
            BY <2>1, <2>8, <1>3 DEF AgentDeleted, NoRow
        <3>2. i \in Of(a, "rmk_policies") \ deleter[d].doomed
            BY <2>2, <3>1 DEF Of, Tables
        <3>3. Owned(child[i])
            BY <2>1, <2>5 DEF Owned
        <3>4. deleter[d].agent = a
            BY <2>8 DEF AgentDeleted
        <3>5. BlockedByRow(d)
            BY <2>4, <3>2, <3>3, <3>4 DEF BlockedByRow
        <3> QED BY <2>5, <2>8, <3>5 DEF AgentDeleted
    <2>9. agents'[a] = agents[a]
        BY <2>2, <2>6, <2>7, <2>8, AgentChanges
    <2> QED BY <1>3, <2>3, <2>9
<1> QED BY <1>1, <1>2, <1>3, ChildChanges

\* What refuses a deletion that holds its agent is not a policy: it emptied that
\* table under its lock.
LEMMA RefusalsStep ==
    ASSUME IInv, [Next]_vars, NEW d \in Deleters, deleter[d].found, deleter[d].at = "agent", deleter'[d].at = "failed"
    PROVE  /\ InBatchesOf(deleter[d].agent) \ deleter[d].swept # {}
           /\ \A i \in Rows : /\ child[i].agent = deleter[d].agent
                              /\ child[i].table = "rmk_policies" /\ Owned(child[i])
                              => i \in deleter[d].doomed
<1>t. deleter \in [Deleters -> DeleterState]
    BY TypeParts DEF IInv
<1>1. ~LockAgent(d) /\ ~DeleteMemories(d) /\ ~DeleteChildren(d)
    BY DEF LockAgent, DeleteMemories, DeleteChildren
<1>2. ~DeleterAborts(d)
    BY <1>t DEF DeleterAborts, Calm
<1>3. DeleteAgent(d)
    BY <1>1, <1>2, DeleterMoves DEF IInv, Delete
<1>4. BlockedByRow(d) \/ BlockedByMemory(d)
    BY <1>3, <1>t DEF DeleteAgent, DeleterState
<1>5. \A i \in Of(deleter[d].agent, "rmk_policies") \ deleter[d].doomed : child[i].tenant = None
    BY DEF IInv, DeletersInv
<1>6. ~BlockedByRow(d)
    BY <1>5 DEF BlockedByRow, Owned
<1> QED BY <1>4, <1>5, <1>6 DEF BlockedByMemory, Of, Owned

-----------------------------------------------------------------------------
(***************************************************************************)
(* The theorems.                                                           *)
(***************************************************************************)

\* Nobody has started, written or deleted yet.
LEMMA InvInit == Init => IInv
<1> SUFFICES ASSUME Init PROVE IInv
    OBVIOUS
<1>1. TypeOK
    BY TypeInit
<1>2. AgentsInv
    <2>1. ASSUME NEW a \in Agents, agents[a].uuid = 0 PROVE agents[a] = NoAgent
        <3>1. agents[a] = NoAgent \/ agents[a] = [uuid |-> 1, tenant |-> None]
            BY DEF Init
        <3> QED BY <2>1, <3>1
    <2> QED BY <2>1 DEF AgentsInv
<1>3. \A r \in Replicas : replica[r].at = "down"
    BY DEF Init, Down
<1>4. PlansInv /\ LedgerInv /\ AssignInv
    BY <1>3 DEF Init, PlansInv, LedgerInv, AssignInv
<1>5. WritersInv
    BY DEF Init, WritersInv, Silent
<1>6. \A d \in Deleters : deleter[d].at = "none" /\ ~deleter[d].found
    BY DEF Init, Calm
<1>7. DeletersInv
    BY <1>6 DEF DeletersInv, Deleting
<1>8. OwnedRowsAgree
    BY DEF Init, OwnedRowsAgree, NoRow
<1> QED BY <1>1, <1>2, <1>4, <1>5, <1>7, <1>8 DEF IInv

\* The conjuncts of the invariant hold at every step of any run.
THEOREM Invariance == Spec => []IInv
<1>1. IInv /\ [Next]_vars => IInv'
    BY TypeStep, AgentsStep, PlansStep, LedgerStep, AssignStep, WritersStep, DeletersStep,
       RowsStep DEF IInv
<1> QED BY <1>1, InvInit, PTL DEF Spec

\* Variables keep their types, and the advisory lock belongs to the replica
\* that is between taking it and the end of its transaction.
THEOREM TypeCorrect == Spec => []TypeOK
<1>1. IInv => TypeOK
    BY DEF IInv
<1> QED BY <1>1, Invariance, PTL

\* However many replicas start with whatever plans, one plan is recorded, and
\* a replica that serves in multi-tenant mode has it.
THEOREM OnePlan == Spec => []OnePlanEver
<1>1. ASSUME IInv PROVE OnePlanEver
    <2>0. \A d, e \in ledger : d = e
        BY <1>1 DEF IInv, LedgerInv
    <2>1. ledger = {} \/ \E e : ledger = {e}
        BY <2>0
    <2>2. ASSUME ledger = {} PROVE Cardinality(ledger) = 0
        BY <2>2, FS_EmptySet
    <2>3. ASSUME \E e : ledger = {e} PROVE Cardinality(ledger) = 1
        BY <2>3, FS_Singleton
    <2>4. Cardinality(ledger) <= 1
        BY <2>1, <2>2, <2>3
    <2> QED BY <1>1, <2>4 DEF IInv, LedgerInv, OnePlanEver
<1> QED BY <1>1, Invariance, PTL

\* A row that carries a tenant has its agent's owner, whatever is written,
\* assigned, deleted and created again at the same time.
THEOREM RowsAgree == Spec => []OwnedRowsAgree
<1>1. IInv => OwnedRowsAgree
    BY DEF IInv
<1> QED BY <1>1, Invariance, PTL

\* What RefusedOnlyForACompaction says of one step.
Refusals ==
    \A d \in Deleters : deleter[d].found /\ deleter[d].at = "agent" /\ deleter'[d].at = "failed" =>
        /\ InBatchesOf(deleter[d].agent) \ deleter[d].swept # {}
        /\ \A i \in Rows : child[i].agent = deleter[d].agent /\ child[i].table = "rmk_policies" /\ Owned(child[i])
            => i \in deleter[d].doomed

\* A deletion that found its agent is refused by nothing but a memory that a compaction
\* stored with one of the agent's batches after the deletion had emptied memories
\* (delete_agent, FOR UPDATE; memories.archival_batch_id).
THEOREM DeletionsRefused == Spec => RefusedOnlyForACompaction
<1>1. IInv /\ [Next]_vars => [Refusals]_vars
    BY RefusalsStep DEF Refusals
<1>2. Spec => [][Refusals]_vars
    BY <1>1, Invariance, PTL DEF Spec
<1> QED BY <1>2 DEF RefusedOnlyForACompaction, Refusals
=============================================================================
