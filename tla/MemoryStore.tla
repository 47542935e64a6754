----------------------------- MODULE MemoryStore -----------------------------
(***************************************************************************)
(* The rows of `memories` and `memory_versions` under concurrent requests  *)
(* of the management API: create, patch, status, label, archive, restore   *)
(* and delete (api.rs, memory/store.rs), with the detection of conflicts   *)
(* a create leaves behind (memory/conflicts.rs).                           *)
(*                                                                         *)
(* Three shared resources decide what the requests do to each other: the   *)
(* row lock a statement takes and an open transaction keeps, the pool of   *)
(* connections, from which a patch takes a second one while it holds its   *)
(* first, and the provider outside the deployment, to which texts are      *)
(* sent between a read of the row's label and the write of the row.        *)
(* A content is named by the request that wrote it.                        *)
(***************************************************************************)
EXTENDS Naturals, Sequences, FiniteSets

CONSTANTS
    Requests,         \* one handler each
    Memories,         \* ids of rows, in use or to come
    Stored,           \* the rows there are at the start
    NoOne,            \* no request: the writer of the first contents
    PoolSize,         \* DB_MAX_CONNECTIONS
    LocalLane,        \* whether LOCAL_EMBEDDING_BASE_URL is set
    DetectConflicts,  \* CONFLICT_DETECTION_ENABLED
    MaxFaults         \* bound: handlers dropped before they end

ASSUME ConstantsAssumption ==
    /\ Memories # {} /\ Stored \subseteq Memories
    /\ NoOne \notin Requests
    /\ PoolSize \in Nat \ {0}
    /\ LocalLane \in BOOLEAN
    /\ DetectConflicts \in BOOLEAN
    /\ MaxFaults \in Nat

VARIABLES
    memory,     \* the committed rows of memories
    versions,   \* the committed rows of memory_versions, by version_number
    lock,       \* who holds the row's lock in an open transaction
    conflicts,  \* the pairs in memory_conflicts
    req,        \* per request: what it asks, how far its handler is, and
                \* whether its version and its change parted (torn)
    shielded,   \* per request: rows labelled private from its arrival on
    remote,     \* what was sent to the remote provider, and its label then
    faults

vars == <<memory, versions, lock, conflicts, req, shielded, remote, faults>>

\* "private" stands for private and secret, which no code tells apart, and
\* "unknown" for the other three labels.
Labels == {"unknown", "private"}
Statuses == {"active", "suppressed"}
Lives == {"unborn", "live", "archived", "deleted"}
Ops == {"create", "patch", "status", "label", "archive", "restore", "delete"}

\* embeddings::is_private_sensitivity.
IsPrivate(label) == label = "private"

-----------------------------------------------------------------------------
(* Where a handler is.                                                     *)

Idle == [op |-> "create", on |-> CHOOSE m \in Memories : TRUE, at |-> "idle", arg |-> "unknown",
         next |-> 0, torn |-> FALSE, cands |-> {}]

InTx == {"next_ver", "version", "commit"}          \* its row is locked
HoldsConnection == {"update"} \cup InTx
WaitsForPool == {"read_label", "begin", "next_ver", "version", "dedup", "insert", "detect", "conflict"}

InUse == {r \in Requests : req[r].at \in HoldsConnection}
PoolHasOne == Cardinality(InUse) < PoolSize

\* A new request's first stop.
Entry(op) == CASE op = "patch" -> "read_label"
               [] op = "create" -> "dedup"
               [] OTHER -> "begin"

Goto(r, at) == req' = [req EXCEPT ![r].at = at]

\* A handler ends, with whatever answer, and its locals are gone.
End(r, torn) ==
    req' = [req EXCEPT ![r] = [Idle EXCEPT !.on = req[r].on, !.at = "ended", !.torn = req[r].torn \/ torn]]

\* Mutation: the update of a patch or of a status leaves no row lock behind.
TakeNothing(r) == UNCHANGED lock
\* The row lock of an UPDATE is kept to the end of its transaction ...
Take(r) == lock' = [lock EXCEPT ![req[r].on] = r]

\* ... and dropped with it.
Release(r) ==
    lock' = [m \in Memories |-> IF lock[m] = r THEN NoOne ELSE lock[m]]

-----------------------------------------------------------------------------
Present(m) == memory[m].life \in {"live", "archived"}

Row(life, content) ==
    [life |-> life, content |-> content, status |-> "active", label |-> "unknown"]

Version(content, status, by) == [content |-> content, status |-> status, by |-> by]

Latest(m) == versions[m][Len(versions[m])]

Init ==
    /\ memory = [m \in Memories |-> Row(IF m \in Stored THEN "live" ELSE "unborn", NoOne)]
    /\ versions = [m \in Memories |->
            IF m \in Stored THEN <<Version(NoOne, "active", NoOne)>> ELSE <<>>]
    /\ lock = [m \in Memories |-> NoOne]
    /\ conflicts = {}
    /\ req = [r \in Requests |-> Idle]
    /\ shielded = [r \in Requests |-> {}]
    /\ remote = {}
    /\ faults = 0

\* A request arrives. A create will use an id no other one uses.
Arrive(r) ==
    /\ req[r].at = "idle"
    /\ \E op \in Ops, m \in Memories, arg \in Labels \cup Statuses :
        /\ op = "create" =>
            /\ memory[m].life = "unborn"
            /\ \A q \in Requests : req[q].at # "idle" => req[q].on # m
        /\ op # "create" => Present(m)
        /\ arg \in CASE op = "label" -> Labels [] op = "status" -> Statuses [] OTHER -> {"unknown"}
        /\ req' = [req EXCEPT ![r] = [@ EXCEPT !.op = op, !.on = m, !.arg = arg, !.at = Entry(op)]]
    /\ shielded' = [shielded EXCEPT ![r] = {m \in Memories : Present(m) /\ IsPrivate(memory[m].label)}]
    /\ UNCHANGED <<memory, versions, lock, conflicts, remote, faults>>

-----------------------------------------------------------------------------
(* What is sent to the remote embedder or extractor, with the label the    *)
(* row has at that moment.                                                 *)
Send(r, via, ms) ==
    remote' = remote \cup {[via |-> via, label |-> memory[m].label, shielded |-> m \in shielded[r]] : m \in ms}

\* PATCH /memories/:id reads the label that routes the new content.
ReadLabel(r) ==
    /\ req[r].at = "read_label"
    /\ PoolHasOne
    /\ IF Present(req[r].on)
       THEN req' = [req EXCEPT ![r].at = "embed", ![r].arg = memory[req[r].on].label]
       ELSE End(r, FALSE)
    /\ UNCHANGED <<memory, versions, lock, conflicts, shielded, remote, faults>>

\* Mutation: without a local lane the remote one serves every label.
LaneOfNoRefusal(label) == IF IsPrivate(label) /\ LocalLane THEN "local" ELSE "remote"
\* embed_text_for_sensitivity.
LaneOf(label) == CASE ~IsPrivate(label) -> "remote" [] LocalLane -> "local" [] OTHER -> "refused"

EmbedPatch(r) ==
    LET lane == LaneOf(req[r].arg) IN
    /\ req[r].at = "embed"
    /\ IF lane = "remote" THEN Send(r, "embedder", {req[r].on}) ELSE UNCHANGED remote
    /\ IF lane = "refused" THEN End(r, FALSE) ELSE Goto(r, "begin")
    /\ UNCHANGED <<memory, versions, lock, conflicts, shielded, faults>>

\* A connection for a transaction, or for a statement of its own.
Begin(r) ==
    /\ req[r].at = "begin"
    /\ PoolHasOne
    /\ Goto(r, "update")
    /\ UNCHANGED <<memory, versions, lock, conflicts, shielded, remote, faults>>

-----------------------------------------------------------------------------
(* The statement on the row of memories. It waits for the row's lock, and  *)
(* its WHERE clause is evaluated on the row it then finds.                 *)

RowIsFree(r) == req[r].at = "update" /\ lock[req[r].on] = NoOne

\* update_memory_content and patch_memory_status: the change stays
\* uncommitted, and with it the lock. The meta read in the same transaction
\* is of a row nobody else can change.
OpenChange(r) ==
    /\ RowIsFree(r)
    /\ req[r].op \in {"patch", "status"}
    /\ IF memory[req[r].on].life = "live"
       THEN /\ Take(r)
            /\ Goto(r, IF req[r].op = "patch" THEN "next_ver" ELSE "version")
       ELSE /\ End(r, FALSE)
            /\ UNCHANGED lock
    /\ UNCHANGED <<memory, versions, conflicts, shielded, remote, faults>>

\* The single statements: label, archive (also in bulk), restore.
ChangeRow(r) ==
    LET m == req[r].on
        hit == memory[m].life = (IF req[r].op = "restore" THEN "archived" ELSE "live")
        new == CASE req[r].op = "label" -> [memory[m] EXCEPT !.label = req[r].arg]
                 [] req[r].op = "archive" -> [memory[m] EXCEPT !.life = "archived"]
                 [] OTHER -> [memory[m] EXCEPT !.life = "live"]
    IN
    /\ RowIsFree(r)
    /\ req[r].op \in {"label", "archive", "restore"}
    /\ IF hit THEN memory' = [memory EXCEPT ![m] = new] ELSE UNCHANGED memory
    /\ shielded' = IF hit /\ ~IsPrivate(new.label)
                   THEN [q \in Requests |-> shielded[q] \ {m}] ELSE shielded
    /\ End(r, FALSE)
    /\ UNCHANGED <<versions, lock, conflicts, remote, faults>>

\* DELETE takes the versions and the conflicts of the row along.
DeleteRow(r) ==
    LET m == req[r].on IN
    /\ RowIsFree(r)
    /\ req[r].op = "delete"
    /\ memory' = [memory EXCEPT ![m].life = IF Present(m) THEN "deleted" ELSE @]
    /\ versions' = [versions EXCEPT ![m] = <<>>]
    /\ conflicts' = {c \in conflicts : m \notin c}
    /\ End(r, FALSE)
    /\ UNCHANGED <<lock, shielded, remote, faults>>

\* A near-duplicate only bumps the access counter of the row it repeats.
BumpDuplicate(r) ==
    /\ RowIsFree(r)
    /\ req[r].op = "create"
    /\ End(r, FALSE)
    /\ UNCHANGED <<memory, versions, lock, conflicts, shielded, remote, faults>>

-----------------------------------------------------------------------------
(* The version row, over a second connection of the pool.                  *)

\* create_memory_version's first statement.
NextVersion(r) ==
    /\ req[r].at = "next_ver"
    /\ PoolHasOne
    /\ req' = [req EXCEPT ![r].at = "version", ![r].next = Len(versions[req[r].on]) + 1]
    /\ UNCHANGED <<memory, versions, lock, conflicts, shielded, remote, faults>>

\* Mutation: the new status is bound to the wrong column.
PendingSwapped(r) ==
    IF req[r].op = "patch" THEN [memory[req[r].on] EXCEPT !.content = r]
                           ELSE [memory[req[r].on] EXCEPT !.label = req[r].arg]
\* What the open transaction will make of the row.
Pending(r) ==
    IF req[r].op = "patch" THEN [memory[req[r].on] EXCEPT !.content = r]
                           ELSE [memory[req[r].on] EXCEPT !.status = req[r].arg]

Append1(m, v) == versions' = [versions EXCEPT ![m] = Append(@, v)]

\* Its INSERT, which commits at once; a number taken meanwhile violates
\* UNIQUE (memory_id, version_number). A status change computes the number
\* in the INSERT itself.
InsertVersion(r) ==
    LET m == req[r].on
        new == Pending(r)
        collides == req[r].op = "patch" /\ req[r].next # Len(versions[m]) + 1
    IN
    /\ req[r].at = "version"
    /\ PoolHasOne
    /\ IF collides
       THEN /\ End(r, FALSE)
            /\ Release(r)
            /\ UNCHANGED versions
       ELSE /\ Append1(m, Version(new.content, new.status, r))
            /\ Goto(r, "commit")
            /\ UNCHANGED lock
    /\ UNCHANGED <<memory, conflicts, shielded, remote, faults>>

Commit(r) ==
    /\ req[r].at = "commit"
    /\ memory' = [memory EXCEPT ![req[r].on] = Pending(r)]
    /\ Release(r)
    /\ End(r, FALSE)
    /\ UNCHANGED <<versions, conflicts, shielded, remote, faults>>

-----------------------------------------------------------------------------
(* POST /agents/:id/memories: store_memory, then the spawned detection.    *)

\* The nearest live row is within the threshold, or it is not.
CheckDuplicate(r) ==
    /\ req[r].at = "dedup"
    /\ PoolHasOne
    /\ \/ \E m \in Memories : memory[m].life = "live" /\ req' = [req EXCEPT ![r].at = "begin", ![r].on = m]
       \/ Goto(r, "insert")
    /\ UNCHANGED <<memory, versions, lock, conflicts, shielded, remote, faults>>

\* store_memory_with_tier: the row and its version 1, in one transaction.
InsertMemory(r) ==
    LET m == req[r].on IN
    /\ req[r].at = "insert"
    /\ PoolHasOne
    /\ memory' = [memory EXCEPT ![m] = Row("live", r)]
    /\ versions' = [versions EXCEPT ![m] = <<Version(r, "active", r)>>]
    /\ IF DetectConflicts THEN Goto(r, "detect") ELSE End(r, FALSE)
    /\ UNCHANGED <<lock, conflicts, shielded, remote, faults>>

\* Mutation: the candidates are not filtered by label.
CandidatesOfAnyLabel(r) == {m \in Memories \ {req[r].on} : memory[m].life = "live"}
\* run_detection's candidates.
Candidates(r) ==
    {m \in Memories \ {req[r].on} : memory[m].life = "live" /\ ~IsPrivate(memory[m].label)}

FetchCandidates(r) ==
    /\ req[r].at = "detect"
    /\ PoolHasOne
    /\ IF Candidates(r) = {}
       THEN End(r, FALSE)
       ELSE req' = [req EXCEPT ![r].cands = Candidates(r), ![r].at = "prompt"]
    /\ UNCHANGED <<memory, versions, lock, conflicts, shielded, remote, faults>>

\* The new text and the candidates' go to the extractor, which may fail.
Prompt(r) ==
    /\ req[r].at = "prompt"
    /\ Send(r, "extractor", req[r].cands \cup {req[r].on})
    /\ Goto(r, "conflict") \/ End(r, FALSE)
    /\ UNCHANGED <<memory, versions, lock, conflicts, shielded, faults>>

\* The flagged pairs are stored one by one; a row deleted since fails its
\* foreign key, which is only logged.
StoreConflicts(r) ==
    /\ req[r].at = "conflict"
    /\ PoolHasOne
    /\ \E flagged \in SUBSET req[r].cands :
        conflicts' = conflicts \cup
            {{m, req[r].on} : m \in {x \in flagged : Present(x) /\ Present(req[r].on)}}
    /\ End(r, FALSE)
    /\ UNCHANGED <<memory, versions, lock, shielded, remote, faults>>

-----------------------------------------------------------------------------
\* Mutation: a handler waits for the pool without a bound.
NeverGivesUp(r) == FALSE
\* No connection came back within DB_ACQUIRE_TIMEOUT_SECS.
GivesUp(r) == req[r].at \in WaitsForPool /\ ~PoolHasOne

\* The error ends the handler and rolls its transaction back, except that a
\* status change ignores the failure of its version row and that a detection
\* has nobody to report to.
AcquireTimesOut(r) ==
    /\ GivesUp(r)
    /\ IF req[r].op = "status" /\ req[r].at = "version"
       THEN /\ req' = [req EXCEPT ![r].at = "commit", ![r].torn = TRUE]
            /\ UNCHANGED lock
       ELSE /\ End(r, FALSE)
            /\ Release(r)
    /\ UNCHANGED <<memory, versions, conflicts, shielded, remote, faults>>

\* A statement or a call fails, the client goes away and its handler's future
\* is dropped, or the process dies: the open transaction is rolled back.
Drop(r) ==
    /\ req[r].at \notin {"idle", "ended"}
    /\ faults < MaxFaults
    /\ faults' = faults + 1
    /\ End(r, req[r].at = "commit")
    /\ Release(r)
    /\ UNCHANGED <<memory, versions, conflicts, shielded, remote>>

Step(r) ==
    \/ ReadLabel(r) \/ EmbedPatch(r) \/ Begin(r)
    \/ OpenChange(r) \/ ChangeRow(r) \/ DeleteRow(r) \/ BumpDuplicate(r)
    \/ NextVersion(r) \/ InsertVersion(r) \/ Commit(r)
    \/ CheckDuplicate(r) \/ InsertMemory(r)
    \/ FetchCandidates(r) \/ Prompt(r) \/ StoreConflicts(r)
    \/ AcquireTimesOut(r)

Next == \E r \in Requests : Arrive(r) \/ Step(r) \/ Drop(r)

Spec == Init /\ [][Next]_vars

\* Handlers are tasks of a multi-threaded runtime: each one that can go on
\* does, and a wait for the pool ends.
Fairness == \A r \in Requests : WF_vars(Step(r))

FairSpec == Spec /\ Fairness

-----------------------------------------------------------------------------
(* Properties                                                              *)

\* Every variable has its type; versions are kept for rows that are there
\* (the foreign key of memory_versions cascades).
TypeOK ==
    /\ memory \in [Memories -> [life : Lives, content : Requests \cup {NoOne}, status : Statuses, label : Labels]]
    /\ versions \in [Memories ->
            Seq([content : Requests \cup {NoOne}, status : Statuses, by : Requests \cup {NoOne}])]
    /\ lock \in [Memories -> Requests \cup {NoOne}]
    /\ conflicts \subseteq SUBSET Memories
    /\ req \in [Requests -> [op : Ops, on : Memories, at : {"idle", "read_label", "embed", "begin", "update",
                                 "next_ver", "version", "commit", "dedup", "insert", "detect", "prompt",
                                 "conflict", "ended"},
                             arg : Labels \cup Statuses, next : Nat, torn : BOOLEAN,
                             cands : SUBSET Memories]]
    /\ shielded \in [Requests -> SUBSET Memories]
    /\ remote \subseteq [via : {"embedder", "extractor"}, label : Labels, shielded : BOOLEAN]
    /\ faults \in 0..MaxFaults
    /\ \A m \in Memories : ~Present(m) => versions[m] = <<>>

\* A row at rest is told by its latest version, content and status, unless a
\* handler was torn: dropped between the commit of its version and its own,
\* or left without a version by an exhausted pool. This rests on the row
\* lock, which the connection that writes the version does not hold
\* (update_memory_content, patch_memory_status).
Untorn(m) == \A r \in Requests : req[r].on = m => ~req[r].torn
LatestVersionAgrees ==
    \A m \in Memories :
        (Present(m) /\ lock[m] = NoOne /\ Untorn(m)) =>
            /\ versions[m] # <<>>
            /\ Latest(m).content = memory[m].content
            /\ Latest(m).status = memory[m].status

\* The version number a patch reads on one connection is still free when it
\* inserts it on another: UNIQUE (memory_id, version_number) never fails.
NumbersNeverCollide ==
    \A r \in Requests :
        (req[r].at = "version" /\ req[r].op = "patch") =>
            req[r].next = Len(versions[req[r].on]) + 1

\* A memory labelled private or secret before a request arrived, and ever
\* since, is never sent to the remote provider on its behalf.
LabelledBeforeStaysLocal == \A s \in remote : ~s.shielded

\* However few the connections, every request ends: patches that hold one
\* each and wait for a second give up (DB_ACQUIRE_TIMEOUT_SECS).
EveryRequestEnds == \A r \in Requests : req[r].at # "idle" ~> req[r].at = "ended"

\* The detection's prompt holds no text of a memory that is labelled
\* private: "labeled private/secret content can never reach this prompt"
\* (conflicts.rs:65).
NoLabelledTextInPrompts == \A s \in remote : s.via = "extractor" => ~IsPrivate(s.label)
=============================================================================
