------------------------------- MODULE Archival -------------------------------
(***************************************************************************)
(* L2 -> L3 compaction of one agent's memories and its reversal.           *)
(*                                                                         *)
(* archive_agent runs in the archival job of every kernel process and in   *)
(* the trigger endpoint; nothing keeps two runs for one agent apart.  A    *)
(* run reads its candidates, waits for the compaction LLM, inserts the     *)
(* batch row, waits for the embeddings, stores each L3 row and then        *)
(* tombstones its candidates, each in a statement of its own.  A restore   *)
(* is three statements as well.  Operators archive, restore, delete and    *)
(* label memories and the proxy retrieves them at any time in between.     *)
(*                                                                         *)
(* Contents, scores and ages are abstracted to what the statements select  *)
(* by; all sources are old enough to be archived.                          *)
(***************************************************************************)
EXTENDS Integers, FiniteSets

CONSTANTS
  Sources,        \* the agent's L2 memories
  CreatedAt,      \* when each of them was created
  Batches,        \* archival_batches ids that may be drawn
  NoBatch,        \* archival_batch_id IS NULL
  Compactors,     \* tasks that run archive_agent
  Restorers,      \* requests that restore a batch
  MinMemories,    \* ARCHIVAL_MIN_MEMORIES
  FetchLimit,     \* LIMIT of the candidate query (50 in archive_agent)
  Facts,          \* facts of a compaction; its narrative is text Facts + 1
  MaxTouches,     \* bound: operator and retrieval actions
  MaxFaults       \* bound: crashes and failed statements

ASSUME CreatedAtAssumption == CreatedAt \in [Sources -> Nat]
ASSUME BatchIdAssumption == NoBatch \notin Batches
ASSUME FactsAssumption == Facts \in Nat \ {0}
ASSUME RowIdAssumption == \A m \in Sources, b \in Batches, i \in 1..(Facts + 1) : m # <<b, i>>
ASSUME BoundsAssumption == MaxTouches \in Nat /\ MaxFaults \in Nat

VARIABLES
  life,        \* per row: "none" (not inserted), live, archived, deleted, failed (to insert)
  tag,         \* per row: memories.archival_batch_id
  accessed,    \* sources with access_count > 0
  important,   \* sources with importance_score >= 0.9
  private,     \* sources labelled private or secret
  batchStatus, \* archival_batches.status, "none" before the INSERT
  stage,       \* per compactor: where archive_agent is
  candidates,  \* per compactor: the ids it fetched
  batch,       \* per compactor: its batch_id
  vectors,     \* per batch: the number of embeddings its run got, once it has an answer
  restoring,   \* per restorer: the batch it restores
  restoreStep, \* per restorer: the statement it runs next
  touches, faults,
  \* History, read by the properties only.
  sourcesOf,   \* the candidates a batch was created for
  unembedded,  \* batches whose embedding call failed
  byHand,      \* rows an operator was the last to archive or to bring back
  spoiled      \* batches restored while still being built, or only in part

history == <<sourcesOf, unembedded, byHand, spoiled>>
tables == <<life, tag, accessed, important, private, batchStatus>>
compaction == <<stage, candidates, batch, vectors>>
restore == <<restoring, restoreStep>>
bounds == <<touches, faults>>
vars == <<tables, compaction, restore, bounds, history>>

NoAnswer == -1
Narrative == Facts + 1
Texts == 1..Narrative                 \* texts_to_embed: the facts, the narrative last
L3Rows == Batches \X Texts
Rows == Sources \cup L3Rows
Lives == {"none", "live", "archived", "deleted", "failed"}
Stages == {"idle", "compacting", "embedding", "storing", "tombstoning"}
RestoreSteps == {"idle", "l2", "l3"}

Init ==
  /\ life = [r \in Rows |-> IF r \in Sources THEN "live" ELSE "none"]
  /\ tag = [r \in Rows |-> NoBatch]
  /\ accessed = {}
  /\ important = {}
  /\ private = {}
  /\ batchStatus = [b \in Batches |-> "none"]
  /\ stage = [c \in Compactors |-> "idle"]
  /\ candidates = [c \in Compactors |-> {}]
  /\ batch = [c \in Compactors |-> NoBatch]
  /\ vectors = [b \in Batches |-> NoAnswer]
  /\ restoring = [x \in Restorers |-> NoBatch]
  /\ restoreStep = [x \in Restorers |-> "idle"]
  /\ touches = 0
  /\ faults = 0
  /\ sourcesOf = [b \in Batches |-> {}]
  /\ unembedded = {}
  /\ byHand = {}
  /\ spoiled = {}

Fault == faults < MaxFaults /\ faults' = faults + 1 /\ UNCHANGED touches
Touch == touches < MaxTouches /\ touches' = touches + 1 /\ UNCHANGED faults

MoveTo(c, from, to) ==
  /\ stage[c] = from
  /\ stage' = [stage EXCEPT ![c] = to]

\* Mutation: the batch id outlives the run.
LeaveKeepingBatch(c) ==
  /\ stage' = [stage EXCEPT ![c] = "idle"]
  /\ candidates' = [candidates EXCEPT ![c] = {}]
  /\ UNCHANGED batch

Leave(c) ==
  /\ stage' = [stage EXCEPT ![c] = "idle"]
  /\ candidates' = [candidates EXCEPT ![c] = {}]
  /\ batch' = [batch EXCEPT ![c] = NoBatch]

(***************************************************************************)
(* archive_agent.                                                          *)
(***************************************************************************)

\* The predicate of fetch_archivable_memories; it also asks for tier 'L2'.
Archivable == {m \in Sources : life[m] = "live" /\ m \notin accessed \cup important \cup private}

\* ORDER BY created_at ASC LIMIT FetchLimit
Oldest(S) ==
  {T \in SUBSET S :
     /\ T = S \/ Cardinality(T) = FetchLimit
     /\ Cardinality(T) <= FetchLimit
     /\ \A m \in T, n \in S \ T : CreatedAt[m] <= CreatedAt[n]}

FetchCandidates(c) ==
  /\ MoveTo(c, "idle", "compacting")
  /\ \E T \in Oldest(Archivable) :
       /\ Cardinality(T) >= MinMemories
       /\ candidates' = [candidates EXCEPT ![c] = T]
  /\ UNCHANGED <<tables, batch, vectors, restore, bounds, history>>

\* The LLM call fails, or its answer holds no facts: nothing was changed yet.
CompactionYieldsNothing(c) ==
  /\ stage[c] = "compacting"
  /\ Leave(c)
  /\ UNCHANGED <<tables, vectors, restore, bounds, history>>

\* The LLM answered: INSERT INTO archival_batches, whose status defaults to
\* 'completed' although nothing is stored yet.
CreateArchivalBatch(c) ==
  /\ MoveTo(c, "compacting", "embedding")
  /\ \E b \in Batches :
       /\ batchStatus[b] = "none"
       /\ batchStatus' = [batchStatus EXCEPT ![b] = "completed"]
       /\ batch' = [batch EXCEPT ![c] = b]
       /\ sourcesOf' = [sourcesOf EXCEPT ![b] = candidates[c]]
  /\ UNCHANGED <<life, tag, accessed, important, private, candidates, vectors, restore, bounds,
                 unembedded, byHand, spoiled>>

\* embed_texts takes whatever "data" array the endpoint returned: nobody compares
\* its length with the number of texts.  A compaction without a narrative is
\* one of Facts vectors.
EmbeddingsArrive(c) ==
  /\ MoveTo(c, "embedding", "storing")
  /\ \E k \in 0..Narrative : vectors' = [vectors EXCEPT ![batch[c]] = k]
  /\ UNCHANGED <<tables, candidates, batch, restore, bounds, history>>

\* Mutation: the error is logged and the run goes on to the tombstones.
EmbeddingFailsOpen(c) ==
  /\ MoveTo(c, "embedding", "tombstoning")
  /\ unembedded' = unembedded \cup {batch[c]}
  /\ UNCHANGED <<tables, candidates, batch, vectors, restore, bounds, sourcesOf, byHand, spoiled>>

\* fail_archival_batch sets a column, completed_at, that archival_batches does
\* not have: the statement errs, the error is logged and the row stays as it is.
EmbeddingFails(c) ==
  /\ stage[c] = "embedding"
  /\ unembedded' = unembedded \cup {batch[c]}
  /\ Leave(c)
  /\ UNCHANGED <<tables, vectors, restore, bounds, sourcesOf, byHand, spoiled>>

\* Facts with a vector that the run has not come to yet.
Pending(c) == {i \in 1..Facts : i <= vectors[batch[c]] /\ life[<<batch[c], i>>] = "none"}

\* store_memory_with_tier(..., "L3", ..., Some(batch_id)); an error is logged.
StoreL3(c, i) ==
  \/ /\ life' = [life EXCEPT ![<<batch[c], i>>] = "live"]
     /\ tag' = [tag EXCEPT ![<<batch[c], i>>] = batch[c]]
  \/ /\ life' = [life EXCEPT ![<<batch[c], i>>] = "failed"]
     /\ UNCHANGED tag

\* The next fact; the loop breaks at the first one without a vector.
StoreFact(c) ==
  /\ stage[c] = "storing"
  /\ \E i \in Pending(c) :
       /\ \A j \in Pending(c) : i <= j
       /\ StoreL3(c, i)
  /\ UNCHANGED <<accessed, important, private, batchStatus, compaction, restore, bounds, history>>

\* The narrative, if a vector is left for it.
StoreNarrative(c) ==
  /\ MoveTo(c, "storing", "tombstoning")
  /\ Pending(c) = {}
  /\ \/ vectors[batch[c]] >= Narrative /\ StoreL3(c, Narrative)
     \/ vectors[batch[c]] < Narrative /\ UNCHANGED <<life, tag>>
  /\ UNCHANGED <<accessed, important, private, batchStatus, candidates, batch, vectors, restore,
                 bounds, history>>

\* Mutation: only rows that are still live are tombstoned, and none is tagged.
TombstoneUntagged(c) ==
  /\ stage[c] = "tombstoning"
  /\ LET hit == {m \in candidates[c] : life[m] = "live"} IN
       /\ life' = [r \in Rows |-> IF r \in hit THEN "archived" ELSE life[r]]
       /\ byHand' = byHand \ hit
  /\ Leave(c)
  /\ UNCHANGED <<tag, accessed, important, private, batchStatus, vectors, restore, bounds,
                 sourcesOf, unembedded, spoiled>>

\* UPDATE memories SET archived_at, archival_batch_id WHERE id IN candidates:
\* whatever became of the rows since they were fetched.
TombstoneWithBatch(c) ==
  /\ stage[c] = "tombstoning"
  /\ LET hit == {m \in candidates[c] : life[m] # "deleted"} IN
       /\ life' = [r \in Rows |-> IF r \in hit THEN "archived" ELSE life[r]]
       /\ tag' = [r \in Rows |-> IF r \in hit THEN batch[c] ELSE tag[r]]
       /\ byHand' = byHand \ hit
  /\ Leave(c)
  /\ UNCHANGED <<accessed, important, private, batchStatus, vectors, restore, bounds,
                 sourcesOf, unembedded, spoiled>>

\* The process dies, or the INSERT of the batch or the tombstone UPDATE errs.
CompactionAborts(c) ==
  /\ stage[c] # "idle"
  /\ Fault
  /\ Leave(c)
  /\ UNCHANGED <<tables, vectors, restore, history>>

(***************************************************************************)
(* restore_archival_batch: guard, L2 back, L3 away.                        *)
(***************************************************************************)

\* Mutation: the guard reads the status and forgets to change it.
BeginRestoreUnguarded(x, b) ==
  /\ restoreStep[x] = "idle"
  /\ batchStatus[b] = "completed"
  /\ restoring' = [restoring EXCEPT ![x] = b]
  /\ restoreStep' = [restoreStep EXCEPT ![x] = "l2"]
  /\ UNCHANGED <<tables, compaction, bounds, history>>

\* UPDATE archival_batches SET status = 'restored' WHERE status = 'completed';
\* zero rows end the request.
BeginRestore(x, b) ==
  /\ restoreStep[x] = "idle"
  /\ batchStatus[b] = "completed"
  /\ batchStatus' = [batchStatus EXCEPT ![b] = "restored"]
  /\ restoring' = [restoring EXCEPT ![x] = b]
  /\ restoreStep' = [restoreStep EXCEPT ![x] = "l2"]
  /\ spoiled' = IF \E c \in Compactors : batch[c] = b THEN spoiled \cup {b} ELSE spoiled
  /\ UNCHANGED <<life, tag, accessed, important, private, compaction, bounds,
                 sourcesOf, unembedded, byHand>>

SetLife(S, to) == life' = [r \in Rows |-> IF r \in S THEN to ELSE life[r]]

RestoreL2(x) ==
  /\ restoreStep[x] = "l2"
  /\ LET back == {m \in Sources : tag[m] = restoring[x] /\ life[m] = "archived"} IN
       SetLife(back, "live") /\ byHand' = byHand \ back
  /\ restoreStep' = [restoreStep EXCEPT ![x] = "l3"]
  /\ UNCHANGED <<tag, accessed, important, private, batchStatus, compaction, restoring, bounds,
                 sourcesOf, unembedded, spoiled>>

EndRestore(x) ==
  /\ restoring' = [restoring EXCEPT ![x] = NoBatch]
  /\ restoreStep' = [restoreStep EXCEPT ![x] = "idle"]

\* Mutation: the narrative is forgotten.
TombstoneFactOnly(x) ==
  /\ restoreStep[x] = "l3"
  /\ LET gone == {r \in L3Rows : tag[r] = restoring[x] /\ life[r] = "live" /\ r[2] # Narrative} IN
       SetLife(gone, "archived") /\ byHand' = byHand \ gone
  /\ EndRestore(x)
  /\ UNCHANGED <<tag, accessed, important, private, batchStatus, compaction, bounds,
                 sourcesOf, unembedded, spoiled>>

TombstoneL3(x) ==
  /\ restoreStep[x] = "l3"
  /\ LET gone == {r \in L3Rows : tag[r] = restoring[x] /\ life[r] = "live"} IN
       SetLife(gone, "archived") /\ byHand' = byHand \ gone
  /\ EndRestore(x)
  /\ UNCHANGED <<tag, accessed, important, private, batchStatus, compaction, bounds,
                 sourcesOf, unembedded, spoiled>>

\* The process dies, or a statement errs, between the three statements; a
\* second request finds the batch restored already.
RestoreAborts(x) ==
  /\ restoreStep[x] # "idle"
  /\ Fault
  /\ spoiled' = spoiled \cup {restoring[x]}
  /\ EndRestore(x)
  /\ UNCHANGED <<tables, compaction, sourcesOf, unembedded, byHand>>

(***************************************************************************)
(* Everybody else who writes memories.                                     *)
(***************************************************************************)

LiveRows == {r \in Rows : life[r] = "live"}

\* bulk_operation_memories("archive"): the live rows a filter selects.
BulkArchive(S) ==
  /\ Touch
  /\ SetLife(S, "archived")
  /\ byHand' = byHand \cup S
  /\ UNCHANGED <<tag, accessed, important, private, batchStatus, compaction, restore,
                 sourcesOf, unembedded, spoiled>>

RestoreMemory(r) ==
  /\ life[r] = "archived"
  /\ Touch
  /\ SetLife({r}, "live")
  /\ byHand' = byHand \cup {r}
  /\ UNCHANGED <<tag, accessed, important, private, batchStatus, compaction, restore,
                 sourcesOf, unembedded, spoiled>>

\* bulk_operation_memories("delete").
BulkDelete(S) ==
  /\ Touch
  /\ SetLife(S, "deleted")
  /\ UNCHANGED <<tag, accessed, important, private, batchStatus, compaction, restore, history>>

DeleteMemory(r) ==
  /\ life[r] \in {"live", "archived"}
  /\ Touch
  /\ SetLife({r}, "deleted")
  /\ UNCHANGED <<tag, accessed, important, private, batchStatus, compaction, restore, history>>

\* bump_access_counts, spawned by a retrieval of the row when it was live: the
\* boost may lift the importance over 0.9.
Retrieve(m) ==
  /\ life[m] \in {"live", "archived"}
  /\ Touch
  /\ accessed' = accessed \cup {m}
  /\ important' \in {important, important \cup {m}}
  /\ UNCHANGED <<life, tag, private, batchStatus, compaction, restore, history>>

\* patch_memory_sensitivity: private or secret, or back.
Label(m) ==
  /\ life[m] = "live"
  /\ Touch
  /\ private' \in {private \cup {m}, private \ {m}}
  /\ UNCHANGED <<life, tag, accessed, important, batchStatus, compaction, restore, history>>

-----------------------------------------------------------------------------

Compact(c) ==
  \/ FetchCandidates(c) \/ CompactionYieldsNothing(c) \/ CreateArchivalBatch(c)
  \/ EmbeddingsArrive(c) \/ EmbeddingFails(c) \/ StoreFact(c) \/ StoreNarrative(c)
  \/ TombstoneWithBatch(c) \/ CompactionAborts(c)

Restore(x) ==
  \/ \E b \in Batches : BeginRestore(x, b)
  \/ RestoreL2(x) \/ TombstoneL3(x) \/ RestoreAborts(x)

Others ==
  \/ \E S \in SUBSET LiveRows \ {{}} : BulkArchive(S) \/ BulkDelete(S)
  \/ \E r \in Rows : RestoreMemory(r) \/ DeleteMemory(r)
  \/ \E m \in Sources : Retrieve(m) \/ Label(m)

Next ==
  \/ \E c \in Compactors : Compact(c)
  \/ \E x \in Restorers : Restore(x)
  \/ Others

Spec == Init /\ [][Next]_vars

-----------------------------------------------------------------------------

(***************************************************************************)
(* Properties.                                                             *)
(***************************************************************************)

\* Every variable keeps its type, and the locals of a run exist exactly while
\* it runs: a batch from its INSERT on, a batch to restore until the last
\* statement of the restore.
TypeOK ==
  /\ life \in [Rows -> Lives]
  /\ tag \in [Rows -> Batches \cup {NoBatch}]
  /\ accessed \subseteq Sources
  /\ important \subseteq Sources
  /\ private \subseteq Sources
  /\ batchStatus \in [Batches -> {"none", "completed", "restored", "failed"}]
  /\ stage \in [Compactors -> Stages]
  /\ candidates \in [Compactors -> SUBSET Sources]
  /\ batch \in [Compactors -> Batches \cup {NoBatch}]
  /\ vectors \in [Batches -> 0..Narrative \cup {NoAnswer}]
  /\ restoring \in [Restorers -> Batches \cup {NoBatch}]
  /\ restoreStep \in [Restorers -> RestoreSteps]
  /\ touches \in 0..MaxTouches
  /\ faults \in 0..MaxFaults
  /\ sourcesOf \in [Batches -> SUBSET Sources]
  /\ unembedded \subseteq Batches
  /\ byHand \subseteq Rows
  /\ spoiled \subseteq Batches
  /\ \A c \in Compactors : batch[c] = NoBatch <=> stage[c] \in {"idle", "compacting"}
  /\ \A x \in Restorers : restoring[x] = NoBatch <=> restoreStep[x] = "idle"

\* Two requests never revert the same batch: the status guard of
\* restore_archival_batch lets one of them through, whatever the overlap.
RestoreRunsOnce ==
  \A x, y \in Restorers :
    restoring[x] = restoring[y] /\ restoring[x] # NoBatch => x = y

\* A memory that a compaction archived names a batch that was created for it,
\* however many compactions overlapped on it: without the tag no restore could
\* ever find it (tombstone_memories_with_batch).
ArchivedNamesItsBatch ==
  \A m \in Sources :
    /\ tag[m] # NoBatch => m \in sourcesOf[tag[m]]
    /\ life[m] = "archived" /\ m \notin byHand => tag[m] # NoBatch

\* A memory is archived by a compaction only once the embeddings of what
\* replaces it had arrived and the INSERT of every fact that got one was tried,
\* whichever run tagged it last: a run that failed before, or died, left its
\* sources alone (archive_agent tombstones last).
CompressedBeforeArchived ==
  \A m \in Sources :
    life[m] = "archived" /\ m \notin byHand =>
      /\ vectors[tag[m]] # NoAnswer
      /\ \A i \in 1..Facts : i <= vectors[tag[m]] => life[<<tag[m], i>>] # "none"

\* What b archived is back and what b produced is gone, except for the rows an
\* operator archived or brought back since.
Reverted(b) ==
  /\ \A m \in Sources \ byHand : tag[m] = b => life[m] # "archived"
  /\ \A r \in L3Rows \ byHand : tag[r] = b => life[r] # "live"

BeingRestored(b) == \E x \in Restorers : restoring[x] = b

\* A restore that met a finished compaction and ran to its end reverted the
\* whole batch, and it stays reverted whatever other compactions, restores and
\* operators do (restore_archival_batch).
UndisturbedRestoreReverts ==
  \A b \in Batches \ spoiled :
    batchStatus[b] = "restored" /\ ~BeingRestored(b) => Reverted(b)

\* README.md: any batch can be restored with a single call. Violated without a
\* fault: the row of a batch is 'completed' from its INSERT on, so a restore can
\* run before the compaction stores and tombstones anything.
RestoredMeansReverted ==
  \A b \in Batches : batchStatus[b] = "restored" /\ ~BeingRestored(b) => Reverted(b)

\* archival.rs: compressed facts are stored and then the originals tombstoned; a
\* run without facts skips the deletion.  Violated: an answer with fewer vectors
\* than texts, or INSERTs that fail, store less or nothing, and the sources are
\* tombstoned all the same.
ArchivedMeansReplaced ==
  \A m \in Sources :
    life[m] = "archived" /\ m \notin byHand =>
      \A i \in 1..Facts : life[<<tag[m], i>>] \notin {"none", "failed"}

\* store.rs on fail_archival_batch and migration 0010: a failed compaction can
\* be told from a successful one. Violated: the UPDATE names a column that does
\* not exist, its error is only logged, and the batch stays 'completed'.
FailedBatchIsMarked ==
  \A b \in unembedded : batchStatus[b] = "failed"
=============================================================================
