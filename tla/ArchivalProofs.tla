---------------------------- MODULE ArchivalProofs ----------------------------
(***************************************************************************)
(* Proofs about Archival, for any sources, batches, overlapping runs,      *)
(* restores, operator actions and faults.                                  *)
(***************************************************************************)
EXTENDS Archival, TLAPS

\* A batch id in use names a batch that was inserted, for the run's candidates.
BatchesExist ==
  /\ \A c \in Compactors : batch[c] # NoBatch =>
       batchStatus[batch[c]] # "none" /\ sourcesOf[batch[c]] = candidates[c]
  /\ \A r \in Rows : tag[r] # NoBatch => batchStatus[tag[r]] # "none"
  /\ \A x \in Restorers : restoring[x] # NoBatch => batchStatus[restoring[x]] = "restored"

\* The embeddings of a batch arrive once, on the way to its rows: no other run has
\* the batch.
VectorsArriveOnce ==
  /\ \A b \in Batches : batchStatus[b] = "none" => vectors[b] = NoAnswer
  /\ \A c \in Compactors : stage[c] = "embedding" => vectors[batch[c]] = NoAnswer
  /\ \A c \in Compactors : stage[c] \in {"storing", "tombstoning"} => vectors[batch[c]] # NoAnswer
  /\ \A c, d \in Compactors : batch[c] = batch[d] /\ batch[c] # NoBatch => c = d

\* The embeddings of b have arrived and the INSERT of each fact with one was tried.
AllTried(b) ==
  /\ vectors[b] # NoAnswer
  /\ \A i \in 1..Facts : i <= vectors[b] => life[<<b, i>>] # "none"

\* So it is of a batch that is about to tombstone, or has tagged a source.
FactsTried ==
  /\ \A c \in Compactors : stage[c] = "tombstoning" => AllTried(batch[c])
  /\ \A m \in Sources : tag[m] # NoBatch => AllTried(tag[m])

\* No run can add to b any more, and the half of its restore that is done stays
\* done: its sources from the second statement on, its L3 rows from the third.
Halves(b) ==
  /\ \A c \in Compactors : batch[c] # b
  /\ (\A x \in Restorers : restoring[x] = b => restoreStep[x] = "l3") =>
       \A m \in Sources \ byHand : tag[m] = b => life[m] # "archived"
  /\ ~BeingRestored(b) => \A r \in L3Rows \ byHand : tag[r] = b => life[r] # "live"

\* So it is for every restore that met a finished batch and was not cut short.
HalvesReverted ==
  \A b \in Batches \ spoiled : batchStatus[b] = "restored" => Halves(b)

IInv ==
  /\ TypeOK
  /\ BatchesExist
  /\ RestoreRunsOnce
  /\ ArchivedNamesItsBatch
  /\ VectorsArriveOnce
  /\ FactsTried
  /\ HalvesReverted

-----------------------------------------------------------------------------
(***************************************************************************)
(* Types.                                                                  *)
(***************************************************************************)

\* The rows of a batch are rows, and none of them is a source.
LEMMA RowsOfBatches ==
  ASSUME NEW b \in Batches, NEW i \in Texts
  PROVE  <<b, i>> \in L3Rows /\ <<b, i>> \in Rows /\ <<b, i>> \notin Sources
BY RowIdAssumption DEF L3Rows, Rows, Texts, Narrative

\* Sources are no L3 rows.
LEMMA SourcesApart == Sources \subseteq Rows /\ L3Rows \subseteq Rows /\ Sources \cap L3Rows = {}
BY RowIdAssumption DEF L3Rows, Rows, Texts, Narrative

\* The end of a run forgets its locals.
LEMMA LeaveType ==
  ASSUME TypeOK, NEW c \in Compactors, Leave(c)
  PROVE  /\ stage' \in [Compactors -> Stages]
         /\ candidates' \in [Compactors -> SUBSET Sources]
         /\ batch' \in [Compactors -> Batches \cup {NoBatch}]
         /\ \A d \in Compactors : batch'[d] = NoBatch <=> stage'[d] \in {"idle", "compacting"}
         /\ stage'[c] = "idle" /\ batch'[c] = NoBatch
         /\ \A d \in Compactors \ {c} :
              stage'[d] = stage[d] /\ batch'[d] = batch[d] /\ candidates'[d] = candidates[d]
BY DEF TypeOK, Leave, Stages

\* A row of the run's batch is live with its tag, or failed to be stored.
LEMMA StoreFrame ==
  ASSUME TypeOK, NEW c \in Compactors, StoreFact(c) \/ StoreNarrative(c)
  PROVE  /\ stage[c] = "storing" /\ batch[c] \in Batches
         /\ life' \in [Rows -> Lives] /\ tag' \in [Rows -> Batches \cup {NoBatch}]
         /\ \A r \in Rows : life'[r] = life[r] \/ life'[r] = "failed" \/ tag'[r] = batch[c]
         /\ \A r \in Rows : tag'[r] = tag[r] \/ tag'[r] = batch[c]
         /\ \A r \in Rows : life[r] # "none" => life'[r] # "none"
         /\ \A m \in Sources : life'[m] = life[m] /\ tag'[m] = tag[m]
         /\ stage' \in {stage, [stage EXCEPT ![c] = "tombstoning"]}
         /\ UNCHANGED <<accessed, important, private, batchStatus, candidates, batch, vectors,
                        restore, bounds, history>>
<1>1. stage[c] = "storing" /\ batch[c] \in Batches
  BY DEF TypeOK, StoreFact, StoreNarrative, MoveTo
<1>2. ASSUME NEW i \in Texts, StoreL3(c, i)
      PROVE  /\ life' \in [Rows -> Lives] /\ tag' \in [Rows -> Batches \cup {NoBatch}]
             /\ \A r \in Rows : life'[r] = life[r] \/ life'[r] = "failed" \/ tag'[r] = batch[c]
             /\ \A r \in Rows : tag'[r] = tag[r] \/ tag'[r] = batch[c]
             /\ \A r \in Rows : life[r] # "none" => life'[r] # "none"
             /\ \A m \in Sources : life'[m] = life[m] /\ tag'[m] = tag[m]
  <2>1. <<batch[c], i>> \in Rows /\ <<batch[c], i>> \notin Sources
    BY <1>1, RowsOfBatches
  <2> QED BY <1>1, <1>2, <2>1, SourcesApart DEF StoreL3, TypeOK, Lives
<1>3. CASE StoreFact(c)
  <2>1. PICK i \in Pending(c) : StoreL3(c, i)
    BY <1>3 DEF StoreFact
  <2>2. i \in Texts
    BY FactsAssumption DEF Pending, Texts, Narrative
  <2> QED BY <1>1, <1>2, <1>3, <2>1, <2>2 DEF StoreFact, compaction
<1>4. CASE StoreNarrative(c)
  <2>1. Narrative \in Texts
    BY FactsAssumption DEF Texts, Narrative
  <2>2. CASE StoreL3(c, Narrative)
    BY <1>1, <1>2, <1>4, <2>1, <2>2 DEF StoreNarrative, MoveTo
  <2>3. CASE UNCHANGED <<life, tag>>
    BY <1>1, <1>4, <2>3, SourcesApart DEF StoreNarrative, MoveTo, TypeOK
  <2> QED BY <1>4, <2>2, <2>3 DEF StoreNarrative
<1> QED BY <1>3, <1>4

\* Every step of a run keeps the types.
LEMMA CompactType ==
  ASSUME TypeOK, NEW c \in Compactors, Compact(c)
  PROVE  TypeOK'
<1> USE DEF TypeOK, tables, compaction, restore, bounds, history
<1>1. CASE FetchCandidates(c)
  <2>1. PICK T \in Oldest(Archivable) : candidates' = [candidates EXCEPT ![c] = T]
    BY <1>1 DEF FetchCandidates
  <2>2. T \subseteq Sources
    BY DEF Oldest, Archivable
  <2> QED BY <1>1, <2>1, <2>2 DEF FetchCandidates, MoveTo, Stages
<1>2. CASE CompactionYieldsNothing(c)
  BY <1>2, LeaveType DEF CompactionYieldsNothing
<1>3. CASE CreateArchivalBatch(c)
  <2>1. PICK b \in Batches :
          /\ batchStatus' = [batchStatus EXCEPT ![b] = "completed"]
          /\ batch' = [batch EXCEPT ![c] = b]
          /\ sourcesOf' = [sourcesOf EXCEPT ![b] = candidates[c]]
    BY <1>3 DEF CreateArchivalBatch
  <2> QED BY <1>3, <2>1, BatchIdAssumption DEF CreateArchivalBatch, MoveTo, Stages
<1>4. CASE EmbeddingsArrive(c)
  <2>1. batch[c] \in Batches
    BY <1>4 DEF EmbeddingsArrive, MoveTo
  <2> QED BY <1>4, <2>1 DEF EmbeddingsArrive, MoveTo, Stages
<1>5. CASE EmbeddingFails(c)
  <2>1. batch[c] \in Batches
    BY <1>5 DEF EmbeddingFails
  <2> QED BY <1>5, <2>1, LeaveType DEF EmbeddingFails
<1>6. CASE StoreFact(c) \/ StoreNarrative(c)
  BY <1>6, StoreFrame DEF Stages
<1>9. CASE TombstoneWithBatch(c)
  <2>1. batch[c] \in Batches
    BY <1>9 DEF TombstoneWithBatch
  <2>2. life' \in [Rows -> Lives] /\ tag' \in [Rows -> Batches \cup {NoBatch}]
    BY <1>9, <2>1 DEF TombstoneWithBatch, Lives
  <2> QED BY <1>9, <2>2, LeaveType DEF TombstoneWithBatch
<1>10. CASE CompactionAborts(c)
  BY <1>10, LeaveType, BoundsAssumption DEF CompactionAborts, Fault
<1> QED BY <1>1, <1>2, <1>3, <1>4, <1>5, <1>6, <1>9, <1>10 DEF Compact

\* So does every step of a restore.
LEMMA RestoreType ==
  ASSUME TypeOK, NEW x \in Restorers, Restore(x)
  PROVE  TypeOK'
<1> USE DEF TypeOK, tables, compaction, restore, bounds, history, RestoreSteps
<1>1. ASSUME NEW b \in Batches, BeginRestore(x, b) PROVE TypeOK'
  BY <1>1, BatchIdAssumption DEF BeginRestore
<1>2. CASE RestoreL2(x)
  BY <1>2 DEF RestoreL2, SetLife, Lives
<1>3. CASE TombstoneL3(x)
  BY <1>3 DEF TombstoneL3, EndRestore, SetLife, Lives
<1>4. CASE RestoreAborts(x)
  BY <1>4, BoundsAssumption DEF RestoreAborts, EndRestore, Fault
<1> QED BY <1>1, <1>2, <1>3, <1>4 DEF Restore

\* And whatever operators and retrievals do.
LEMMA OthersType ==
  ASSUME TypeOK, Others
  PROVE  TypeOK'
<1> USE BoundsAssumption DEF TypeOK, compaction, restore, bounds, history, Touch
<1>1. ASSUME NEW S \in SUBSET LiveRows, BulkArchive(S) PROVE TypeOK'
  BY <1>1 DEF BulkArchive, SetLife, Lives, LiveRows
<1>2. ASSUME NEW S \in SUBSET LiveRows, BulkDelete(S) PROVE TypeOK'
  BY <1>2 DEF BulkDelete, SetLife, Lives
<1>3. ASSUME NEW r \in Rows, RestoreMemory(r) PROVE TypeOK'
  BY <1>3 DEF RestoreMemory, SetLife, Lives
<1>4. ASSUME NEW r \in Rows, DeleteMemory(r) PROVE TypeOK'
  BY <1>4 DEF DeleteMemory, SetLife, Lives
<1>5. ASSUME NEW m \in Sources, Retrieve(m) \/ Label(m) PROVE TypeOK'
  BY <1>5 DEF Retrieve, Label
<1> QED BY <1>1, <1>2, <1>3, <1>4, <1>5 DEF Others

\* Together: every step keeps the types.
LEMMA TypeStep == TypeOK /\ [Next]_vars => TypeOK'
<1> SUFFICES ASSUME TypeOK, [Next]_vars PROVE TypeOK'
  OBVIOUS
<1>1. CASE UNCHANGED vars
  BY <1>1 DEF vars, TypeOK, tables, compaction, restore, bounds, history
<1> QED BY <1>1, CompactType, RestoreType, OthersType DEF Next

\* All sources are live at the start and nothing runs.
LEMMA TypeInit == Init => TypeOK
BY BoundsAssumption, FactsAssumption DEF Init, TypeOK, Lives, Stages, RestoreSteps, NoAnswer, Narrative

\* Type correctness; a run has a batch from its INSERT to its end, a restore
\* until its last statement.
THEOREM TypeCorrect == Spec => []TypeOK
BY TypeInit, TypeStep, PTL DEF Spec

-----------------------------------------------------------------------------
(***************************************************************************)
(* Batches, tags and restores.                                             *)
(***************************************************************************)

\* Ids in use are ids of inserted batches, whatever runs overlap.
LEMMA BatchesStep == TypeOK /\ BatchesExist /\ [Next]_vars => BatchesExist'
<1> SUFFICES ASSUME TypeOK, BatchesExist, [Next]_vars PROVE BatchesExist'
  OBVIOUS
<1> USE DEF BatchesExist, tables, compaction, restore, bounds, history
<1>1. ASSUME NEW c \in Compactors, FetchCandidates(c) PROVE BatchesExist'
  <2>1. batch[c] = NoBatch
    BY <1>1 DEF FetchCandidates, MoveTo, TypeOK
  <2>2. \A d \in Compactors \ {c} : candidates'[d] = candidates[d]
    BY <1>1 DEF FetchCandidates, TypeOK
  <2> QED BY <1>1, <2>1, <2>2 DEF FetchCandidates
<1>2. ASSUME NEW c \in Compactors,
             CompactionYieldsNothing(c) \/ EmbeddingFails(c) \/ CompactionAborts(c)
      PROVE  BatchesExist'
  BY <1>2, LeaveType DEF CompactionYieldsNothing, EmbeddingFails, CompactionAborts
<1>3. ASSUME NEW c \in Compactors, CreateArchivalBatch(c) PROVE BatchesExist'
  <2>1. PICK b \in Batches :
          /\ batchStatus[b] = "none"
          /\ batchStatus' = [batchStatus EXCEPT ![b] = "completed"]
          /\ batch' = [batch EXCEPT ![c] = b]
          /\ sourcesOf' = [sourcesOf EXCEPT ![b] = candidates[c]]
    BY <1>3 DEF CreateArchivalBatch
  <2>2. UNCHANGED <<tag, restoring, candidates>>
    BY <1>3 DEF CreateArchivalBatch
  <2>3. \A e \in Batches : batchStatus[e] # "none" =>
          batchStatus'[e] = batchStatus[e] /\ sourcesOf'[e] = sourcesOf[e]
    BY <2>1 DEF TypeOK
  <2>4. ASSUME NEW d \in Compactors, batch'[d] # NoBatch
        PROVE  batchStatus'[batch'[d]] # "none" /\ sourcesOf'[batch'[d]] = candidates'[d]
    <3>1. CASE d = c
      BY <2>1, <2>2, <3>1 DEF TypeOK
    <3>2. CASE d # c
      BY <2>1, <2>2, <2>3, <2>4, <3>2 DEF TypeOK
    <3> QED BY <3>1, <3>2
  <2>5. \A r \in Rows : tag'[r] # NoBatch => batchStatus'[tag'[r]] # "none"
    BY <2>2, <2>3 DEF TypeOK
  <2>6. \A x \in Restorers : restoring'[x] # NoBatch => batchStatus'[restoring'[x]] = "restored"
    BY <2>2, <2>3 DEF TypeOK
  <2> QED BY <2>4, <2>5, <2>6
<1>4. ASSUME NEW c \in Compactors, EmbeddingsArrive(c) PROVE BatchesExist'
  BY <1>4 DEF EmbeddingsArrive
<1>6. ASSUME NEW c \in Compactors, StoreFact(c) \/ StoreNarrative(c) PROVE BatchesExist'
  <2>1. \A r \in Rows : tag'[r] = tag[r] \/ tag'[r] = batch[c]
    BY <1>6, StoreFrame
  <2>2. \A r \in Rows : tag'[r] # NoBatch => batchStatus[tag'[r]] # "none"
    BY <1>6, <2>1, StoreFrame, BatchIdAssumption
  <2> QED BY <1>6, <2>2, StoreFrame
<1>7. ASSUME NEW c \in Compactors, TombstoneWithBatch(c) PROVE BatchesExist'
  <2>1. batch[c] \in Batches
    BY <1>7 DEF TombstoneWithBatch, TypeOK
  <2>2. \A r \in Rows : tag'[r] = tag[r] \/ tag'[r] = batch[c]
    BY <1>7 DEF TombstoneWithBatch
  <2>3. \A r \in Rows : tag'[r] # NoBatch => batchStatus[tag'[r]] # "none"
    BY <2>1, <2>2, BatchIdAssumption
  <2> QED BY <1>7, <2>3, LeaveType DEF TombstoneWithBatch
<1>8. ASSUME NEW x \in Restorers, NEW b \in Batches, BeginRestore(x, b) PROVE BatchesExist'
  BY <1>8 DEF BeginRestore, TypeOK
<1>9. ASSUME NEW x \in Restorers, RestoreL2(x) \/ TombstoneL3(x) \/ RestoreAborts(x)
      PROVE  BatchesExist'
  BY <1>9 DEF RestoreL2, TombstoneL3, RestoreAborts, EndRestore, TypeOK
<1>10. CASE Others
  BY <1>10 DEF Others, BulkArchive, BulkDelete, RestoreMemory, DeleteMemory, Retrieve, Label
<1>11. CASE UNCHANGED vars
  BY <1>11 DEF vars
<1> QED BY <1>1, <1>2, <1>3, <1>4, <1>6, <1>7, <1>8, <1>9, <1>10, <1>11 DEF Next, Compact, Restore

\* A restore only begins on a batch that no restore has.
LEMMA OnceStep == TypeOK /\ BatchesExist /\ RestoreRunsOnce /\ [Next]_vars => RestoreRunsOnce'
<1> SUFFICES ASSUME TypeOK, BatchesExist, RestoreRunsOnce, [Next]_vars PROVE RestoreRunsOnce'
  OBVIOUS
<1>1. ASSUME NEW x \in Restorers, NEW b \in Batches, BeginRestore(x, b) PROVE RestoreRunsOnce'
  <2>1. \A y \in Restorers : restoring[y] # b
    BY <1>1, BatchIdAssumption DEF BeginRestore, BatchesExist
  <2> QED BY <1>1, <2>1 DEF BeginRestore, RestoreRunsOnce, TypeOK
<1>2. ASSUME NEW x \in Restorers, TombstoneL3(x) \/ RestoreAborts(x) PROVE RestoreRunsOnce'
  BY <1>2 DEF TombstoneL3, RestoreAborts, EndRestore, RestoreRunsOnce, TypeOK
<1>3. ASSUME UNCHANGED restoring PROVE RestoreRunsOnce'
  BY <1>3 DEF RestoreRunsOnce
<1>4. ASSUME NEW c \in Compactors, Compact(c) PROVE UNCHANGED restoring
  BY <1>4 DEF Compact, FetchCandidates, CompactionYieldsNothing, CreateArchivalBatch, EmbeddingsArrive,
    EmbeddingFails, StoreFact, StoreNarrative, TombstoneWithBatch, CompactionAborts, restore
<1>5. ASSUME Others PROVE UNCHANGED restoring
  BY <1>5 DEF Others, BulkArchive, BulkDelete, RestoreMemory, DeleteMemory, Retrieve, Label, restore
<1>6. ASSUME NEW x \in Restorers, RestoreL2(x) PROVE UNCHANGED restoring
  BY <1>6 DEF RestoreL2
<1>7. ASSUME UNCHANGED vars PROVE UNCHANGED restoring
  BY <1>7 DEF vars, restore
<1> QED BY <1>1, <1>2, <1>3, <1>4, <1>5, <1>6, <1>7 DEF Next, Restore

\* Operators and retrievals touch no tag, batch or run; a row they archive or
\* bring back is one they did by hand, and any other they change is deleted.
LEMMA OthersFrame ==
  ASSUME TypeOK, Others
  PROVE  /\ UNCHANGED <<tag, batchStatus, compaction, restore, sourcesOf, spoiled>>
         /\ \A r \in Rows \ byHand' : r \notin byHand /\ life'[r] \in {life[r], "deleted"}
         /\ \A r \in Rows : life[r] # "none" => life'[r] # "none"
<1>1. ASSUME NEW S \in SUBSET LiveRows, BulkArchive(S) \/ BulkDelete(S)
      PROVE  /\ \A r \in Rows \ byHand' : r \notin byHand /\ life'[r] \in {life[r], "deleted"}
             /\ \A r \in Rows : life[r] # "none" => life'[r] # "none"
  BY <1>1 DEF BulkArchive, BulkDelete, SetLife, TypeOK, history
<1>2. ASSUME NEW s \in Rows, RestoreMemory(s) \/ DeleteMemory(s)
      PROVE  /\ \A r \in Rows \ byHand' : r \notin byHand /\ life'[r] \in {life[r], "deleted"}
             /\ \A r \in Rows : life[r] # "none" => life'[r] # "none"
  BY <1>2 DEF RestoreMemory, DeleteMemory, SetLife, TypeOK, history
<1>3. ASSUME NEW m \in Sources, Retrieve(m) \/ Label(m)
      PROVE  UNCHANGED <<life, byHand>>
  BY <1>3 DEF Retrieve, Label, history
<1>4. UNCHANGED <<tag, batchStatus, compaction, restore, sourcesOf, spoiled>>
  BY DEF Others, BulkArchive, BulkDelete, RestoreMemory, DeleteMemory, Retrieve, Label, history
<1> QED BY <1>1, <1>2, <1>3, <1>4 DEF Others

\* A source that a compaction archived carries the tag of a batch made for it.
LEMMA NamesStep ==
  TypeOK /\ BatchesExist /\ ArchivedNamesItsBatch /\ [Next]_vars => ArchivedNamesItsBatch'
<1> SUFFICES ASSUME TypeOK, BatchesExist, ArchivedNamesItsBatch, [Next]_vars
             PROVE  ArchivedNamesItsBatch'
  OBVIOUS
<1> USE SourcesApart DEF ArchivedNamesItsBatch, tables, compaction, restore, bounds, history
<1>1. ASSUME NEW c \in Compactors,
             FetchCandidates(c) \/ CompactionYieldsNothing(c) \/ EmbeddingsArrive(c)
               \/ EmbeddingFails(c) \/ CompactionAborts(c)
      PROVE  ArchivedNamesItsBatch'
  BY <1>1 DEF FetchCandidates, CompactionYieldsNothing, EmbeddingsArrive, EmbeddingFails, CompactionAborts
<1>2. ASSUME NEW c \in Compactors, CreateArchivalBatch(c) PROVE ArchivedNamesItsBatch'
  <2>1. PICK b \in Batches :
          batchStatus[b] = "none" /\ sourcesOf' = [sourcesOf EXCEPT ![b] = candidates[c]]
    BY <1>2 DEF CreateArchivalBatch
  <2>2. \A m \in Sources : tag[m] # NoBatch => sourcesOf'[tag[m]] = sourcesOf[tag[m]]
    BY <2>1 DEF BatchesExist, TypeOK
  <2> QED BY <1>2, <2>2 DEF CreateArchivalBatch
<1>4. ASSUME NEW c \in Compactors, StoreFact(c) \/ StoreNarrative(c) PROVE ArchivedNamesItsBatch'
  BY <1>4, StoreFrame
<1>5. ASSUME NEW c \in Compactors, TombstoneWithBatch(c) PROVE ArchivedNamesItsBatch'
  <2> DEFINE hit == {m \in candidates[c] : life[m] # "deleted"}
  <2>1. batch[c] \in Batches /\ sourcesOf[batch[c]] = candidates[c]
    BY <1>5 DEF TombstoneWithBatch, TypeOK, BatchesExist
  <2>2. \A m \in Sources : m \in hit => tag'[m] = batch[c] /\ m \in sourcesOf[batch[c]]
    BY <1>5, <2>1 DEF TombstoneWithBatch
  <2>3. \A m \in Sources : m \notin hit =>
          tag'[m] = tag[m] /\ life'[m] = life[m] /\ (m \in byHand' <=> m \in byHand)
    BY <1>5 DEF TombstoneWithBatch
  <2>4. UNCHANGED sourcesOf
    BY <1>5 DEF TombstoneWithBatch
  <2> QED BY <2>1, <2>2, <2>3, <2>4, BatchIdAssumption
<1>6. ASSUME NEW x \in Restorers, NEW b \in Batches, BeginRestore(x, b) PROVE ArchivedNamesItsBatch'
  BY <1>6 DEF BeginRestore
<1>7. ASSUME NEW x \in Restorers, RestoreL2(x) PROVE ArchivedNamesItsBatch'
  BY <1>7 DEF RestoreL2, SetLife
<1>8. ASSUME NEW x \in Restorers, TombstoneL3(x) PROVE ArchivedNamesItsBatch'
  <2>1. \A m \in Sources : life'[m] = life[m] /\ (m \in byHand' <=> m \in byHand)
    BY <1>8 DEF TombstoneL3, SetLife
  <2> QED BY <1>8, <2>1 DEF TombstoneL3
<1>9. ASSUME NEW x \in Restorers, RestoreAborts(x) PROVE ArchivedNamesItsBatch'
  BY <1>9 DEF RestoreAborts
<1>10. CASE Others
  BY <1>10, OthersFrame
<1>11. CASE UNCHANGED vars
  BY <1>11 DEF vars
<1> QED BY <1>1, <1>2, <1>4, <1>5, <1>6, <1>7, <1>8, <1>9, <1>10, <1>11 DEF Next, Compact, Restore

\* A row that was inserted, or failed to be, never was not tried.
LEMMA TriedStays ==
  ASSUME TypeOK, [Next]_vars, NEW r \in Rows, life[r] # "none"
  PROVE  life'[r] # "none"
<1> USE DEF TypeOK, tables, compaction, restore, bounds, history
<1>1. ASSUME NEW c \in Compactors, StoreFact(c) \/ StoreNarrative(c)
      PROVE  life'[r] # "none"
  BY <1>1, StoreFrame
<1>2. ASSUME NEW c \in Compactors, Compact(c)
      PROVE  life'[r] # "none"
  BY <1>1, <1>2 DEF Compact, FetchCandidates, CompactionYieldsNothing, CreateArchivalBatch, EmbeddingsArrive,
    EmbeddingFails, TombstoneWithBatch, CompactionAborts
<1>3. ASSUME NEW x \in Restorers, Restore(x)
      PROVE  life'[r] # "none"
  BY <1>3 DEF Restore, BeginRestore, RestoreL2, TombstoneL3, RestoreAborts, SetLife
<1>4. CASE Others
  BY <1>4, OthersFrame
<1>5. CASE UNCHANGED vars
  BY <1>5 DEF vars
<1> QED BY <1>2, <1>3, <1>4, <1>5 DEF Next

\* The embeddings of a batch arrive once.
LEMMA VectorsStep ==
  TypeOK /\ BatchesExist /\ VectorsArriveOnce /\ [Next]_vars => VectorsArriveOnce'
<1> SUFFICES ASSUME TypeOK, BatchesExist, VectorsArriveOnce, [Next]_vars PROVE VectorsArriveOnce'
  OBVIOUS
<1> USE BatchIdAssumption DEF VectorsArriveOnce, tables, compaction, restore, bounds, history
<1>1. ASSUME NEW c \in Compactors, FetchCandidates(c) PROVE VectorsArriveOnce'
  <2>1. \A d \in Compactors : stage'[d] \in {stage[d], "compacting"}
    BY <1>1 DEF FetchCandidates, MoveTo, TypeOK
  <2> QED BY <1>1, <2>1 DEF FetchCandidates
<1>2. ASSUME NEW c \in Compactors, Leave(c), UNCHANGED <<vectors, batchStatus>> PROVE VectorsArriveOnce'
  <2>1. \A d \in Compactors : stage'[d] \in {stage[d], "idle"} /\ batch'[d] \in {batch[d], NoBatch}
    BY <1>2, LeaveType
  <2>2. \A d \in Compactors : stage'[d] # "idle" => batch'[d] = batch[d]
    BY <1>2, LeaveType
  <2> QED BY <1>2, <2>1, <2>2
<1>3. ASSUME NEW c \in Compactors,
             CompactionYieldsNothing(c) \/ EmbeddingFails(c) \/ TombstoneWithBatch(c) \/ CompactionAborts(c)
      PROVE  VectorsArriveOnce'
  BY <1>2, <1>3 DEF CompactionYieldsNothing, EmbeddingFails, TombstoneWithBatch, CompactionAborts
<1>4. ASSUME NEW c \in Compactors, CreateArchivalBatch(c) PROVE VectorsArriveOnce'
  <2>1. PICK b \in Batches :
          /\ batchStatus[b] = "none"
          /\ batchStatus' = [batchStatus EXCEPT ![b] = "completed"]
          /\ batch' = [batch EXCEPT ![c] = b]
    BY <1>4 DEF CreateArchivalBatch
  <2>2. \A d \in Compactors \ {c} : batch'[d] = batch[d] /\ stage'[d] = stage[d] /\ batch[d] # b
    BY <1>4, <2>1 DEF CreateArchivalBatch, MoveTo, TypeOK, BatchesExist
  <2>3. batch'[c] = b /\ stage'[c] = "embedding" /\ vectors[b] = NoAnswer /\ UNCHANGED vectors
    BY <1>4, <2>1 DEF CreateArchivalBatch, MoveTo, TypeOK
  <2>4. \A e \in Batches : batchStatus'[e] = "none" => batchStatus[e] = "none"
    BY <2>1 DEF TypeOK
  <2> QED BY <2>2, <2>3, <2>4
<1>5. ASSUME NEW c \in Compactors, EmbeddingsArrive(c) PROVE VectorsArriveOnce'
  <2>1. PICK k \in 0..Narrative : vectors' = [vectors EXCEPT ![batch[c]] = k]
    BY <1>5 DEF EmbeddingsArrive
  <2>2. batch[c] \in Batches /\ batchStatus[batch[c]] # "none"
    BY <1>5 DEF EmbeddingsArrive, MoveTo, TypeOK, BatchesExist
  <2>3. vectors'[batch[c]] # NoAnswer
    BY <2>1, <2>2, FactsAssumption DEF TypeOK, NoAnswer, Narrative
  <2>4. \A b \in Batches \ {batch[c]} : vectors'[b] = vectors[b]
    BY <2>1 DEF TypeOK
  <2>5. stage'[c] = "storing" /\ \A d \in Compactors \ {c} : stage'[d] = stage[d]
    BY <1>5 DEF EmbeddingsArrive, MoveTo, TypeOK
  <2>6. UNCHANGED <<batch, batchStatus>>
    BY <1>5 DEF EmbeddingsArrive
  <2>7. \A d \in Compactors \ {c} : stage[d] \in {"embedding", "storing", "tombstoning"} =>
          batch[d] \in Batches \ {batch[c]}
    BY <2>2 DEF TypeOK
  <2>8. \A b \in Batches : batchStatus[b] = "none" => vectors'[b] = NoAnswer
    BY <2>2, <2>4
  <2> QED BY <2>3, <2>4, <2>5, <2>6, <2>7, <2>8
<1>6. ASSUME NEW c \in Compactors, StoreFact(c) \/ StoreNarrative(c) PROVE VectorsArriveOnce'
  <2>1. \A d \in Compactors : stage'[d] = stage[d] \/ (stage[d] = "storing" /\ stage'[d] = "tombstoning")
    BY <1>6, StoreFrame DEF TypeOK
  <2> QED BY <1>6, <2>1, StoreFrame
<1>7. ASSUME NEW x \in Restorers, Restore(x) PROVE VectorsArriveOnce'
  <2>1. \A b \in Batches : batchStatus'[b] = "none" => batchStatus[b] = "none"
    BY <1>7 DEF Restore, BeginRestore, RestoreL2, TombstoneL3, RestoreAborts, TypeOK
  <2>2. UNCHANGED compaction
    BY <1>7 DEF Restore, BeginRestore, RestoreL2, TombstoneL3, RestoreAborts
  <2> QED BY <2>1, <2>2
<1>8. CASE Others
  BY <1>8, OthersFrame
<1>9. CASE UNCHANGED vars
  BY <1>9 DEF vars
<1> QED BY <1>1, <1>3, <1>4, <1>5, <1>6, <1>7, <1>8, <1>9 DEF Next, Compact

\* What was tried for a batch stays tried, and its embeddings are there.
LEMMA AllTriedStays ==
  ASSUME TypeOK, VectorsArriveOnce, [Next]_vars, NEW b \in Batches, AllTried(b)
  PROVE  AllTried(b)'
<1>1. vectors'[b] = vectors[b]
  <2>1. ASSUME NEW c \in Compactors, EmbeddingsArrive(c) PROVE vectors'[b] = vectors[b]
    <3>1. batch[c] # b
      BY <2>1 DEF EmbeddingsArrive, MoveTo, VectorsArriveOnce, AllTried
    <3> QED BY <2>1, <3>1 DEF EmbeddingsArrive, TypeOK
  <2>2. ASSUME NEW c \in Compactors, Compact(c) PROVE vectors'[b] = vectors[b]
    BY <2>1, <2>2 DEF Compact, FetchCandidates, CompactionYieldsNothing, CreateArchivalBatch,
      EmbeddingFails, StoreFact, StoreNarrative, TombstoneWithBatch, CompactionAborts, compaction
  <2>3. ASSUME NEW x \in Restorers, Restore(x) PROVE UNCHANGED vectors
    BY <2>3 DEF Restore, BeginRestore, RestoreL2, TombstoneL3, RestoreAborts, compaction
  <2>4. ASSUME Others PROVE UNCHANGED vectors
    BY <2>4, OthersFrame DEF compaction
  <2>5. ASSUME UNCHANGED vars PROVE UNCHANGED vectors
    BY <2>5 DEF vars, compaction
  <2> QED BY <2>2, <2>3, <2>4, <2>5 DEF Next
<1>2. \A i \in 1..Facts : life[<<b, i>>] # "none" => life'[<<b, i>>] # "none"
  <2> SUFFICES ASSUME NEW i \in 1..Facts, life[<<b, i>>] # "none" PROVE life'[<<b, i>>] # "none"
    OBVIOUS
  <2>1. i \in Texts
    BY FactsAssumption DEF Texts, Narrative
  <2>2. <<b, i>> \in Rows
    BY <2>1, RowsOfBatches
  <2> QED BY <2>2, TriedStays
<1> QED BY <1>1, <1>2 DEF AllTried

\* The INSERT of every fact with a vector is tried on the way to the tombstones.
LEMMA FactsStep == TypeOK /\ VectorsArriveOnce /\ FactsTried /\ [Next]_vars => FactsTried'
<1> SUFFICES ASSUME TypeOK, VectorsArriveOnce, FactsTried, [Next]_vars PROVE FactsTried'
  OBVIOUS
<1> USE SourcesApart DEF tables, compaction, restore, bounds, history
<1>1. \A b \in Batches : AllTried(b) => AllTried(b)'
  BY AllTriedStays
<1>2. ASSUME \A d \in Compactors : stage'[d] = "tombstoning" =>
               stage[d] = "tombstoning" /\ batch'[d] = batch[d],
             \A m \in Sources : tag'[m] = tag[m]
      PROVE  FactsTried'
  <2>1. ASSUME NEW d \in Compactors, stage'[d] = "tombstoning" PROVE AllTried(batch[d])'
    BY <1>1, <1>2, <2>1 DEF FactsTried, TypeOK, AllTried
  <2>2. ASSUME NEW m \in Sources, tag[m] # NoBatch PROVE AllTried(tag[m])'
    BY <1>1, <1>2, <2>2 DEF FactsTried, TypeOK, AllTried
  <2> QED BY <1>2, <2>1, <2>2 DEF FactsTried
<1>3. ASSUME NEW c \in Compactors,
             FetchCandidates(c) \/ CreateArchivalBatch(c) \/ EmbeddingsArrive(c) \/ StoreFact(c)
      PROVE  FactsTried'
  <2>1. \A d \in Compactors : stage'[d] = "tombstoning" => stage[d] = "tombstoning" /\ batch'[d] = batch[d]
    BY <1>3 DEF FetchCandidates, CreateArchivalBatch, EmbeddingsArrive, StoreFact, MoveTo, TypeOK
  <2>2. \A m \in Sources : tag'[m] = tag[m]
    BY <1>3, StoreFrame DEF FetchCandidates, CreateArchivalBatch, EmbeddingsArrive
  <2> QED BY <1>2, <2>1, <2>2
<1>4. ASSUME NEW c \in Compactors,
             CompactionYieldsNothing(c) \/ EmbeddingFails(c) \/ CompactionAborts(c)
      PROVE  FactsTried'
  BY <1>2, <1>4, LeaveType DEF CompactionYieldsNothing, EmbeddingFails, CompactionAborts
<1>5. ASSUME NEW c \in Compactors, StoreNarrative(c) PROVE FactsTried'
  <2>1. batch[c] \in Batches /\ vectors[batch[c]] # NoAnswer /\ UNCHANGED batch
    BY <1>5, StoreFrame DEF VectorsArriveOnce
  <2>2. AllTried(batch[c])
    BY <1>5, <2>1 DEF StoreNarrative, Pending, AllTried
  <2>3. \A d \in Compactors \ {c} : stage'[d] = stage[d]
    BY <1>5 DEF StoreNarrative, MoveTo, TypeOK
  <2>4. \A m \in Sources : tag'[m] = tag[m]
    BY <1>5, StoreFrame
  <2>5. ASSUME NEW d \in Compactors, stage'[d] = "tombstoning" PROVE AllTried(batch[d])'
    <3>1. batch[d] \in Batches /\ AllTried(batch[d])
      BY <2>1, <2>2, <2>3, <2>5 DEF FactsTried, TypeOK
    <3> QED BY <1>1, <2>1, <3>1 DEF AllTried
  <2>6. ASSUME NEW m \in Sources, tag[m] # NoBatch PROVE AllTried(tag[m])'
    BY <1>1, <2>4, <2>6 DEF FactsTried, TypeOK, AllTried
  <2> QED BY <2>4, <2>5, <2>6 DEF FactsTried
<1>6. ASSUME NEW c \in Compactors, TombstoneWithBatch(c) PROVE FactsTried'
  <2>1. batch[c] \in Batches /\ AllTried(batch[c])
    BY <1>6 DEF TombstoneWithBatch, TypeOK, FactsTried
  <2>2. \A m \in Sources : tag'[m] \in {tag[m], batch[c]}
    BY <1>6 DEF TombstoneWithBatch
  <2>3. \A d \in Compactors : stage'[d] = "tombstoning" => stage[d] = "tombstoning" /\ batch'[d] = batch[d]
    BY <1>6, LeaveType DEF TombstoneWithBatch
  <2>4. ASSUME NEW d \in Compactors, stage'[d] = "tombstoning" PROVE AllTried(batch[d])'
    BY <1>1, <2>3, <2>4 DEF FactsTried, TypeOK, AllTried
  <2>5. ASSUME NEW m \in Sources, tag'[m] # NoBatch PROVE AllTried(tag[m])'
    <3>1. tag'[m] \in Batches /\ AllTried(tag'[m])
      BY <2>1, <2>2, <2>5 DEF FactsTried, TypeOK, AllTried
    <3> QED BY <1>1, <3>1 DEF AllTried
  <2> QED BY <2>4, <2>5 DEF FactsTried
<1>7. ASSUME NEW x \in Restorers, Restore(x) PROVE FactsTried'
  BY <1>2, <1>7 DEF Restore, BeginRestore, RestoreL2, TombstoneL3, RestoreAborts
<1>8. CASE Others
  BY <1>2, <1>8, OthersFrame
<1>9. CASE UNCHANGED vars
  BY <1>2, <1>9 DEF vars
<1> QED BY <1>3, <1>4, <1>5, <1>6, <1>7, <1>8, <1>9 DEF Next, Compact

\* The halves of b survive a step that neither restores nor compacts it: rows
\* that keep its tag only get deleted, or fail to be stored, or pass into the
\* hands of an operator.
LEMMA HalvesStay ==
  ASSUME TypeOK, NEW b \in Batches, Halves(b),
         UNCHANGED <<restoring, restoreStep>>,
         \A c \in Compactors : batch'[c] # b,
         \A r \in Rows \ byHand' : tag'[r] = b =>
           tag[r] = b /\ r \notin byHand /\ life'[r] \in {life[r], "deleted", "failed"}
  PROVE  Halves(b)'
BY SourcesApart DEF Halves, BeingRestored

\* A restore that met a finished batch reverts each half for good.
LEMMA HalvesStep ==
  TypeOK /\ BatchesExist /\ RestoreRunsOnce /\ HalvesReverted /\ [Next]_vars => HalvesReverted'
<1> SUFFICES ASSUME TypeOK, BatchesExist, RestoreRunsOnce, HalvesReverted, [Next]_vars,
                    NEW b \in Batches, b \notin spoiled', batchStatus'[b] = "restored"
             PROVE  Halves(b)'
  BY DEF HalvesReverted
<1> USE DEF tables, compaction, restore, bounds, history
<1>1. ASSUME b \notin spoiled, batchStatus[b] = "restored" PROVE Halves(b)
  BY <1>1 DEF HalvesReverted
<1>2. ASSUME NEW c \in Compactors,
             FetchCandidates(c) \/ CompactionYieldsNothing(c) \/ EmbeddingsArrive(c)
               \/ EmbeddingFails(c) \/ CompactionAborts(c)
      PROVE  Halves(b)'
  <2>1. UNCHANGED <<life, tag, byHand, batchStatus, spoiled, restoring, restoreStep>>
    BY <1>2 DEF FetchCandidates, CompactionYieldsNothing, EmbeddingsArrive, EmbeddingFails, CompactionAborts
  <2>2. Halves(b)
    BY <1>1, <2>1
  <2>3. \A d \in Compactors : batch'[d] \in {batch[d], NoBatch}
    BY <1>2, LeaveType DEF FetchCandidates, CompactionYieldsNothing, EmbeddingsArrive, EmbeddingFails,
      CompactionAborts
  <2>4. \A d \in Compactors : batch'[d] # b
    BY <2>2, <2>3, BatchIdAssumption DEF Halves
  <2> QED BY <2>1, <2>2, <2>4, HalvesStay
<1>3. ASSUME NEW c \in Compactors, CreateArchivalBatch(c) PROVE Halves(b)'
  <2>1. PICK e \in Batches :
          /\ batchStatus[e] = "none"
          /\ batchStatus' = [batchStatus EXCEPT ![e] = "completed"]
          /\ batch' = [batch EXCEPT ![c] = e]
    BY <1>3 DEF CreateArchivalBatch
  <2>2. e # b /\ batchStatus[b] = "restored"
    BY <2>1 DEF TypeOK
  <2>3. UNCHANGED <<life, tag, byHand, spoiled, restoring, restoreStep>>
    BY <1>3 DEF CreateArchivalBatch
  <2>4. Halves(b)
    BY <1>1, <2>2, <2>3
  <2>5. \A d \in Compactors : batch'[d] # b
    BY <2>1, <2>2, <2>4 DEF Halves, TypeOK
  <2> QED BY <2>3, <2>4, <2>5, HalvesStay
<1>4. ASSUME NEW c \in Compactors, StoreFact(c) \/ StoreNarrative(c) PROVE Halves(b)'
  <2>1. UNCHANGED <<batch, byHand, batchStatus, spoiled, restoring, restoreStep>>
    BY <1>4, StoreFrame
  <2>2. Halves(b)
    BY <1>1, <2>1
  <2>3. \A r \in Rows : tag'[r] = b => tag[r] = b /\ life'[r] \in {life[r], "deleted", "failed"}
    BY <1>4, <2>2, StoreFrame DEF Halves
  <2>4. \A d \in Compactors : batch'[d] # b
    BY <2>1, <2>2 DEF Halves
  <2> QED BY <2>1, <2>2, <2>3, <2>4, HalvesStay
<1>7. ASSUME NEW c \in Compactors, TombstoneWithBatch(c) PROVE Halves(b)'
  <2> DEFINE hit == {m \in candidates[c] : life[m] # "deleted"}
  <2>1. UNCHANGED <<batchStatus, spoiled, restoring, restoreStep>>
    BY <1>7 DEF TombstoneWithBatch
  <2>2. Halves(b)
    BY <1>1, <2>1
  <2>3. batch[c] # b
    BY <2>2 DEF Halves
  <2>4. \A r \in Rows : r \in hit => tag'[r] # b
    BY <1>7, <2>3 DEF TombstoneWithBatch
  <2>5. \A r \in Rows : r \notin hit =>
          tag'[r] = tag[r] /\ life'[r] = life[r] /\ (r \in byHand' <=> r \in byHand)
    BY <1>7 DEF TombstoneWithBatch
  <2>6. \A d \in Compactors : batch'[d] \in {batch[d], NoBatch}
    BY <1>7, LeaveType DEF TombstoneWithBatch
  <2>7. \A d \in Compactors : batch'[d] # b
    BY <2>2, <2>6, BatchIdAssumption DEF Halves
  <2>8. \A r \in Rows \ byHand' : tag'[r] = b =>
          tag[r] = b /\ r \notin byHand /\ life'[r] \in {life[r], "deleted", "failed"}
    BY <2>4, <2>5
  <2> QED BY <2>1, <2>2, <2>7, <2>8, HalvesStay
<1>8. ASSUME NEW x \in Restorers, NEW e \in Batches, BeginRestore(x, e) PROVE Halves(b)'
  <2>1. UNCHANGED <<life, tag, byHand, batch>> /\ restoring[x] = NoBatch
    BY <1>8 DEF BeginRestore, TypeOK
  <2>2. restoring'[x] = e /\ restoreStep'[x] = "l2"
    BY <1>8 DEF BeginRestore, TypeOK
  <2>3. \A y \in Restorers \ {x} : restoring'[y] = restoring[y] /\ restoreStep'[y] = restoreStep[y]
    BY <1>8 DEF BeginRestore, TypeOK
  <2>4. CASE e = b
    <3>1. \A c \in Compactors : batch[c] # b
      BY <1>8, <2>4 DEF BeginRestore
    <3> QED BY <2>1, <2>2, <2>4, <3>1 DEF Halves, BeingRestored
  <2>5. CASE e # b
    <3>1. batchStatus[b] = "restored" /\ b \notin spoiled
      BY <1>8, <2>5 DEF BeginRestore, TypeOK
    <3>2. Halves(b)
      BY <1>1, <3>1
    <3> QED BY <2>1, <2>2, <2>3, <2>5, <3>2, BatchIdAssumption DEF Halves, BeingRestored
  <2> QED BY <2>4, <2>5
<1>9. ASSUME NEW x \in Restorers, RestoreL2(x) PROVE Halves(b)'
  <2> DEFINE back == {m \in Sources : tag[m] = restoring[x] /\ life[m] = "archived"}
  <2>1. UNCHANGED <<tag, batch, batchStatus, spoiled, restoring>>
    BY <1>9 DEF RestoreL2
  <2>2. Halves(b)
    BY <1>1, <2>1
  <2>3. \A r \in Rows : r \in back => life'[r] = "live"
    BY <1>9 DEF RestoreL2, SetLife
  <2>4. \A r \in Rows : r \notin back => life'[r] = life[r] /\ (r \in byHand' <=> r \in byHand)
    BY <1>9 DEF RestoreL2, SetLife
  <2>5. \A y \in Restorers \ {x} : restoreStep'[y] = restoreStep[y]
    BY <1>9 DEF RestoreL2, TypeOK
  <2>6. \A r \in L3Rows : r \notin back
    BY SourcesApart
  <2>7. CASE restoring[x] = b
    <3>1. \A m \in Sources \ byHand' : tag'[m] = b => life'[m] # "archived"
      BY <2>1, <2>3, <2>4, <2>7, SourcesApart
    <3> QED BY <2>1, <2>2, <2>4, <2>6, <2>7, <3>1, SourcesApart DEF Halves, BeingRestored
  <2>8. CASE restoring[x] # b
    <3>1. \A m \in Sources : tag[m] = b => m \notin back
      BY <2>8
    <3> QED BY <2>1, <2>2, <2>4, <2>5, <2>6, <2>8, <3>1, SourcesApart DEF Halves, BeingRestored
  <2> QED BY <2>7, <2>8
<1>10. ASSUME NEW x \in Restorers, TombstoneL3(x) PROVE Halves(b)'
  <2> DEFINE gone == {r \in L3Rows : tag[r] = restoring[x] /\ life[r] = "live"}
  <2>1. UNCHANGED <<tag, batch, batchStatus, spoiled>> /\ restoreStep[x] = "l3"
    BY <1>10 DEF TombstoneL3
  <2>2. Halves(b)
    BY <1>1, <2>1
  <2>3. \A r \in Rows : r \in gone => life'[r] = "archived"
    BY <1>10 DEF TombstoneL3, SetLife
  <2>4. \A r \in Rows : r \notin gone => life'[r] = life[r] /\ (r \in byHand' <=> r \in byHand)
    BY <1>10 DEF TombstoneL3, SetLife
  <2>5. /\ restoring'[x] = NoBatch
        /\ \A y \in Restorers \ {x} : restoring'[y] = restoring[y] /\ restoreStep'[y] = restoreStep[y]
    BY <1>10 DEF TombstoneL3, EndRestore, TypeOK
  <2>6. \A m \in Sources : m \notin gone
    BY SourcesApart
  <2>7. CASE restoring[x] = b
    <3>1. \A y \in Restorers : restoring[y] = b => restoreStep[y] = "l3"
      BY <2>1, <2>7, BatchIdAssumption DEF RestoreRunsOnce
    <3>2. \A m \in Sources \ byHand' : tag'[m] = b => life'[m] # "archived"
      BY <2>1, <2>2, <2>4, <2>6, <3>1, SourcesApart DEF Halves
    <3>3. \A r \in L3Rows \ byHand' : tag'[r] = b => life'[r] # "live"
      BY <2>1, <2>3, <2>4, <2>7, SourcesApart
    <3> QED BY <2>1, <2>2, <3>2, <3>3 DEF Halves
  <2>8. CASE restoring[x] # b
    <3>1. \A r \in Rows : tag[r] = b => r \notin gone
      BY <2>8
    <3> QED BY <2>1, <2>2, <2>4, <2>5, <2>8, <3>1, SourcesApart, BatchIdAssumption
          DEF Halves, BeingRestored
  <2> QED BY <2>7, <2>8
<1>11. ASSUME NEW x \in Restorers, RestoreAborts(x) PROVE Halves(b)'
  <2>1. UNCHANGED <<life, tag, byHand, batch, batchStatus>> /\ restoring[x] # b /\ b \notin spoiled
    BY <1>11 DEF RestoreAborts
  <2>2. Halves(b)
    BY <1>1, <2>1
  <2>3. /\ restoring'[x] = NoBatch
        /\ \A y \in Restorers \ {x} : restoring'[y] = restoring[y] /\ restoreStep'[y] = restoreStep[y]
    BY <1>11 DEF RestoreAborts, EndRestore, TypeOK
  <2> QED BY <2>1, <2>2, <2>3, BatchIdAssumption DEF Halves, BeingRestored
<1>12. CASE Others
  <2>1. UNCHANGED <<tag, batch, batchStatus, spoiled, restoring, restoreStep>>
    BY <1>12, OthersFrame
  <2>2. Halves(b)
    BY <1>1, <2>1
  <2>3. \A c \in Compactors : batch'[c] # b
    BY <2>1, <2>2 DEF Halves
  <2> QED BY <1>12, <2>1, <2>2, <2>3, OthersFrame, HalvesStay
<1>13. CASE UNCHANGED vars
  <2>1. Halves(b)
    BY <1>1, <1>13 DEF vars
  <2>2. \A c \in Compactors : batch'[c] # b
    BY <1>13, <2>1 DEF vars, Halves
  <2> QED BY <1>13, <2>1, <2>2, HalvesStay DEF vars
<1> QED BY <1>2, <1>3, <1>4, <1>7, <1>8, <1>9, <1>10, <1>11, <1>12, <1>13
      DEF Next, Compact, Restore

-----------------------------------------------------------------------------
(***************************************************************************)
(* What the invariant gives.                                               *)
(***************************************************************************)

\* Nothing runs at the start and no batch exists.
LEMMA InvInit == Init => IInv
<1> SUFFICES ASSUME Init PROVE IInv
  OBVIOUS
<1>1. TypeOK
  BY TypeInit
<1>2. BatchesExist /\ RestoreRunsOnce
  BY DEF Init, BatchesExist, RestoreRunsOnce
<1>3. ArchivedNamesItsBatch /\ VectorsArriveOnce /\ FactsTried
  BY SourcesApart DEF Init, ArchivedNamesItsBatch, VectorsArriveOnce, FactsTried
<1>4. HalvesReverted
  BY DEF Init, HalvesReverted
<1> QED BY <1>1, <1>2, <1>3, <1>4 DEF IInv

\* Every step preserves it.
LEMMA InvStep == IInv /\ [Next]_vars => IInv'
BY TypeStep, BatchesStep, OnceStep, NamesStep, VectorsStep, FactsStep, HalvesStep DEF IInv

\* The invariant is inductive, so it holds always.
LEMMA InvHolds == Spec => []IInv
BY InvInit, InvStep, PTL DEF Spec

\* A batch is reverted by one request at a time, however many ask.
THEOREM RestoresApart == Spec => []RestoreRunsOnce
<1>1. IInv => RestoreRunsOnce
  BY DEF IInv
<1> QED BY <1>1, InvHolds, PTL

\* A memory that a compaction archived can be found again by a restore.
THEOREM TagsFindTheirBatch == Spec => []ArchivedNamesItsBatch
<1>1. IInv => ArchivedNamesItsBatch
  BY DEF IInv
<1> QED BY <1>1, InvHolds, PTL

\* No memory is archived before the embeddings of what replaces it arrived and the
\* INSERT of every fact that got one was tried.
THEOREM NothingArchivedEarly == Spec => []CompressedBeforeArchived
<1>1. IInv => CompressedBeforeArchived
  BY DEF IInv, ArchivedNamesItsBatch, FactsTried, AllTried, CompressedBeforeArchived
<1> QED BY <1>1, InvHolds, PTL

\* A restore that met a finished batch and ended reverts it, for good.
THEOREM RestoresRevert == Spec => []UndisturbedRestoreReverts
<1>1. IInv => UndisturbedRestoreReverts
  <2> SUFFICES ASSUME IInv, NEW b \in Batches \ spoiled,
                      batchStatus[b] = "restored", ~BeingRestored(b)
               PROVE  Reverted(b)
    BY DEF UndisturbedRestoreReverts
  <2>1. Halves(b)
    BY DEF IInv, HalvesReverted
  <2>2. \A x \in Restorers : restoring[x] # b
    BY DEF BeingRestored
  <2> QED BY <2>1, <2>2 DEF Halves, Reverted
<1> QED BY <1>1, InvHolds, PTL
=============================================================================
