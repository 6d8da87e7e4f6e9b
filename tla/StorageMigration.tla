-------------------------- MODULE StorageMigration --------------------------
(***************************************************************************)
(* The offline storage migrations (storage.ts, the v2 details task and the *)
(* triggers of 0015_lossless_storage.sql): batches of rows move from an    *)
(* old representation to a new one while an old version of the worker may  *)
(* still write the old one.                                                *)
(*                                                                         *)
(*   raw_evidence   inline payloads become members of compressed bundles   *)
(*   legacy_images  the image rows of a listing are copied to a bundle,    *)
(*                  which readers use once an operator verified the copy   *)
(*   v2_details     stored v2 pages become details, unless a page fetched  *)
(*                  since then made one                                    *)
(*                                                                         *)
(* A batch is one transaction, split where it waits for other rows or the  *)
(* table; it locks its progress row, which the triggers of the writers     *)
(* share.  Rows have content versions, not contents, and a listing one     *)
(* image row, inserted once and updated.                                   *)
(***************************************************************************)
EXTENDS Integers, FiniteSets

CONSTANTS
  Rows,             \* how many ids there are: 1 .. Rows, in their order
  BatchSize,
  Versions,         \* bounds the contents a row has over time
  OldWriters,       \* transactions of the old version
  MaxStorageFaults  \* bounds the batches that die: below the 5 attempts of a job

ASSUME StorageConstants ==
  Rows \in Nat \ {0} /\ BatchSize \in 1 .. 2000 /\ Versions \in Nat \ {0, 1} /\ MaxStorageFaults \in 0 .. 4

VARIABLES
  stage,     \* the stage this behaviour migrates
  kept,      \* the old representation: its version, 0 for no row
  moved,     \* the new representation, likewise
  progress,  \* the storage_migration_progress row
  chain,     \* cursors in the keys of the continuation jobs
  batch,     \* the transaction of the job that runs
  writer,    \* the transactions of the old version
  deaths     \* how many batches have died

storageVars == <<stage, kept, moved, progress, chain, batch, writer, deaths>>

Stages == {"raw_evidence", "legacy_images", "v2_details"}
Ids == 1 .. Rows
FirstId == 0   \* FIRST_ID, and the cursor null

(* The stored v2 pages that can be upgraded and those that cannot, and the *)
(* two kinds of details: 1 and 2 in kept and moved of v2_details.          *)
Usable == 1
Unusable == 2
Upgraded == 1
Fetched == 2

Nothing == [i \in Ids |-> 0]
NoBatch == [pc |-> "idle", key |-> FirstId, copy |-> Nothing]
NoWrite == [pc |-> "idle", id |-> 1, shares |-> FALSE]

ProgressRow == [status : {"absent", "running", "ready", "completed", "partial"},
                cursor : 0 .. Rows, processed : Nat, errors : 0 .. Rows]

StorageTypeOK ==
  /\ stage \in Stages
  /\ kept \in [Ids -> 0 .. Versions] /\ moved \in [Ids -> 0 .. Versions]
  /\ progress \in ProgressRow
  /\ chain \subseteq 0 .. Rows
  /\ batch \in [pc : {"idle", "read", "committed"}, key : 0 .. Rows,
               copy : [Ids -> 0 .. Versions]]
  /\ writer \in [OldWriters -> [pc : {"idle", "blocked", "wrote"}, id : Ids, shares : BOOLEAN]]
  /\ deaths \in 0 .. MaxStorageFaults

(* An operator has queued the first job, or has not.                       *)
StorageInit ==
  /\ stage \in Stages
  /\ kept \in [Ids -> 0 .. (IF stage = "v2_details" THEN Unusable ELSE 1)]
  /\ moved = Nothing
  /\ progress = [status |-> "absent", cursor |-> FirstId, processed |-> 0, errors |-> 0]
  /\ chain \in {{}, {FirstId}}
  /\ batch = NoBatch
  /\ writer = [w \in OldWriters |-> NoWrite]
  /\ deaths = 0

-----------------------------------------------------------------------------
(* lockStorageProgress waits for the writers whose trigger shares the row. *)
Unshared == \A w \in OldWriters : ~writer[w].shares

FirstOf(S, n) == {i \in S : Cardinality({j \in S : j < i}) < n}

(* The rows after the cursor that a batch selects.                         *)
Eligible == {i \in Ids : i > progress.cursor /\ kept[i] # 0 /\
                         (stage = "v2_details" => moved[i] = 0)}

(* A job begins its batch and reads its rows.  A stage that is not running *)
(* returns at once.                                                        *)
BeginBatch(k) ==
  LET picked == FirstOf(Eligible, BatchSize) IN
  /\ batch.pc = "idle" /\ k \in chain /\ Unshared
  /\ batch' = IF progress.status \in {"absent", "running"}
              THEN [pc |-> "read", key |-> k,
                    copy |-> [i \in Ids |-> IF i \in picked THEN kept[i] ELSE 0]]
              ELSE [pc |-> "committed", key |-> k, copy |-> Nothing]
  /\ UNCHANGED <<stage, kept, moved, progress, chain, writer, deaths>>

Picked == {i \in Ids : batch.copy[i] # 0}
LastPicked == IF Picked = {} THEN progress.cursor ELSE CHOOSE i \in Picked : \A j \in Picked : j <= i
Exhausted == Cardinality(Picked) < BatchSize

(* advanceStorageProgress and scheduleStorageContinuation, in the          *)
(* transaction of the batch.                                               *)
Advance(cursor, errors, finished) ==
  /\ progress' = [status |-> IF ~finished THEN "running"
                             ELSE IF progress.errors + errors > 0 THEN "partial"
                             ELSE IF stage = "legacy_images" THEN "ready" ELSE "completed",
                  cursor |-> cursor, processed |-> progress.processed + Cardinality(Picked),
                  errors |-> progress.errors + errors]
  /\ chain' = IF finished THEN chain ELSE chain \cup {cursor}
  /\ batch' = [batch EXCEPT !.pc = "committed", !.copy = Nothing]
  /\ UNCHANGED <<stage, writer, deaths>>

(* Writers in the table keep the lock of its last batch waiting.           *)
TableFree == \A w \in OldWriters : writer[w].pc = "idle"

Pack == [i \in Ids |-> IF i \in Picked THEN 0 ELSE kept[i]]
Behind == Exhausted /\ \E i \in Ids : Pack[i] # 0

PackRawBatch(remaining, restart) ==
  /\ stage = "raw_evidence" /\ batch.pc = "read"
  /\ Exhausted => TableFree
  /\ kept' = Pack
  /\ moved' = [i \in Ids |-> IF i \in Picked THEN batch.copy[i] ELSE moved[i]]
  /\ Advance(IF remaining THEN restart ELSE LastPicked, 0, Exhausted /\ ~remaining)

PackRawAtCursor == PackRawBatch(FALSE, FirstId)
PackRawOnwards == PackRawBatch(Behind, LastPicked)

(* packRawEvidenceBatch: the last batch locks the table, and begins again  *)
(* from the first id when rows were written behind the cursor.             *)
PackRaw == PackRawBatch(Behind, FirstId)

(* packLegacyImagesBatch *)
PackImages ==
  /\ stage = "legacy_images" /\ batch.pc = "read"
  /\ moved' = [i \in Ids |-> IF i \in Picked THEN batch.copy[i] ELSE moved[i]]
  /\ UNCHANGED kept
  /\ Advance(LastPicked, 0, Exhausted)

(* runV2DetailStorageBatch: on conflict do nothing, failures counted.    *)
UpgradeDetails ==
  /\ stage = "v2_details" /\ batch.pc = "read"
  /\ moved' = [i \in Ids |-> IF batch.copy[i] = Usable /\ moved[i] = 0 THEN Upgraded ELSE moved[i]]
  /\ UNCHANGED kept
  /\ Advance(LastPicked, Cardinality({i \in Ids : batch.copy[i] = Unusable}), Exhausted)

(* The job is done; a worker that dies before leaves it to be tried again. *)
EndJob ==
  /\ batch.pc = "committed"
  /\ \/ /\ chain' = chain \ ({batch.key} \ {k \in {progress.cursor} : progress.status = "running"})
        /\ UNCHANGED deaths
     \/ deaths < MaxStorageFaults /\ deaths' = deaths + 1 /\ UNCHANGED chain
  /\ batch' = NoBatch
  /\ UNCHANGED <<stage, kept, moved, progress, writer>>

(* A batch that dies, or waits five seconds for the table, is rolled back. *)
BatchDies ==
  /\ batch.pc = "read" /\ deaths < MaxStorageFaults
  /\ deaths' = deaths + 1
  /\ batch' = NoBatch
  /\ UNCHANGED <<stage, kept, moved, progress, chain, writer>>

Filled(f) == Cardinality({i \in Ids : f[i] # 0})

(* verifyLegacyImages, run by an operator: any difference between the rows *)
(* and the bundles, or from the count of the batches, leaves all as it is. *)
VerifyAccepting(same) ==
  /\ stage = "legacy_images" /\ progress.status = "ready" /\ batch.pc # "read" /\ TableFree
  /\ same /\ Filled(moved) = Filled(kept) /\ Filled(kept) = progress.processed
  /\ progress' = [progress EXCEPT !.status = "completed"]
  /\ UNCHANGED <<stage, kept, moved, chain, batch, writer, deaths>>

VerifyCounts == VerifyAccepting(TRUE)
VerifyImages == VerifyAccepting(moved = kept)

-----------------------------------------------------------------------------
(* A statement of the old version takes the table and asks its trigger,    *)
(* which waits for a batch that has locked the row, finds no row before    *)
(* the first batch has committed, and refuses a completed stage.           *)
RowLocked == batch.pc = "read" /\ progress.status # "absent"

Writable(i) == CASE stage = "raw_evidence"  -> kept[i] = 0 /\ moved[i] = 0
                 [] stage = "legacy_images" -> kept[i] < Versions
                 [] OTHER                   -> FALSE

EnterTable(w, i) ==
  /\ writer[w].pc = "idle" /\ Writable(i) /\ RowLocked
  /\ writer' = [writer EXCEPT ![w] = [pc |-> "blocked", id |-> i, shares |-> FALSE]]
  /\ UNCHANGED <<stage, kept, moved, progress, chain, batch, deaths>>

Guarded(w) == ~RowLocked /\ progress.status # "completed"

WriteRow(w, i) ==
  /\ writer[w].pc = "idle" \/ (writer[w].pc = "blocked" /\ writer[w].id = i)
  /\ Writable(i) /\ \A v \in OldWriters \ {w} : writer[v].pc = "wrote" => writer[v].id # i
  /\ Guarded(w)
  /\ writer' = [writer EXCEPT ![w] = [pc |-> "wrote", id |-> i, shares |-> progress.status # "absent"]]
  /\ UNCHANGED <<stage, kept, moved, progress, chain, batch, deaths>>

CommitWrite(w) ==
  /\ writer[w].pc = "wrote"
  /\ kept' = [kept EXCEPT ![writer[w].id] = @ + 1]
  /\ writer' = [writer EXCEPT ![w] = NoWrite]
  /\ UNCHANGED <<stage, moved, progress, chain, batch, deaths>>

(* Refused by the trigger, the victim of a deadlock, or dead.              *)
AbortWrite(w) ==
  /\ writer[w].pc # "idle"
  /\ writer' = [writer EXCEPT ![w] = NoWrite]
  /\ UNCHANGED <<stage, kept, moved, progress, chain, batch, deaths>>

(* A detail page fetched meanwhile: updateListingFromDetailPage.           *)
FetchDetail(i) ==
  /\ stage = "v2_details" /\ moved[i] # Fetched
  /\ moved' = [moved EXCEPT ![i] = Fetched]
  /\ UNCHANGED <<stage, kept, progress, chain, batch, writer, deaths>>

RunBatch == (\E k \in chain : BeginBatch(k)) \/ PackRaw \/ PackImages \/ UpgradeDetails \/ EndJob

StorageNext ==
  \/ RunBatch \/ BatchDies \/ VerifyImages
  \/ \E i \in Ids : FetchDetail(i)
  \/ \E w \in OldWriters : CommitWrite(w) \/ AbortWrite(w) \/ \E i \in Ids : EnterTable(w, i) \/ WriteRow(w, i)

StorageSpec == StorageInit /\ [][StorageNext]_storageVars

(* Jobs run and transactions end; deadlocks are broken.  A batch that      *)
(* waits for the table is ahead of later statements in the lock's queue:   *)
(* strong fairness.                                                        *)
StorageFairness ==
  /\ SF_storageVars(RunBatch)
  /\ \A w \in OldWriters : WF_storageVars(CommitWrite(w) \/ AbortWrite(w))

-----------------------------------------------------------------------------
(* What a reader gets: readRawEvidence prefers the inline payload, and     *)
(* readLegacyPublicImages turns to the bundles of a completed stage.       *)
ReadOf(i) == IF stage = "raw_evidence"
             THEN IF kept[i] # 0 THEN kept[i] ELSE moved[i]
             ELSE IF progress.status = "completed" THEN moved[i] ELSE kept[i]

(* A detail fetched from the source is never replaced by an upgraded one,  *)
(* though the batch has chosen its listings before (on conflict), and no   *)
(* batch and no verification changes what readers get, whatever old        *)
(* writers, deaths and retries come between; only a writer does.           *)
MigrationKeepsReads == [][
  /\ stage = "v2_details" => \A i \in Ids : moved[i] = Fetched => moved'[i] = Fetched
  /\ stage # "v2_details" /\ (\E i \in Ids : ReadOf(i)' # ReadOf(i))
       => \E w \in OldWriters : CommitWrite(w)]_storageVars

(* A completed raw stage has no inline row left and gets none: not one     *)
(* written behind the cursor, nor by a transaction that was under way.     *)
(* When the v2 stage ends, every listing with a stored page has a detail,  *)
(* or the stage is partial for it, whatever batches were tried again       *)
(* (storage_migration_exceptions).                                         *)
StageLeavesNothing ==
  /\ stage = "raw_evidence" /\ progress.status = "completed" => \A i \in Ids : kept[i] = 0
  /\ stage = "v2_details" /\ progress.status \in {"completed", "partial"} =>
       /\ \A i \in Ids : kept[i] = Usable => moved[i] # 0
       /\ progress.status = "completed" => \A i \in Ids : kept[i] = Unusable => moved[i] # 0

(* Once it has begun, the chain of batches goes on to the end of its       *)
(* stage: jobs that die or run twice, and rows behind the cursor, do not   *)
(* break it.                                                               *)
MigrationEnds == batch.pc = "read" ~> progress.status \notin {"absent", "running"}
=============================================================================
