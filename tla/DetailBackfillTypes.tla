------------------------- MODULE DetailBackfillTypes -------------------------
(***************************************************************************)
(* Type correctness of DetailBackfill, for every set of listings and       *)
(* executions, every batch size, attempt limit and target limit, and every *)
(* bound on the environment.                                               *)
(***************************************************************************)
EXTENDS DetailBackfill, FiniteSetTheorems, TLAPS

-----------------------------------------------------------------------------
(* The values the model is built from have their types.                    *)

(* Every set of listings has a size. *)
LEMMA SubsetSize ==
  ASSUME NEW S \in SUBSET Listings
  PROVE  IsFiniteSet(S) /\ Cardinality(S) \in Nat
BY BackfillConstants, FS_Subset, FS_CardinalityType

(* The rows detail_backfill_targets starts from. *)
LEMMA RowTypes == NoRow \in RowType /\ NewRow \in RowType
<1>1. 0 \in 0 .. MaxAttempts - 1 BY BackfillConstants
<1>2. NoRow \in RowType BY <1>1 DEF NoRow, RowType
<1>3. NewRow \in RowType BY <1>2 DEF NewRow, RowType
<1> QED BY <1>2, <1>3

(* A control job that ends leaves a well-typed control queue. *)
LEMMA IdleControlOK ==
  ASSUME ctl' = IdleControl
  PROVE  ControlOK'
<1>1. IdleControl \in ControlType BY BackfillConstants DEF IdleControl, ControlType
<1>2. IdleControl.pc = "idle" BY DEF IdleControl
<1> QED BY <1>1, <1>2 DEF ControlOK

(* An execution slot without an execution. *)
LEMMA IdleWorkerType == IdleWorker \in WorkerType /\ IdleWorker.pc = "idle"
BY DEF IdleWorker, WorkerType

(* Losing the ownership of job rows changes nothing else of an execution. *)
LEMMA DisownedType ==
  ASSUME WorkersOK, NEW S
  PROVE  /\ Disown(S) \in [Workers -> WorkerType]
         /\ \A w \in Workers : /\ Disown(S)[w].pc = worker[w].pc
                               /\ Disown(S)[w].listing = worker[w].listing
BY DEF WorkersOK, WorkerType, Disown

(* An execution that goes on keeps its listing. *)
LEMMA WorkerGotoType ==
  ASSUME WorkersOK, NEW w \in Workers, worker[w].pc # "idle",
         NEW pc \in {"release", "fetch", "removeJobs", "pump", "complete"},
         WorkerGoto(w, pc)
  PROVE  WorkersOK'
BY DEF WorkersOK, WorkerType, WorkerGoto

(* The outcome counters of a run are natural numbers. *)
LEMMA CountsType ==
  ASSUME RunOK, NEW s \in Nat, NEW u \in Nat, NEW f \in Nat
  PROVE  [run EXCEPT !.succeeded = s, !.unavailable = u, !.failed = f] \in RunType
BY DEF RunOK, RunType

-----------------------------------------------------------------------------
(* Each action preserves the types: one lemma per action, one step for     *)
(* each part of the state that the action changes.                         *)

(* TakePump keeps the types. *)
LEMMA TakePumpType ==
  ASSUME TypeOK, TakePump
  PROVE  TypeOK'
<1> USE DEF TypeOK, TakePump, detailVars, envVars, ctlVars, runVars, otherVars
<1>1. ControlOK'
  <2>1. IdleControl \in ControlType BY BackfillConstants DEF IdleControl, ControlType
  <2>2. CASE crawler
    <3>1. pumpJob \in {"plain", "resume", "rebuild"} BY DEF ControlJobsOK
    <3> QED BY <2>1, <2>2, <3>1 DEF ControlOK, ControlType
  <2>3. CASE ~crawler BY <2>3, IdleControlOK
  <2> QED BY <2>2, <2>3
<1>2. ControlJobsOK' BY BackfillConstants DEF ControlJobsOK
<1> QED BY <1>1, <1>2 DEF RunOK, RowsOK, WorkersOK, JobsOK, EnvironmentOK

(* Resume keeps the types. *)
LEMMA ResumeType ==
  ASSUME TypeOK, Resume
  PROVE  TypeOK'
<1> USE DEF TypeOK, Resume, detailVars, envVars, ctlVars, runVars, otherVars
<1>1. RunOK'
  <2>1. CASE run' = run BY <2>1 DEF RunOK
  <2>2. CASE run' = [run EXCEPT !.status = "running", !.cooling = FALSE]
    BY <2>2 DEF RunOK, RunType, Statuses
  <2>3. CASE run' = [status |-> "queued", cooling |-> FALSE, target |-> 0, succeeded |-> 0,
                     unavailable |-> 0, failed |-> 0, cancelled |-> 0]
    BY <2>3 DEF RunOK, RunType, Statuses, Seedable
  <2> QED BY <2>1, <2>2, <2>3
<1>2. RowsOK' BY BackfillConstants, RowTypes DEF RowsOK, RowType
<1>3. ControlOK' BY BackfillConstants DEF ControlOK, ControlType, Goto
<1> QED BY <1>1, <1>2, <1>3 DEF WorkersOK, JobsOK, ControlJobsOK, EnvironmentOK

(* PumpRead keeps the types. *)
LEMMA PumpReadType ==
  ASSUME TypeOK, PumpRead
  PROVE  TypeOK'
<1> USE DEF TypeOK, PumpRead, detailVars, envVars, ctlVars, runVars, otherVars
<1>1. ControlOK'
  <2>1. run.status \in Statuses BY DEF RunOK, RunType
  <2>2. \/ ctl' = IdleControl
        \/ \E s \in Statuses \cup {"cooling"} : ctl' = [ctl EXCEPT !.pc = "ledger", !.seen = s]
    BY <2>1 DEF Done
  <2> QED BY <2>2, IdleControlOK DEF ControlOK, ControlType
<1> QED BY <1>1 DEF RunOK, RowsOK, WorkersOK, JobsOK, ControlJobsOK, EnvironmentOK

(* PumpLedger keeps the types. *)
LEMMA PumpLedgerType ==
  ASSUME TypeOK, PumpLedger
  PROVE  TypeOK'
<1> USE DEF TypeOK, PumpLedger, detailVars, envVars, ctlVars, runVars, otherVars
<1>1. ControlOK'
  <2>1. \E pc \in {"requeue", "seed", "unblock", "recover"} :
          ctl' = [ctl EXCEPT !.seen = "none", !.pc = pc]
    OBVIOUS
  <2> QED BY <2>1 DEF ControlOK, ControlType
<1>2. EnvironmentOK' BY BackfillConstants DEF EnvironmentOK
<1> QED BY <1>1, <1>2 DEF RunOK, RowsOK, WorkersOK, JobsOK, ControlJobsOK

(* PumpSeed keeps the types. *)
LEMMA PumpSeedType ==
  ASSUME TypeOK, PumpSeed
  PROVE  TypeOK'
<1> USE DEF TypeOK, PumpSeed, detailVars, envVars, ctlVars, runVars, otherVars
<1>1. ControlOK' BY BackfillConstants DEF ControlOK, ControlType, Goto
<1> QED BY <1>1 DEF RunOK, RowsOK, WorkersOK, JobsOK, ControlJobsOK, EnvironmentOK

(* PumpSeedCommit keeps the types. *)
LEMMA PumpSeedCommitType ==
  ASSUME TypeOK, PumpSeedCommit
  PROVE  TypeOK'
<1> USE DEF TypeOK, PumpSeedCommit, detailVars, envVars, ctlVars, runVars, otherVars
<1>1. RunOK'
  <2>1. PICK S \in SeedSets : run' = IF run.status \in Seedable THEN SeededRun(S) ELSE run
    OBVIOUS
  <2>2. S \in SUBSET Listings BY DEF SeedSets, Unparsed, EnvironmentOK
  <2>3. Unparsed \ sighted \in SUBSET Listings BY DEF Unparsed
  <2>4. Cardinality(S) \in Nat /\ Cardinality(Unparsed \ sighted) \in Nat
    BY <2>2, <2>3, SubsetSize
  <2>5. SeededRun(S) \in RunType BY <2>4 DEF SeededRun, RunType, Statuses
  <2> QED BY <2>1, <2>5 DEF RunOK
<1>2. RowsOK' BY RowTypes DEF SeededRows, RowsOK
<1>3. ControlOK' BY BackfillConstants DEF ControlOK, ControlType, Goto
<1> QED BY <1>1, <1>2, <1>3 DEF WorkersOK, JobsOK, ControlJobsOK, EnvironmentOK

(* PumpUnblock keeps the types. *)
LEMMA PumpUnblockType ==
  ASSUME TypeOK, PumpUnblock
  PROVE  TypeOK'
<1> USE DEF TypeOK, PumpUnblock, detailVars, envVars, ctlVars, runVars, otherVars
<1>1. RunOK' BY BackfillConstants DEF RunOK, RunType, Statuses, Terminal, Seedable
<1>2. EnvironmentOK' BY BackfillConstants DEF EnvironmentOK
<1>3. ControlOK' BY BackfillConstants DEF ControlOK, ControlType
<1> QED BY <1>1, <1>2, <1>3 DEF RowsOK, WorkersOK, JobsOK, ControlJobsOK

(* PumpRecover keeps the types. *)
LEMMA PumpRecoverType ==
  ASSUME TypeOK, PumpRecover
  PROVE  TypeOK'
<1> USE DEF TypeOK, PumpRecover, detailVars, envVars, ctlVars, runVars, otherVars
<1>1. RowsOK' BY BackfillConstants DEF RowsOK, RowType
<1>2. ControlOK' BY BackfillConstants DEF ControlOK, ControlType, Goto
<1> QED BY <1>1, <1>2 DEF RunOK, WorkersOK, JobsOK, ControlJobsOK, EnvironmentOK

(* PumpPrune keeps the types. *)
LEMMA PumpPruneType ==
  ASSUME TypeOK, PumpPrune
  PROVE  TypeOK'
<1> USE DEF TypeOK, PumpPrune, detailVars, envVars, ctlVars, runVars, otherVars
<1>1. RowsOK' BY BackfillConstants, RowTypes DEF RowsOK, RowType
<1>2. RunOK'
  <2>1. Cardinality(Ledger \ sighted) \in Nat BY SubsetSize DEF Ledger
  <2> QED BY <2>1 DEF RunOK, RunType
<1>3. ControlOK' BY BackfillConstants DEF ControlOK, ControlType, Goto
<1> QED BY <1>1, <1>2, <1>3 DEF WorkersOK, JobsOK, ControlJobsOK, EnvironmentOK

(* PumpCount keeps the types. *)
LEMMA PumpCountType ==
  ASSUME TypeOK, PumpCount
  PROVE  TypeOK'
<1> USE DEF TypeOK, PumpCount, detailVars, envVars, ctlVars, runVars, otherVars
<1>1. ControlOK'
  <2>1. Cardinality(Queued) \in Nat BY SubsetSize DEF Queued
  <2>2. Capacity(Cardinality(Queued), ctl.probe) \in Nat BY <2>1, BackfillConstants DEF Capacity
  <2>3. \/ ctl' = IdleControl
        \/ ctl' = [ctl EXCEPT !.pc = "finalize"]
        \/ \E r \in Nat : ctl' = [ctl EXCEPT !.pc = "select", !.room = r, !.probe = FALSE]
    BY <2>2 DEF Goto, Done
  <2> QED BY <2>3, IdleControlOK DEF ControlOK, ControlType
<1> QED BY <1>1 DEF RunOK, RowsOK, WorkersOK, JobsOK, ControlJobsOK, EnvironmentOK

(* PumpSelect keeps the types. *)
LEMMA PumpSelectType ==
  ASSUME TypeOK, PumpSelect
  PROVE  TypeOK'
<1> USE DEF TypeOK, PumpSelect, detailVars, envVars, ctlVars, runVars, otherVars
<1>1. ControlOK'
  <2>1. \/ ctl' = IdleControl
        \/ ctl' = [ctl EXCEPT !.pc = "requeue"]
        \/ \E S \in SUBSET Listings : ctl' = [ctl EXCEPT !.pc = "claim", !.todo = S, !.room = 0]
    BY DEF Goto, Done, Ledger
  <2>2. CASE ctl' = IdleControl BY <2>2, IdleControlOK
  <2>3. CASE ctl' = [ctl EXCEPT !.pc = "requeue"] BY <2>3 DEF ControlOK, ControlType
  <2>4. ASSUME NEW S \in SUBSET Listings,
               ctl' = [ctl EXCEPT !.pc = "claim", !.todo = S, !.room = 0]
        PROVE  ControlOK'
    BY <2>4 DEF ControlOK, ControlType
  <2> QED BY <2>1, <2>2, <2>3, <2>4
<1> QED BY <1>1 DEF RunOK, RowsOK, WorkersOK, JobsOK, ControlJobsOK, EnvironmentOK

(* PumpClaim keeps the types. *)
LEMMA PumpClaimType ==
  ASSUME TypeOK, NEW l \in Listings, PumpClaim(l)
  PROVE  TypeOK'
<1> USE DEF TypeOK, PumpClaim, detailVars, envVars, ctlVars, runVars, otherVars
<1>1. RowsOK' BY BackfillConstants DEF RowsOK, RowType
<1>2. ControlOK'
  <2>1. \/ ctl' = IdleControl
        \/ ctl' = [ctl EXCEPT !.todo = @ \ {l}]
        \/ ctl' = [ctl EXCEPT !.pc = "dispatch", !.cur = l, !.todo = @ \ {l}]
    OBVIOUS
  <2> QED BY <2>1, IdleControlOK DEF ControlOK, ControlType
<1> QED BY <1>1, <1>2 DEF RunOK, WorkersOK, JobsOK, ControlJobsOK, EnvironmentOK

(* PumpDispatch keeps the types. *)
LEMMA PumpDispatchType ==
  ASSUME TypeOK, PumpDispatch
  PROVE  TypeOK'
<1> USE DEF TypeOK, PumpDispatch, detailVars, envVars, ctlVars, runVars, otherVars
<1>1. JobsOK' BY DEF AddDetailJob, JobsOK
<1>2. WorkersOK' BY DisownedType DEF AddDetailJob, WorkersOK
<1>3. ControlOK'
  <2>1. \/ ctl' = IdleControl
        \/ ctl' = [ctl EXCEPT !.pc = "claim", !.cur = NoListing]
    OBVIOUS
  <2> QED BY <2>1, IdleControlOK DEF ControlOK, ControlType
<1> QED BY <1>1, <1>2, <1>3 DEF RunOK, RowsOK, ControlJobsOK, EnvironmentOK

(* PumpUndo keeps the types. *)
LEMMA PumpUndoType ==
  ASSUME TypeOK, PumpUndo
  PROVE  TypeOK'
<1> USE DEF TypeOK, PumpUndo, detailVars, envVars, ctlVars, runVars, otherVars
<1>1. RowsOK' BY BackfillConstants DEF RowsOK, RowType, Released
<1>2. ControlOK' BY IdleControlOK DEF Done, ControlJobFails
<1>3. ControlJobsOK' BY BackfillConstants DEF ControlJobsOK, ControlJobFails
<1> QED BY <1>1, <1>2, <1>3 DEF RunOK, WorkersOK, JobsOK, EnvironmentOK

(* PumpFinalize keeps the types. *)
LEMMA PumpFinalizeType ==
  ASSUME TypeOK, PumpFinalize
  PROVE  TypeOK'
<1> USE DEF TypeOK, PumpFinalize, detailVars, envVars, ctlVars, runVars, otherVars
<1>1. RunOK' BY BackfillConstants DEF RunOK, RunType, Statuses, Terminal, Seedable
<1>2. ControlOK' BY IdleControlOK DEF Done, ControlJobFails
<1> QED BY <1>1, <1>2 DEF RowsOK, WorkersOK, JobsOK, ControlJobsOK, EnvironmentOK

(* PumpRequeue keeps the types. *)
LEMMA PumpRequeueType ==
  ASSUME TypeOK, PumpRequeue
  PROVE  TypeOK'
<1> USE DEF TypeOK, PumpRequeue, detailVars, envVars, ctlVars, runVars, otherVars
<1>1. ControlJobsOK' BY BackfillConstants DEF ControlJobsOK
<1>2. ControlOK' BY IdleControlOK DEF Done, ControlJobFails
<1> QED BY <1>1, <1>2 DEF RunOK, RowsOK, WorkersOK, JobsOK, EnvironmentOK

(* TakeCancel keeps the types. *)
LEMMA TakeCancelType ==
  ASSUME TypeOK, TakeCancel
  PROVE  TypeOK'
<1> USE DEF TypeOK, TakeCancel, detailVars, envVars, ctlVars, runVars, otherVars
<1>1. ControlOK'
  <2>1. IdleControl \in ControlType BY BackfillConstants DEF IdleControl, ControlType
  <2> QED BY <2>1 DEF ControlOK, ControlType
<1>2. ControlJobsOK' BY BackfillConstants DEF ControlJobsOK
<1> QED BY <1>1, <1>2 DEF RunOK, RowsOK, WorkersOK, JobsOK, EnvironmentOK

(* CancelJobs keeps the types. *)
LEMMA CancelJobsType ==
  ASSUME TypeOK, CancelJobs
  PROVE  TypeOK'
<1> USE DEF TypeOK, CancelJobs, detailVars, envVars, ctlVars, runVars, otherVars
<1>1. ControlOK'
  <2>1. ctl' = IdleControl \/ ctl' = [ctl EXCEPT !.pc = "cancelLedger"]
    BY DEF Goto, Done
  <2> QED BY <2>1, IdleControlOK DEF ControlOK, ControlType
<1>2. ControlJobsOK' BY BackfillConstants DEF ControlJobsOK
<1>3. JobsOK' BY BackfillConstants DEF JobsOK
<1>4. WorkersOK' BY DisownedType DEF WorkersOK
<1>5. EnvironmentOK' BY BackfillConstants DEF EnvironmentOK
<1> QED BY <1>1, <1>2, <1>3, <1>4, <1>5 DEF RunOK, RowsOK

(* CancelLedger keeps the types. *)
LEMMA CancelLedgerType ==
  ASSUME TypeOK, CancelLedger
  PROVE  TypeOK'
<1> USE DEF TypeOK, CancelLedger, detailVars, envVars, ctlVars, runVars, otherVars
<1>1. RowsOK' BY BackfillConstants, RowTypes DEF RowsOK, RowType
<1>2. ControlOK'
  <2>1. Cardinality(Ledger) \in Nat BY SubsetSize DEF Ledger
  <2> QED BY <2>1 DEF ControlOK, ControlType
<1> QED BY <1>1, <1>2 DEF RunOK, WorkersOK, JobsOK, ControlJobsOK, EnvironmentOK

(* CancelMark keeps the types. *)
LEMMA CancelMarkType ==
  ASSUME TypeOK, CancelMark
  PROVE  TypeOK'
<1> USE DEF TypeOK, CancelMark, detailVars, envVars, ctlVars, runVars, otherVars
<1>1. RunOK'
  <2>1. ctl.removed \in Nat BY DEF ControlOK, ControlType
  <2>2. run.cancelled + ctl.removed \in Nat BY <2>1 DEF RunOK, RunType
  <2>3. "cancelled" \in Statuses BY DEF Statuses, Terminal
  <2>4. CASE run' = run BY <2>4 DEF RunOK
  <2>5. CASE run' = [run EXCEPT !.status = "cancelled", !.cooling = FALSE,
                                !.cancelled = @ + ctl.removed]
    BY <2>2, <2>3, <2>5 DEF RunOK, RunType
  <2> QED BY <2>4, <2>5
<1>2. ControlOK' BY IdleControlOK DEF Done, ControlJobFails
<1> QED BY <1>1, <1>2 DEF RowsOK, WorkersOK, JobsOK, ControlJobsOK, EnvironmentOK

(* TakeDetail keeps the types. *)
LEMMA TakeDetailType ==
  ASSUME TypeOK, NEW w \in Workers, NEW l \in Listings, TakeDetail(w, l)
  PROVE  TypeOK'
<1> USE DEF TypeOK, TakeDetail, detailVars, envVars, ctlVars, runVars, otherVars
<1>1. JobsOK' BY BackfillConstants DEF JobsOK
<1>2. WorkersOK' BY BackfillConstants DEF WorkersOK, WorkerType
<1> QED BY <1>1, <1>2 DEF ControlOK, RunOK, RowsOK, ControlJobsOK, EnvironmentOK

(* DetailContext keeps the types. *)
LEMMA DetailContextType ==
  ASSUME TypeOK, NEW w \in Workers, DetailContext(w)
  PROVE  TypeOK'
<1> USE DEF TypeOK, DetailContext, detailVars, envVars, ctlVars, runVars, otherVars
<1>1. WorkersOK'
  <2>1. CASE worker[w].listing \in Queued /\ run.status = "running"
    BY <2>1 DEF WorkersOK, WorkerType
  <2>2. CASE ~(worker[w].listing \in Queued /\ run.status = "running")
    <3>1. PICK pc \in {"complete", "release"} : WorkerGoto(w, pc) BY <2>2, Zenon
    <3> QED BY <3>1, WorkerGotoType
  <2> QED BY <2>1, <2>2
<1> QED BY <1>1 DEF ControlOK, RunOK, RowsOK, JobsOK, ControlJobsOK, EnvironmentOK

(* DetailRelease keeps the types. *)
LEMMA DetailReleaseType ==
  ASSUME TypeOK, NEW w \in Workers, DetailRelease(w)
  PROVE  TypeOK'
<1> USE DEF TypeOK, DetailRelease, detailVars, envVars, ctlVars, runVars, otherVars
<1>1. RowsOK' BY BackfillConstants DEF RowsOK, RowType, Released
<1>2. WorkersOK' BY BackfillConstants DEF WorkersOK, WorkerType, WorkerGoto
<1> QED BY <1>1, <1>2 DEF ControlOK, RunOK, JobsOK, ControlJobsOK, EnvironmentOK

(* DetailFetch keeps the types. *)
LEMMA DetailFetchType ==
  ASSUME TypeOK, NEW w \in Workers, NEW r, DetailFetch(w, r)
  PROVE  TypeOK'
<1> USE DEF TypeOK, DetailFetch, detailVars, envVars, ctlVars, runVars, otherVars
<1>1. WorkersOK' BY BackfillConstants DEF WorkersOK, WorkerType
<1>2. EnvironmentOK'
  <2>1. worker[w].listing \in Listings BY DEF WorkersOK
  <2>2. evidence' \in [Listings -> {"none", "parsed", "unavailable"}]
    <3>1. CASE r = "succeeded" BY <3>1, <2>1 DEF EnvironmentOK
    <3>2. CASE r = "unavailable" BY <3>2, <2>1 DEF EnvironmentOK
    <3>3. CASE r \in {"failed", "error", "blocked", "crawler_off"} BY <3>3 DEF EnvironmentOK
    <3> QED BY <3>1, <3>2, <3>3
  <2>3. spent' \in [commands : 0 .. MaxCommands, faults : 0 .. MaxFaults,
                    blocks : 0 .. MaxBlocks]
    <3>0. spent.blocks \in 0 .. MaxBlocks BY DEF EnvironmentOK
    <3>1. (IF r = "blocked" THEN spent.blocks + 1 ELSE spent.blocks) \in 0 .. MaxBlocks
      BY <3>0, BackfillConstants
    <3> QED BY <3>1 DEF EnvironmentOK
  <2> QED BY <2>2, <2>3 DEF EnvironmentOK
<1> QED BY <1>1, <1>2 DEF ControlOK, RunOK, RowsOK, JobsOK, ControlJobsOK

(* FinishTarget keeps the types. *)
LEMMA FinishTargetType ==
  ASSUME TypeOK, NEW w \in Workers, FinishTarget(w)
  PROVE  TypeOK'
<1> USE DEF TypeOK, FinishTarget, detailVars, envVars, ctlVars, runVars, otherVars
<1>1. RowsOK' BY BackfillConstants, RowTypes DEF RowsOK, RowType
<1>2. RunOK'
  <2>1. CASE run' = run BY <2>1 DEF RunOK
  <2>2. CASE run' # run
    <3>0. /\ run.succeeded \in Nat /\ run.unavailable \in Nat /\ run.failed \in Nat
          /\ run.succeeded + 1 \in Nat /\ run.unavailable + 1 \in Nat /\ run.failed + 1 \in Nat
      BY DEF RunOK, RunType
    <3>1. run' \in RunType
      <4>1. CASE worker[w].result = "succeeded"
        <5>1. run' = [run EXCEPT !.succeeded = run.succeeded + 1, !.unavailable = run.unavailable,
                                 !.failed = run.failed]
          BY <2>2, <4>1
        <5> QED BY <3>0, <5>1, CountsType
      <4>2. CASE worker[w].result = "unavailable"
        <5>1. run' = [run EXCEPT !.succeeded = run.succeeded,
                                 !.unavailable = run.unavailable + 1, !.failed = run.failed]
          BY <2>2, <4>2
        <5> QED BY <3>0, <5>1, CountsType
      <4>3. CASE worker[w].result = "failed"
        <5>1. run' = [run EXCEPT !.succeeded = run.succeeded, !.unavailable = run.unavailable,
                                 !.failed = run.failed + 1]
          BY <2>2, <4>3
        <5> QED BY <3>0, <5>1, CountsType
      <4> QED BY <4>1, <4>2, <4>3
    <3> QED BY <3>1 DEF RunOK
  <2> QED BY <2>1, <2>2
<1>3. WorkersOK' BY BackfillConstants DEF WorkersOK, WorkerType, WorkerGoto
<1>4. EnvironmentOK' BY BackfillConstants DEF EnvironmentOK
<1> QED BY <1>1, <1>2, <1>3, <1>4 DEF ControlOK, JobsOK, ControlJobsOK

(* RetryOrFailTarget keeps the types. *)
LEMMA RetryOrFailTargetType ==
  ASSUME TypeOK, NEW w \in Workers, RetryOrFailTarget(w)
  PROVE  TypeOK'
<1> USE DEF TypeOK, RetryOrFailTarget, detailVars, envVars, ctlVars, runVars,
          otherVars
<1>1. RowsOK'
  <2>1. worker[w].listing \in Listings BY DEF WorkersOK
  <2>2. CASE row' = row BY <2>2 DEF RowsOK
  <2>3. CASE row' = [row EXCEPT ![worker[w].listing] = NoRow] BY <2>3, RowTypes DEF RowsOK
  <2>4. CASE /\ ~(row[worker[w].listing].tries + 1 >= MaxAttempts)
             /\ row' = [row EXCEPT ![worker[w].listing] =
                          [state |-> "pending", tries |-> @.tries + 1, next |-> "future",
                           old |-> FALSE]]
    <3>1. row[worker[w].listing].tries + 1 \in 0 .. MaxAttempts - 1
      BY <2>1, <2>4, BackfillConstants DEF RowsOK, RowType
    <3> QED BY <3>1, <2>4, <2>1 DEF RowsOK, RowType
  <2> QED BY <2>2, <2>3, <2>4
<1>2. RunOK' BY BackfillConstants DEF RunOK, RunType, Statuses, Terminal, Seedable
<1>3. WorkersOK' BY BackfillConstants DEF WorkersOK, WorkerType, WorkerGoto
<1>4. EnvironmentOK' BY BackfillConstants DEF EnvironmentOK
<1> QED BY <1>1, <1>2, <1>3, <1>4 DEF ControlOK, JobsOK, ControlJobsOK

(* BlockBackfill keeps the types. *)
LEMMA BlockBackfillType ==
  ASSUME TypeOK, NEW w \in Workers, BlockBackfill(w)
  PROVE  TypeOK'
<1> USE DEF TypeOK, BlockBackfill, detailVars, envVars, ctlVars, runVars, otherVars
<1>1. RowsOK' BY BackfillConstants DEF RowsOK, RowType
<1>2. RunOK' BY BackfillConstants DEF RunOK, RunType, Statuses, Terminal, Seedable
<1>3. WorkersOK' BY BackfillConstants DEF WorkersOK, WorkerType, WorkerGoto
<1>4. EnvironmentOK' BY BackfillConstants DEF EnvironmentOK
<1> QED BY <1>1, <1>2, <1>3, <1>4 DEF ControlOK, JobsOK, ControlJobsOK

(* RemoveManagedJobs keeps the types. *)
LEMMA RemoveManagedJobsType ==
  ASSUME TypeOK, NEW w \in Workers, RemoveManagedJobs(w)
  PROVE  TypeOK'
<1> USE DEF TypeOK, RemoveManagedJobs, detailVars, envVars, ctlVars, runVars,
          otherVars
<1>1. JobsOK' BY BackfillConstants DEF JobsOK
<1>2. WorkersOK'
  <2>1. Disown(Listings) \in [Workers -> WorkerType] BY DisownedType
  <2> QED BY <2>1, DisownedType DEF WorkersOK, WorkerType
<1> QED BY <1>1, <1>2 DEF ControlOK, RunOK, RowsOK, ControlJobsOK, EnvironmentOK

(* PauseBackfill keeps the types. *)
LEMMA PauseBackfillType ==
  ASSUME TypeOK, NEW w \in Workers, PauseBackfill(w)
  PROVE  TypeOK'
<1> USE DEF TypeOK, PauseBackfill, detailVars, envVars, ctlVars, runVars, otherVars
<1>1. RowsOK' BY BackfillConstants DEF RowsOK, RowType, Released
<1>2. RunOK' BY BackfillConstants DEF RunOK, RunType, Statuses, Terminal, Seedable
<1>3. WorkersOK' BY BackfillConstants DEF WorkersOK, WorkerType, WorkerGoto
<1>4. EnvironmentOK' BY BackfillConstants DEF EnvironmentOK
<1> QED BY <1>1, <1>2, <1>3, <1>4 DEF ControlOK, JobsOK, ControlJobsOK

(* DetailQueuePump keeps the types. *)
LEMMA DetailQueuePumpType ==
  ASSUME TypeOK, NEW w \in Workers, DetailQueuePump(w)
  PROVE  TypeOK'
<1> USE DEF TypeOK, DetailQueuePump, detailVars, envVars, ctlVars, runVars,
          otherVars
<1>1. WorkersOK' BY BackfillConstants DEF WorkersOK, WorkerType, WorkerGoto
<1>2. ControlJobsOK' BY BackfillConstants DEF ControlJobsOK
<1> QED BY <1>1, <1>2 DEF ControlOK, RunOK, RowsOK, JobsOK, EnvironmentOK

(* DetailComplete keeps the types. *)
LEMMA DetailCompleteType ==
  ASSUME TypeOK, NEW w \in Workers, DetailComplete(w)
  PROVE  TypeOK'
<1> USE DEF TypeOK, DetailComplete, detailVars, envVars, ctlVars, runVars, otherVars
<1>1. JobsOK' BY BackfillConstants DEF JobsOK, DeletedJob, ReleasedLock
<1>2. WorkersOK'
  <2>1. CASE worker[w].owns BY <2>1, IdleWorkerType, DisownedType DEF WorkersOK
  <2>2. CASE ~worker[w].owns BY <2>2, IdleWorkerType DEF WorkersOK
  <2> QED BY <2>1, <2>2
<1> QED BY <1>1, <1>2 DEF ControlOK, RunOK, RowsOK, ControlJobsOK, EnvironmentOK

(* DetailFails keeps the types. *)
LEMMA DetailFailsType ==
  ASSUME TypeOK, NEW w \in Workers, DetailFails(w)
  PROVE  TypeOK'
<1> USE DEF TypeOK, DetailFails, detailVars, envVars, ctlVars, runVars, otherVars
<1>1. EnvironmentOK' BY BackfillConstants DEF EnvironmentOK
<1>2. JobsOK' BY BackfillConstants DEF JobsOK, ReleasedLock
<1>3. WorkersOK' BY IdleWorkerType DEF WorkersOK
<1> QED BY <1>1, <1>2, <1>3 DEF ControlOK, RunOK, RowsOK, ControlJobsOK

(* DetailDies keeps the types. *)
LEMMA DetailDiesType ==
  ASSUME TypeOK, NEW w \in Workers, DetailDies(w)
  PROVE  TypeOK'
<1> USE DEF TypeOK, DetailDies, detailVars, envVars, ctlVars, runVars, otherVars
<1>1. EnvironmentOK' BY BackfillConstants DEF EnvironmentOK
<1>2. JobsOK' BY BackfillConstants DEF JobsOK
<1>3. WorkersOK' BY IdleWorkerType DEF WorkersOK
<1> QED BY <1>1, <1>2, <1>3 DEF ControlOK, RunOK, RowsOK, ControlJobsOK

(* RecoverDeadLock keeps the types. *)
LEMMA RecoverDeadLockType ==
  ASSUME TypeOK, RecoverDeadLock
  PROVE  TypeOK'
<1> USE DEF TypeOK, RecoverDeadLock, detailVars, envVars, ctlVars, runVars,
          otherVars
<1>1. JobsOK' BY BackfillConstants DEF JobsOK, Unlocked
<1> QED BY <1>1 DEF ControlOK, RunOK, RowsOK, WorkersOK, ControlJobsOK,
      EnvironmentOK

(* RecoverSlowLock keeps the types. *)
LEMMA RecoverSlowLockType ==
  ASSUME TypeOK, RecoverSlowLock
  PROVE  TypeOK'
<1> USE DEF TypeOK, RecoverSlowLock, detailVars, envVars, ctlVars, runVars,
          otherVars
<1>1. JobsOK' BY BackfillConstants DEF JobsOK, Unlocked
<1>2. EnvironmentOK' BY BackfillConstants DEF EnvironmentOK
<1> QED BY <1>1, <1>2 DEF ControlOK, RunOK, RowsOK, WorkersOK, ControlJobsOK

(* MaintainRead keeps the types. *)
LEMMA MaintainReadType ==
  ASSUME TypeOK, MaintainRead
  PROVE  TypeOK'
<1> USE DEF TypeOK, MaintainRead, detailVars, envVars, ctlVars, runVars, otherVars
<1>1. ControlJobsOK' BY BackfillConstants DEF ControlJobsOK
<1> QED BY <1>1 DEF ControlOK, RunOK, RowsOK, WorkersOK, JobsOK, EnvironmentOK

(* MaintainQueue keeps the types. *)
LEMMA MaintainQueueType ==
  ASSUME TypeOK, MaintainQueue
  PROVE  TypeOK'
<1> USE DEF TypeOK, MaintainQueue, detailVars, envVars, ctlVars, runVars, otherVars
<1>1. ControlJobsOK' BY BackfillConstants DEF ControlJobsOK
<1> QED BY <1>1 DEF ControlOK, RunOK, RowsOK, WorkersOK, JobsOK, EnvironmentOK

(* OperatorPause keeps the types. *)
LEMMA OperatorPauseType ==
  ASSUME TypeOK, OperatorPause
  PROVE  TypeOK'
<1> USE DEF TypeOK, OperatorPause, Command, detailVars, envVars, ctlVars, runVars,
          otherVars
<1>1. RunOK' BY BackfillConstants DEF RunOK, RunType, Statuses, Terminal, Seedable
<1>2. EnvironmentOK' BY BackfillConstants DEF EnvironmentOK
<1> QED BY <1>1, <1>2 DEF ControlOK, RowsOK, WorkersOK, JobsOK, ControlJobsOK

(* OperatorCancel keeps the types. *)
LEMMA OperatorCancelType ==
  ASSUME TypeOK, OperatorCancel
  PROVE  TypeOK'
<1> USE DEF TypeOK, OperatorCancel, Command, detailVars, envVars, ctlVars, runVars,
          otherVars
<1>1. RunOK' BY BackfillConstants DEF RunOK, RunType, Statuses, Terminal, Seedable
<1>2. EnvironmentOK' BY BackfillConstants DEF EnvironmentOK
<1>3. ControlJobsOK' BY BackfillConstants DEF ControlJobsOK
<1> QED BY <1>1, <1>2, <1>3 DEF ControlOK, RowsOK, WorkersOK, JobsOK

(* OperatorResume keeps the types. *)
LEMMA OperatorResumeType ==
  ASSUME TypeOK, OperatorResume
  PROVE  TypeOK'
<1> USE DEF TypeOK, OperatorResume, Command, detailVars, envVars, ctlVars, runVars,
          otherVars
<1>1. EnvironmentOK' BY BackfillConstants DEF EnvironmentOK
<1>2. ControlJobsOK' BY BackfillConstants DEF ControlJobsOK
<1> QED BY <1>1, <1>2 DEF ControlOK, RunOK, RowsOK, WorkersOK, JobsOK

(* QueryDisabled keeps the types. *)
LEMMA QueryDisabledType ==
  ASSUME TypeOK, NEW l \in Listings, QueryDisabled(l)
  PROVE  TypeOK'
<1> USE DEF TypeOK, QueryDisabled, detailVars, envVars, ctlVars, runVars, otherVars
<1>1. EnvironmentOK' BY BackfillConstants DEF EnvironmentOK
<1> QED BY <1>1 DEF ControlOK, RunOK, RowsOK, WorkersOK, JobsOK, ControlJobsOK

(* CooldownEnds keeps the types. *)
LEMMA CooldownEndsType ==
  ASSUME TypeOK, CooldownEnds
  PROVE  TypeOK'
<1> USE DEF TypeOK, CooldownEnds, detailVars, envVars, ctlVars, runVars, otherVars
<1>1. RunOK' BY BackfillConstants DEF RunOK, RunType, Statuses, Terminal, Seedable
<1> QED BY <1>1 DEF ControlOK, RowsOK, WorkersOK, JobsOK, ControlJobsOK,
      EnvironmentOK

(* SwitchCrawler keeps the types. *)
LEMMA SwitchCrawlerType ==
  ASSUME TypeOK, SwitchCrawler
  PROVE  TypeOK'
<1> USE DEF TypeOK, SwitchCrawler, detailVars, envVars, ctlVars, runVars, otherVars
<1>1. EnvironmentOK' BY BackfillConstants DEF EnvironmentOK
<1> QED BY <1>1 DEF ControlOK, RunOK, RowsOK, WorkersOK, JobsOK, ControlJobsOK

(* RetryDue keeps the types. *)
LEMMA RetryDueType ==
  ASSUME TypeOK, NEW l \in Listings, RetryDue(l)
  PROVE  TypeOK'
<1> USE DEF TypeOK, RetryDue, detailVars, envVars, ctlVars, runVars, otherVars
<1>1. RowsOK' BY BackfillConstants DEF RowsOK, RowType
<1> QED BY <1>1 DEF ControlOK, RunOK, WorkersOK, JobsOK, ControlJobsOK,
      EnvironmentOK

(* DispatchAges keeps the types. *)
LEMMA DispatchAgesType ==
  ASSUME TypeOK, NEW l \in Listings, DispatchAges(l)
  PROVE  TypeOK'
<1> USE DEF TypeOK, DispatchAges, detailVars, envVars, ctlVars, runVars, otherVars
<1>1. RowsOK' BY BackfillConstants DEF RowsOK, RowType
<1> QED BY <1>1 DEF ControlOK, RunOK, WorkersOK, JobsOK, ControlJobsOK,
      EnvironmentOK

(* PumpDispatchFails keeps the types. *)
LEMMA PumpDispatchFailsType ==
  ASSUME TypeOK, PumpDispatchFails
  PROVE  TypeOK'
<1> USE DEF TypeOK, PumpDispatchFails, detailVars, envVars, ctlVars, runVars,
          otherVars
<1>1. ControlOK' BY BackfillConstants DEF ControlOK, ControlType, Goto
<1>2. EnvironmentOK' BY BackfillConstants DEF EnvironmentOK
<1> QED BY <1>1, <1>2 DEF RunOK, RowsOK, WorkersOK, JobsOK, ControlJobsOK

(* ControlFails keeps the types. *)
LEMMA ControlFailsType ==
  ASSUME TypeOK, ControlFails
  PROVE  TypeOK'
<1> USE DEF TypeOK, ControlFails, detailVars, envVars, ctlVars, runVars, otherVars
<1>1. ControlOK' BY IdleControlOK DEF Done, ControlJobFails
<1>2. EnvironmentOK' BY BackfillConstants DEF EnvironmentOK
<1>3. ControlJobsOK' BY BackfillConstants DEF ControlJobsOK, ControlJobFails
<1> QED BY <1>1, <1>2, <1>3 DEF RunOK, RowsOK, WorkersOK, JobsOK

-----------------------------------------------------------------------------
(* Type correctness.                                                       *)

(* A run starts with every variable typed. *)
LEMMA InitType == Init => TypeOK
<1> SUFFICES ASSUME Init PROVE TypeOK OBVIOUS
<1> USE DEF Init
<1>1. RunOK /\ RowsOK /\ ControlOK /\ legacy \in BOOLEAN
  <2>0. IdleControl \in ControlType /\ IdleControl.pc = "idle"
    BY BackfillConstants DEF IdleControl, ControlType
  <2>1. CASE CreatedRun
    <3>1. PICK S \in SeedSets : run = SeededRun(S) /\ row = SeededRows(S)
      BY <2>1 DEF CreatedRun
    <3>2. S \in SUBSET Listings BY DEF SeedSets, Unparsed
    <3>3. Unparsed \ sighted \in SUBSET Listings BY DEF Unparsed
    <3>4. Cardinality(S) \in Nat /\ Cardinality(Unparsed \ sighted) \in Nat
      BY <3>2, <3>3, SubsetSize
    <3>5. RunOK BY <3>1, <3>4 DEF RunOK, SeededRun, RunType, Statuses
    <3>6. RowsOK BY <3>1, RowTypes DEF SeededRows, RowsOK
    <3>7. ControlOK /\ legacy \in BOOLEAN
      BY <2>0, <2>1 DEF CreatedRun, ControlOK, ControlType
    <3> QED BY <3>5, <3>6, <3>7
  <2>2. CASE LegacyRun
    <3>1. Cardinality(Listings) \in Nat BY SubsetSize
    <3>2. RunOK BY <2>2, <3>1 DEF LegacyRun, RunOK, RunType, Statuses, Seedable
    <3>3. RowsOK BY <2>2, RowTypes DEF LegacyRun, RowsOK
    <3>4. ControlOK /\ legacy \in BOOLEAN BY <2>0, <2>2 DEF LegacyRun, ControlOK
    <3> QED BY <3>2, <3>3, <3>4
  <2> QED BY <2>1, <2>2
<1>2. JobsOK BY DEF JobsOK
<1>3. WorkersOK BY IdleWorkerType DEF WorkersOK
<1>4. ControlJobsOK BY DEF ControlJobsOK
<1>5. EnvironmentOK
  <2>1. 0 \in 0 .. MaxCommands /\ 0 \in 0 .. MaxFaults /\ 0 \in 0 .. MaxBlocks
    BY BackfillConstants
  <2> QED BY <1>1, <2>1 DEF EnvironmentOK
<1> QED BY <1>1, <1>2, <1>3, <1>4, <1>5 DEF TypeOK

(* No step of any actor breaks the types. *)
LEMMA NextType == TypeOK /\ [Next]_vars => TypeOK'
<1> SUFFICES ASSUME TypeOK, [Next]_vars PROVE TypeOK' OBVIOUS
<1>1. CASE Pump
  BY <1>1, TakePumpType, ResumeType, PumpReadType, PumpLedgerType, PumpSeedType,
     PumpSeedCommitType, PumpUnblockType, PumpRecoverType, PumpPruneType, PumpCountType,
     PumpSelectType, PumpClaimType, PumpDispatchType, PumpUndoType, PumpFinalizeType,
     PumpRequeueType
  DEF Pump
<1>2. CASE Cancellation
  BY <1>2, TakeCancelType, CancelJobsType, CancelLedgerType, CancelMarkType DEF Cancellation
<1>3. CASE Detail
  <2>1. ASSUME NEW w \in Workers, DetailStep(w) PROVE TypeOK'
    BY <2>1, DetailContextType, DetailReleaseType, DetailFetchType, FinishTargetType,
       RetryOrFailTargetType, BlockBackfillType, PauseBackfillType, RemoveManagedJobsType,
       DetailQueuePumpType, DetailCompleteType
    DEF DetailStep
  <2> QED BY <1>3, <2>1, TakeDetailType DEF Detail
<1>4. CASE RecoverDeadLock BY <1>4, RecoverDeadLockType
<1>5. CASE Maintenance BY <1>5, MaintainReadType, MaintainQueueType DEF Maintenance
<1>6. CASE Operator
  BY <1>6, OperatorPauseType, OperatorCancelType, OperatorResumeType, SwitchCrawlerType,
     QueryDisabledType
  DEF Operator
<1>7. CASE Time BY <1>7, CooldownEndsType, RetryDueType, DispatchAgesType DEF Time
<1>8. CASE Faults
  BY <1>8, PumpDispatchFailsType, ControlFailsType, RecoverSlowLockType, DetailFailsType,
     DetailDiesType
  DEF Faults
<1>9. CASE UNCHANGED vars
  BY <1>9 DEF vars, TypeOK, RunOK, RowsOK, JobsOK, WorkersOK, ControlOK, ControlJobsOK,
     EnvironmentOK
<1> QED BY <1>1, <1>2, <1>3, <1>4, <1>5, <1>6, <1>7, <1>8, <1>9 DEF Next

(* Every behaviour of the backfill keeps every variable typed: no counter  *)
(* goes below zero and no target row outlives its last attempt.            *)
THEOREM TypeCorrect == Spec => []TypeOK
<1>1. Init => TypeOK BY InitType
<1>2. TypeOK /\ [Next]_vars => TypeOK' BY NextType
<1> QED BY <1>1, <1>2, PTL DEF Spec

=============================================================================
