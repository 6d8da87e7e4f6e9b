------------------------- MODULE DetailBackfillProofs -------------------------
(***************************************************************************)
(* A detail backfill run that is over is never touched again.              *)
(*                                                                         *)
(* TerminalInv is the inductive strengthening of TerminalLedgerEmpty: a    *)
(* ledger can be filled only by the seeding transaction and a run can be   *)
(* ended only by the pump, which looks at the ledger in the same           *)
(* transaction, and by the cancellation, which has emptied it before.      *)
(***************************************************************************)
EXTENDS DetailBackfillTypes

-----------------------------------------------------------------------------
(* A run that is over stays as it is.                                      *)

Frozen == run.status \in Terminal => run' = run /\ row' = row

(* An absent row is the empty row, so a step that keeps absent rows keeps  *)
(* an empty ledger empty.                                                  *)
RowsKept == \A l \in Listings : /\ row[l] = NoRow => row'[l] = NoRow
                                /\ row'[l].state = "absent" => row'[l] = NoRow

(* A step that creates no row and ends no run keeps TerminalInv.           *)
LEMMA HarmlessStep ==
  ASSUME TerminalInv, RowsKept,
         run'.status \in Terminal => run.status \in Terminal,
         run'.cooling => run'.status = "blocked",
         ctl'.pc = ctl.pc \/ ctl'.pc \notin {"seedCommit", "cancelMark"}
  PROVE  TerminalInv'
<1>1. Ledger = {} => Ledger' = {}
  BY DEF TerminalInv, RowsKept, Ledger, NoRow
<1>2. \A l \in Listings : row'[l].state = "absent" => row'[l] = NoRow
  BY DEF RowsKept
<1> QED BY <1>1, <1>2 DEF TerminalInv, TerminalLedgerEmpty

(* Most steps touch neither the run nor its ledger.                        *)
LEMMA QuietStep ==
  ASSUME TerminalInv, UNCHANGED <<run, row>>,
         ctl'.pc = ctl.pc \/ ctl'.pc \notin {"seedCommit", "cancelMark"}
  PROVE  TerminalInv' /\ Frozen
<1>1. RowsKept BY DEF TerminalInv, RowsKept
<1>2. TerminalInv' BY <1>1, HarmlessStep DEF TerminalInv
<1> QED BY <1>2 DEF Frozen

(* The rows of a run that is over are all empty. *)
LEMMA TerminalRows ==
  ASSUME TypeOK, TerminalInv, run.status \in Terminal
  PROVE  /\ \A l \in Listings : row[l] = NoRow
         /\ Queued = {} /\ Ledger = {} /\ run.cooling = FALSE
<1>1. Ledger = {} BY DEF TerminalInv, TerminalLedgerEmpty
<1>2. \A l \in Listings : row[l].state = "absent" BY <1>1 DEF Ledger
<1>3. \A l \in Listings : row[l] = NoRow BY <1>2 DEF TerminalInv
<1>4. Queued = {} BY <1>2 DEF Queued
<1>5. run.cooling = FALSE BY DEF TerminalInv, Terminal, TypeOK, RunOK, RunType
<1> QED BY <1>1, <1>3, <1>4, <1>5

(* The pump's steps that only move its job along. *)
LEMMA QuietPump ==
  ASSUME TypeOK, TerminalInv,
         \/ TakePump \/ PumpRead \/ PumpLedger \/ PumpCount \/ PumpSelect
         \/ PumpDispatch \/ PumpRequeue \/ PumpDispatchFails \/ ControlFails
  PROVE  TerminalInv' /\ Frozen
<1>1. IdleControl.pc = "idle" BY DEF IdleControl
<1>2. UNCHANGED <<run, row>>
  BY DEF TakePump, PumpRead, PumpLedger, PumpCount, PumpSelect, PumpDispatch, PumpRequeue,
         PumpDispatchFails, ControlFails
<1>3. ctl'.pc \notin {"seedCommit", "cancelMark"}
  <2> USE <1>1 DEF Done, Goto, TypeOK, ControlOK, ControlType
  <2>1. CASE TakePump BY <2>1 DEF TakePump, IdleControl
  <2>2. CASE PumpRead BY <2>2 DEF PumpRead
  <2>3. CASE PumpLedger BY <2>3 DEF PumpLedger
  <2>4. CASE PumpCount BY <2>4 DEF PumpCount
  <2>5. CASE PumpSelect BY <2>5 DEF PumpSelect
  <2>6. CASE PumpDispatch BY <2>6 DEF PumpDispatch
  <2>7. CASE PumpRequeue BY <2>7 DEF PumpRequeue
  <2>8. CASE PumpDispatchFails BY <2>8 DEF PumpDispatchFails
  <2>9. CASE ControlFails BY <2>9 DEF ControlFails, ControlJobFails
  <2> QED BY <2>1, <2>2, <2>3, <2>4, <2>5, <2>6, <2>7, <2>8, <2>9
<1> QED BY <1>2, <1>3, QuietStep

(* A resume empties the ledger, or reopens only a run that is not over. *)
LEMMA ResumeKeeps ==
  ASSUME TypeOK, TerminalInv, Resume
  PROVE  TerminalInv' /\ Frozen
<1> USE DEF Resume
<1>1. RowsKept BY DEF RowsKept, NoRow, TerminalInv
<1>2. run.status \in Terminal => run' = run BY DEF Terminal, Seedable
<1>0. \/ run' = run
      \/ run'.status \in {"queued", "running"} /\ run'.cooling = FALSE
  <2>1. \/ run' = run
        \/ run' = [status |-> "queued", cooling |-> FALSE, target |-> 0, succeeded |-> 0,
                   unavailable |-> 0, failed |-> 0, cancelled |-> 0]
        \/ run' = [run EXCEPT !.status = "running", !.cooling = FALSE]
    OBVIOUS
  <2>2. CASE run' = [run EXCEPT !.status = "running", !.cooling = FALSE]
    BY <2>2 DEF TypeOK, RunOK, RunType
  <2>3. CASE run' = [status |-> "queued", cooling |-> FALSE, target |-> 0, succeeded |-> 0,
                     unavailable |-> 0, failed |-> 0, cancelled |-> 0]
    BY ONLY <2>3
  <2> QED BY ONLY <2>1, <2>2, <2>3
<1>3. run'.status \in Terminal => run.status \in Terminal BY <1>0 DEF Terminal
<1>4. run'.cooling => run'.status = "blocked" BY <1>0 DEF TerminalInv
<1>5. ctl'.pc \notin {"seedCommit", "cancelMark"}
  BY DEF Goto, TypeOK, ControlOK, ControlType
<1>6. TerminalInv' BY <1>1, <1>3, <1>4, <1>5, HarmlessStep
<1>7. run.status \in Terminal => row' = row BY TerminalRows DEF TypeOK, RowsOK
<1> QED BY <1>2, <1>6, <1>7 DEF Frozen

(* The transaction that seeds goes on only for a run that is not over. *)
LEMMA PumpSeedKeeps ==
  ASSUME TypeOK, TerminalInv, PumpSeed
  PROVE  TerminalInv' /\ Frozen
<1> USE DEF PumpSeed
<1>1. CASE run.status \in Seedable
  <2>1. run.status \notin Terminal BY <1>1 DEF Seedable, Terminal
  <2>2. ctl'.pc = "seedCommit" BY <1>1 DEF Goto, TypeOK, ControlOK, ControlType
  <2> QED BY <2>1, <2>2 DEF TerminalInv, TerminalLedgerEmpty, Frozen, Ledger
<1>2. CASE run.status \notin Seedable
  <2>1. ctl'.pc = "requeue" BY <1>2 DEF Goto, TypeOK, ControlOK, ControlType
  <2> QED BY <2>1, QuietStep
<1> QED BY <1>1, <1>2

(* Seeding creates rows, and the run it creates them for is not over. *)
LEMMA PumpSeedCommitKeeps ==
  ASSUME TypeOK, TerminalInv, PumpSeedCommit
  PROVE  TerminalInv' /\ Frozen
<1> USE DEF PumpSeedCommit
<1>1. run.status \notin Terminal BY DEF TerminalInv
<1>2. PICK S \in SeedSets :
        /\ row' = SeededRows(S)
        /\ run' = IF run.status \in Seedable THEN SeededRun(S) ELSE run
  OBVIOUS
<1>3. run'.status \notin Terminal BY <1>1, <1>2 DEF SeededRun, Terminal
<1>4. run'.cooling => run'.status = "blocked" BY <1>2 DEF SeededRun, TerminalInv
<1>5. \A l \in Listings : row'[l].state = "absent" => row'[l] = NoRow
  BY <1>2 DEF SeededRows, NewRow, NoRow
<1>6. ctl'.pc = "requeue" BY DEF Goto, TypeOK, ControlOK, ControlType
<1> QED BY <1>1, <1>3, <1>4, <1>5, <1>6 DEF TerminalInv, TerminalLedgerEmpty, Frozen

(* The steps of the pump that change the run or existing rows. *)
LEMMA PumpUnblockKeeps ==
  ASSUME TypeOK, TerminalInv, PumpUnblock
  PROVE  TerminalInv' /\ Frozen
<1> USE DEF PumpUnblock
<1>1. run' = run \/ (run.status = "blocked" /\ run'.status = "running" /\ run'.cooling = FALSE)
  BY DEF TypeOK, RunOK, RunType
<1>2. ctl'.pc = "recover" BY DEF TypeOK, ControlOK, ControlType
<1>3. RowsKept BY DEF RowsKept, TerminalInv
<1>4. TerminalInv' BY <1>1, <1>2, <1>3, HarmlessStep DEF TerminalInv, Terminal
<1> QED BY <1>1, <1>4 DEF Frozen, Terminal

(* Recovery moves dispatched rows only. *)
LEMMA PumpRecoverKeeps ==
  ASSUME TypeOK, TerminalInv, PumpRecover
  PROVE  TerminalInv' /\ Frozen
<1> USE DEF PumpRecover
<1>1. ctl'.pc = "prune" BY DEF Goto, TypeOK, ControlOK, ControlType
<1>2. \A l \in Listings : l \notin Queued => row'[l] = row[l] OBVIOUS
<1>3. \A l \in Queued : row[l].state = "queued" /\ row'[l].state \in {"pending", "queued"}
  BY DEF Queued, TypeOK, RowsOK, RowType
<1>4. RowsKept
  <2>1. NoRow.state = "absent" BY DEF NoRow
  <2>2. \A l \in Listings : row[l] = NoRow => l \notin Queued BY <2>1, <1>3
  <2>3. \A l \in Listings : row'[l].state = "absent" => l \notin Queued BY <1>3
  <2> QED BY <1>2, <2>2, <2>3 DEF RowsKept, TerminalInv
<1>5. TerminalInv' BY <1>1, <1>4, HarmlessStep DEF TerminalInv
<1>6. run.status \in Terminal => row' = row BY <1>2, TerminalRows DEF TypeOK, RowsOK
<1> QED BY <1>5, <1>6 DEF Frozen

(* Pruning deletes rows and counts none for a run that is over. *)
LEMMA PumpPruneKeeps ==
  ASSUME TypeOK, TerminalInv, PumpPrune
  PROVE  TerminalInv' /\ Frozen
<1> USE DEF PumpPrune
<1>1. ctl'.pc = "count" BY DEF Goto, TypeOK, ControlOK, ControlType
<1>2. RowsKept BY DEF RowsKept, TerminalInv
<1>3. run'.status = run.status /\ run'.cooling = run.cooling BY DEF TypeOK, RunOK, RunType
<1>4. TerminalInv' BY <1>1, <1>2, <1>3, HarmlessStep DEF TerminalInv
<1>5. ASSUME run.status \in Terminal PROVE run' = run /\ row' = row
  <2>1. Cardinality(Ledger \ sighted) = 0 BY <1>5, TerminalRows, FS_EmptySet
  <2>2. run' = run BY <2>1 DEF TypeOK, RunOK, RunType
  <2>3. row' = row BY <1>5, TerminalRows DEF TypeOK, RowsOK
  <2> QED BY <2>2, <2>3
<1> QED BY <1>4, <1>5 DEF Frozen

(* A claim looks at the status of the run. *)
LEMMA PumpClaimKeeps ==
  ASSUME TypeOK, TerminalInv, NEW l \in Listings, PumpClaim(l)
  PROVE  TerminalInv' /\ Frozen
<1> USE DEF PumpClaim
<1>1. ctl'.pc \in {"dispatch", "claim", "idle"}
  <2>1. IdleControl.pc = "idle" BY DEF IdleControl
  <2>2. \/ ctl' = [ctl EXCEPT !.pc = "dispatch", !.cur = l, !.todo = @ \ {l}]
        \/ ctl' = IdleControl
        \/ ctl' = [ctl EXCEPT !.todo = @ \ {l}]
    OBVIOUS
  <2> QED BY <2>1, <2>2 DEF TypeOK, ControlOK, ControlType
<1>2. RowsKept
  <2>1. NoRow.state = "absent" BY DEF NoRow
  <2>2. CASE row[l].state = "pending" /\ run.status = "running"
    <3>1. row' = [row EXCEPT ![l].state = "queued", ![l].old = FALSE] BY <2>2
    <3>2. row'[l].state = "queued" /\ \A k \in Listings \ {l} : row'[k] = row[k]
      BY <3>1 DEF TypeOK, RowsOK, RowType
    <3> QED BY <2>1, <2>2, <3>2 DEF RowsKept, TerminalInv
  <2>3. CASE ~(row[l].state = "pending" /\ run.status = "running")
    BY <2>3 DEF RowsKept, TerminalInv
  <2> QED BY <2>2, <2>3
<1>3. TerminalInv' BY <1>1, <1>2, HarmlessStep DEF TerminalInv
<1>4. run.status \in Terminal => row' = row BY DEF Terminal
<1> QED BY <1>3, <1>4 DEF Frozen


(* Releasing a target moves an existing row only. *)
LEMMA ReleasedKeeps ==
  ASSUME TypeOK, TerminalInv, NEW l \in Listings, row' = Released(l)
  PROVE  RowsKept /\ (run.status \in Terminal => row' = row)
<1>1. NoRow.state = "absent" BY DEF NoRow
<1>2. CASE row[l].state = "absent"
  BY <1>2 DEF Released, RowsKept, TerminalInv
<1>3. CASE row[l].state # "absent"
  <2>1. row' = [row EXCEPT ![l].state = "pending", ![l].old = FALSE] BY <1>3 DEF Released
  <2>2. row'[l].state = "pending" /\ \A k \in Listings \ {l} : row'[k] = row[k]
    BY <2>1 DEF TypeOK, RowsOK, RowType
  <2>3. row[l] # NoRow BY <1>1, <1>3
  <2>4. RowsKept BY <2>2, <2>3 DEF RowsKept, TerminalInv
  <2>5. run.status \notin Terminal BY <2>3, TerminalRows
  <2> QED BY <2>4, <2>5
<1> QED BY <1>2, <1>3

(* A failed dispatch releases its target. *)
LEMMA PumpUndoKeeps ==
  ASSUME TypeOK, TerminalInv, PumpUndo
  PROVE  TerminalInv' /\ Frozen
<1> USE DEF PumpUndo
<1>1. ctl.cur \in Listings BY DEF TypeOK, ControlOK
<1>2. RowsKept /\ (run.status \in Terminal => row' = row) BY <1>1, ReleasedKeeps
<1>3. ctl'.pc = "idle" BY DEF ControlJobFails, Done, IdleControl
<1>4. TerminalInv' BY <1>2, <1>3, HarmlessStep DEF TerminalInv
<1> QED BY <1>2, <1>4 DEF Frozen

(* The pump ends a run only when its ledger is empty. *)
LEMMA PumpFinalizeKeeps ==
  ASSUME TypeOK, TerminalInv, PumpFinalize
  PROVE  TerminalInv' /\ Frozen
<1> USE DEF PumpFinalize
<1>1. ctl'.pc = "idle" BY DEF Done, IdleControl
<1>2. \/ run' = run
      \/ /\ run.status \notin Terminal /\ Ledger = {}
         /\ run'.cooling = FALSE
  <2>1. CASE run.status \in {"planned", "running", "blocked"} /\ Ledger = {}
    <3>1. run' = [run EXCEPT !.status = IF run.failed = 0 THEN "completed" ELSE "partial",
                             !.cooling = FALSE] BY <2>1
    <3> QED BY <2>1, <3>1 DEF Terminal, TypeOK, RunOK, RunType
  <2>2. CASE ~(run.status \in {"planned", "running", "blocked"} /\ Ledger = {}) BY <2>2
  <2> QED BY <2>1, <2>2
<1>3. Ledger' = Ledger BY DEF Ledger
<1>4. TerminalInv' BY <1>1, <1>2, <1>3 DEF TerminalInv, TerminalLedgerEmpty
<1> QED BY <1>2, <1>4 DEF Frozen

(* A cancellation on its way to the ledger. *)
LEMMA QuietCancel ==
  ASSUME TypeOK, TerminalInv, TakeCancel \/ CancelJobs
  PROVE  TerminalInv' /\ Frozen
<1>1. UNCHANGED <<run, row>> BY DEF TakeCancel, CancelJobs
<1>2. ctl'.pc \in {"idle", "cancelJobs", "cancelLedger"}
  <2>0. IdleControl.pc = "idle" BY DEF IdleControl
  <2>1. CASE TakeCancel BY <2>1 DEF TakeCancel, IdleControl
  <2>2. CASE CancelJobs
    <3>1. Done \/ Goto("cancelLedger") BY <2>2 DEF CancelJobs
    <3> QED BY <2>0, <3>1 DEF Done, Goto, TypeOK, ControlOK, ControlType
  <2> QED BY <2>1, <2>2
<1> QED BY <1>1, <1>2, QuietStep

(* The cancellation empties the ledger before it marks the run. *)
LEMMA CancelLedgerKeeps ==
  ASSUME TypeOK, TerminalInv, CancelLedger
  PROVE  TerminalInv' /\ Frozen
<1> USE DEF CancelLedger
<1>1. ctl'.pc = "cancelMark" BY DEF TypeOK, ControlOK, ControlType
<1>2. Ledger' = {} BY DEF Ledger, NoRow
<1>3. \A l \in Listings : row'[l] = NoRow OBVIOUS
<1>4. TerminalInv' BY <1>1, <1>2, <1>3 DEF TerminalInv, TerminalLedgerEmpty
<1>5. run.status \in Terminal => row' = row BY TerminalRows DEF TypeOK, RowsOK
<1> QED BY <1>4, <1>5 DEF Frozen

(* Nothing was seeded between the two. *)
LEMMA CancelMarkKeeps ==
  ASSUME TypeOK, TerminalInv, CancelMark
  PROVE  TerminalInv' /\ Frozen
<1> USE DEF CancelMark
<1>1. ctl'.pc = "idle" BY DEF Done, IdleControl
<1>2. run' = run \/ (run.status = "cancelling" /\ run'.cooling = FALSE)
  BY DEF TypeOK, RunOK, RunType
<1>3. Ledger = {} /\ Ledger' = Ledger BY DEF TerminalInv, Ledger
<1>4. TerminalInv' BY <1>1, <1>2, <1>3 DEF TerminalInv, TerminalLedgerEmpty
<1> QED BY <1>2, <1>4 DEF Frozen, Terminal

(* The detail job's steps that leave the run and its ledger alone. *)
LEMMA QuietDetail ==
  ASSUME TypeOK, TerminalInv, NEW w \in Workers,
         \/ DetailContext(w) \/ RemoveManagedJobs(w) \/ DetailQueuePump(w)
         \/ DetailComplete(w) \/ DetailFails(w) \/ DetailDies(w)
         \/ RecoverDeadLock \/ RecoverSlowLock
         \/ \E l \in Listings : TakeDetail(w, l)
         \/ \E r \in {"succeeded", "unavailable", "failed", "error", "blocked",
                      "crawler_off"} : DetailFetch(w, r)
  PROVE  TerminalInv' /\ Frozen
<1>1. UNCHANGED <<run, row>> /\ ctl' = ctl
  BY DEF DetailContext, RemoveManagedJobs, DetailQueuePump, DetailComplete, DetailFails,
         DetailDies, RecoverDeadLock, RecoverSlowLock, TakeDetail, DetailFetch, runVars,
         otherVars
<1> QED BY <1>1, QuietStep

(* A late job of a run that is no longer running only releases its target. *)
LEMMA DetailReleaseKeeps ==
  ASSUME TypeOK, TerminalInv, NEW w \in Workers, DetailRelease(w)
  PROVE  TerminalInv' /\ Frozen
<1> USE DEF DetailRelease
<1>1. worker[w].listing \in Listings BY DEF TypeOK, WorkersOK
<1>2. RowsKept /\ (run.status \in Terminal => row' = row) BY <1>1, ReleasedKeeps
<1>3. ctl' = ctl /\ run' = run BY DEF otherVars
<1>4. TerminalInv' BY <1>2, <1>3, HarmlessStep DEF TerminalInv
<1> QED BY <1>2, <1>3, <1>4 DEF Frozen

(* An outcome counts only while its row is in the ledger. *)
LEMMA FinishTargetKeeps ==
  ASSUME TypeOK, TerminalInv, NEW w \in Workers, FinishTarget(w)
  PROVE  TerminalInv' /\ Frozen
<1> USE DEF FinishTarget
<1>1. worker[w].listing \in Listings BY DEF TypeOK, WorkersOK
<1>2. ctl' = ctl BY DEF otherVars
<1> DEFINE l == worker[w].listing
<1>3. CASE row[l].state = "absent"
  <2>1. UNCHANGED <<run, row>> BY <1>3 DEF runVars
  <2> QED BY <1>2, <2>1, QuietStep
<1>4. CASE row[l].state # "absent"
  <2>1. row' = [row EXCEPT ![l] = NoRow] BY <1>4
  <2>2. RowsKept BY <1>1, <2>1 DEF RowsKept, TerminalInv, TypeOK, RowsOK
  <2>3. run'.status = run.status /\ run'.cooling = run.cooling
    BY <1>4 DEF TypeOK, RunOK, RunType
  <2>4. run.status \notin Terminal
    <3>1. row[l] # NoRow BY <1>4 DEF NoRow
    <3> QED BY <1>1, <3>1, TerminalRows
  <2>5. TerminalInv' BY <1>2, <2>2, <2>3, HarmlessStep DEF TerminalInv
  <2> QED BY <2>4, <2>5 DEF Frozen
<1> QED BY <1>3, <1>4

(* So does a failed attempt, which counts or waits. *)
LEMMA RetryOrFailTargetKeeps ==
  ASSUME TypeOK, TerminalInv, NEW w \in Workers, RetryOrFailTarget(w)
  PROVE  TerminalInv' /\ Frozen
<1> USE DEF RetryOrFailTarget
<1>1. worker[w].listing \in Listings BY DEF TypeOK, WorkersOK
<1>2. ctl' = ctl BY DEF otherVars
<1> DEFINE l == worker[w].listing
<1>3. CASE row[l].state = "absent"
  <2>1. UNCHANGED <<run, row>> BY <1>3 DEF runVars
  <2> QED BY <1>2, <2>1, QuietStep
<1>4. CASE row[l].state # "absent"
  <2>1. \/ row' = [row EXCEPT ![l] = NoRow] /\ run' = [run EXCEPT !.failed = @ + 1]
        \/ /\ row' = [row EXCEPT ![l] = [state |-> "pending", tries |-> @.tries + 1,
                                         next |-> "future", old |-> FALSE]]
           /\ run' = run
    BY <1>4
  <2>2. /\ \A k \in Listings \ {l} : row'[k] = row[k]
        /\ row'[l] = NoRow \/ row'[l].state = "pending"
    BY <1>1, <2>1 DEF TypeOK, RowsOK
  <2>3. row[l] # NoRow BY <1>4 DEF NoRow
  <2>4. RowsKept BY <2>2, <2>3 DEF RowsKept, TerminalInv
  <2>5. run'.status = run.status /\ run'.cooling = run.cooling
    BY <2>1 DEF TypeOK, RunOK, RunType
  <2>6. run.status \notin Terminal BY <1>1, <2>3, TerminalRows
  <2>7. TerminalInv' BY <1>2, <2>4, <2>5, HarmlessStep DEF TerminalInv
  <2> QED BY <2>6, <2>7 DEF Frozen
<1> QED BY <1>3, <1>4

(* The breaker and the pause of a detail job leave a finished run alone. *)
LEMMA BlockBackfillKeeps ==
  ASSUME TypeOK, TerminalInv, NEW w \in Workers, BlockBackfill(w)
  PROVE  TerminalInv' /\ Frozen
<1> USE DEF BlockBackfill
<1>1. ctl' = ctl BY DEF otherVars
<1>2. \/ run' = run
      \/ run.status \notin Terminal /\ run'.status = "blocked"
  BY DEF TypeOK, RunOK, RunType
<1>3. \A l \in Listings : l \notin Queued => row'[l] = row[l] OBVIOUS
<1>4. \A l \in Queued : row[l].state = "queued" /\ row'[l].state = "pending"
  BY DEF Queued, TypeOK, RowsOK, RowType
<1>5. RowsKept
  <2>1. NoRow.state = "absent" BY DEF NoRow
  <2>2. \A l \in Listings : row[l] = NoRow => l \notin Queued BY <2>1, <1>4
  <2>3. \A l \in Listings : row'[l].state = "absent" => l \notin Queued BY <1>4
  <2> QED BY <1>3, <2>2, <2>3 DEF RowsKept, TerminalInv
<1>6. TerminalInv' BY <1>1, <1>2, <1>5, HarmlessStep DEF TerminalInv, Terminal
<1>7. run.status \in Terminal => row' = row BY <1>3, TerminalRows DEF TypeOK, RowsOK
<1> QED BY <1>2, <1>6, <1>7 DEF Frozen

(* The pause releases its target only. *)
LEMMA PauseBackfillKeeps ==
  ASSUME TypeOK, TerminalInv, NEW w \in Workers, PauseBackfill(w)
  PROVE  TerminalInv' /\ Frozen
<1> USE DEF PauseBackfill
<1>1. worker[w].listing \in Listings BY DEF TypeOK, WorkersOK
<1>2. RowsKept /\ (run.status \in Terminal => row' = row) BY <1>1, ReleasedKeeps
<1>3. ctl' = ctl BY DEF otherVars
<1>4. \/ run' = run
      \/ /\ run.status \notin Terminal
         /\ run'.status = "paused" /\ run'.cooling = FALSE
  BY DEF TypeOK, RunOK, RunType
<1>5. TerminalInv' BY <1>2, <1>3, <1>4, HarmlessStep DEF TerminalInv, Terminal
<1> QED BY <1>2, <1>4, <1>5 DEF Frozen

(* Maintenance, and the commands and changes that leave the ledger alone. *)
LEMMA OperatorKeeps ==
  ASSUME TypeOK, TerminalInv, Maintenance \/ Operator
  PROVE  TerminalInv' /\ Frozen
<1>1. CASE Maintenance \/ OperatorResume \/ SwitchCrawler \/ \E l \in Listings : QueryDisabled(l)
  <2>1. UNCHANGED <<run, row>> /\ ctl' = ctl
    BY <1>1 DEF Maintenance, MaintainRead, MaintainQueue, OperatorResume, Command,
                SwitchCrawler, QueryDisabled, runVars, otherVars, ctlVars
  <2> QED BY <2>1, QuietStep
<1>2. CASE OperatorPause \/ OperatorCancel
  <2>1. row' = row /\ ctl' = ctl /\ run.status \notin Terminal
    BY <1>2 DEF OperatorPause, OperatorCancel, Command
  <2>2. run' = run \/ (run'.status \in {"paused", "cancelling"} /\ run'.cooling = FALSE)
    BY <1>2 DEF OperatorPause, OperatorCancel, TypeOK, RunOK, RunType
  <2>3. RowsKept BY <2>1 DEF RowsKept, TerminalInv
  <2>4. TerminalInv' BY <2>1, <2>2, <2>3, HarmlessStep DEF TerminalInv, Terminal
  <2> QED BY <2>1, <2>4 DEF Frozen
<1> QED BY <1>1, <1>2 DEF Operator

(* The passing of time. *)
LEMMA TimeKeeps ==
  ASSUME TypeOK, TerminalInv, Time
  PROVE  TerminalInv' /\ Frozen
<1>1. CASE CooldownEnds
  <2>1. row' = row /\ ctl' = ctl /\ run.status \notin Terminal
    BY <1>1 DEF CooldownEnds, otherVars, TerminalInv, Terminal
  <2>2. run'.status = run.status /\ run'.cooling = FALSE
    BY <1>1 DEF CooldownEnds, TypeOK, RunOK, RunType
  <2>3. RowsKept BY <2>1 DEF RowsKept, TerminalInv
  <2>4. TerminalInv' BY <2>1, <2>2, <2>3, HarmlessStep
  <2> QED BY <2>1, <2>4 DEF Frozen
<1>2. ASSUME NEW l \in Listings, RetryDue(l) \/ DispatchAges(l) PROVE TerminalInv' /\ Frozen
  <2>1. run' = run /\ ctl' = ctl BY <1>2 DEF RetryDue, DispatchAges, otherVars
  <2>2. row[l] # NoRow BY <1>2 DEF RetryDue, DispatchAges, Queued, NoRow
  <2>3. \/ row' = [row EXCEPT ![l].next = "past"]
        \/ row' = [row EXCEPT ![l].old = TRUE]
    BY <1>2 DEF RetryDue, DispatchAges
  <2>4. row'[l].state = row[l].state /\ \A k \in Listings \ {l} : row'[k] = row[k]
    BY <2>3 DEF TypeOK, RowsOK, RowType
  <2>5. RowsKept BY <2>2, <2>4 DEF RowsKept, TerminalInv
  <2>6. run.status \notin Terminal BY <2>2, TerminalRows
  <2>7. TerminalInv' BY <2>1, <2>5, HarmlessStep DEF TerminalInv
  <2> QED BY <2>6, <2>7 DEF Frozen
<1> QED BY <1>1, <1>2 DEF Time

(* A run starts unfinished. *)
LEMMA InitTerminal == Init => TerminalInv
<1> SUFFICES ASSUME Init PROVE TerminalInv OBVIOUS
<1>1. CASE CreatedRun
  <2>1. PICK S \in SeedSets : run = SeededRun(S) /\ row = SeededRows(S)
    BY <1>1 DEF CreatedRun
  <2>2. run.status \notin Terminal /\ run.cooling = FALSE BY <2>1 DEF SeededRun, Terminal
  <2>3. \A l \in Listings : row[l].state = "absent" => row[l] = NoRow
    BY <2>1 DEF SeededRows, NewRow, NoRow
  <2>4. ctl.pc = "read" BY <1>1 DEF CreatedRun, IdleControl
  <2> QED BY <2>2, <2>3, <2>4 DEF TerminalInv, TerminalLedgerEmpty
<1>2. CASE LegacyRun
  <2>1. run.status \notin Terminal /\ run.cooling = FALSE BY <1>2 DEF LegacyRun, Terminal
  <2>2. \A l \in Listings : row[l] = NoRow BY <1>2 DEF LegacyRun
  <2>3. ctl.pc = "idle" BY <1>2 DEF LegacyRun, IdleControl
  <2> QED BY <2>1, <2>2, <2>3 DEF TerminalInv, TerminalLedgerEmpty
<1> QED BY <1>1, <1>2 DEF Init

(* Every step keeps the invariant and freezes a run that is over. *)
LEMMA NextTerminal == TypeOK /\ TerminalInv /\ [Next]_vars => TerminalInv' /\ Frozen
<1> SUFFICES ASSUME TypeOK, TerminalInv, [Next]_vars PROVE TerminalInv' /\ Frozen OBVIOUS
<1>1. CASE Pump
  BY <1>1, QuietPump, ResumeKeeps, PumpSeedKeeps, PumpSeedCommitKeeps, PumpUnblockKeeps,
     PumpRecoverKeeps, PumpPruneKeeps, PumpClaimKeeps, PumpUndoKeeps, PumpFinalizeKeeps
  DEF Pump
<1>2. CASE Cancellation
  BY <1>2, QuietCancel, CancelLedgerKeeps, CancelMarkKeeps DEF Cancellation
<1>3. CASE Detail
  <2>1. ASSUME NEW w \in Workers, DetailStep(w) \/ \E l \in Listings : TakeDetail(w, l)
        PROVE  TerminalInv' /\ Frozen
    BY <2>1, QuietDetail, DetailReleaseKeeps, FinishTargetKeeps, RetryOrFailTargetKeeps,
       BlockBackfillKeeps, PauseBackfillKeeps
    DEF DetailStep
  <2> QED BY <1>3, <2>1 DEF Detail
<1>4. CASE RecoverDeadLock \/ RecoverSlowLock
  <2>1. UNCHANGED <<run, row>> /\ ctl' = ctl
    BY <1>4 DEF RecoverDeadLock, RecoverSlowLock, runVars, otherVars
  <2> QED BY <2>1, QuietStep
<1>5. CASE Maintenance \/ Operator BY <1>5, OperatorKeeps
<1>6. CASE Time BY <1>6, TimeKeeps
<1>7. CASE Faults BY <1>7, <1>4, QuietPump, QuietDetail DEF Faults
<1>8. CASE UNCHANGED vars
  <2>1. UNCHANGED <<run, row>> /\ ctl' = ctl BY <1>8 DEF vars
  <2> QED BY <2>1, QuietStep
<1> QED BY <1>1, <1>2, <1>3, <1>4, <1>5, <1>6, <1>7, <1>8 DEF Next

(* A run that is over has an empty ledger: no target of it can still be    *)
(* dispatched, finished or counted.  Shown together with TerminalInv.      *)
THEOREM TerminalCorrect == Spec => [](TerminalInv /\ TerminalLedgerEmpty)
<1>1. Init => TypeOK /\ TerminalInv BY InitType, InitTerminal
<1>2. TypeOK /\ TerminalInv /\ [Next]_vars => (TypeOK /\ TerminalInv)'
  BY NextType, NextTerminal
<1>3. TerminalInv => TerminalInv /\ TerminalLedgerEmpty BY DEF TerminalInv
<1> QED BY <1>1, <1>2, <1>3, PTL DEF Spec

(* A run that is over is never touched again: no pump, late detail job,    *)
(* maintenance pass or operator command changes its status, counters or    *)
(* ledger.                                                                 *)
THEOREM TerminalIsFinal == Spec => TerminalFrozen
<1>1. TypeOK /\ TerminalInv /\ [Next]_vars
        => [run.status \in Terminal => UNCHANGED <<run, row>>]_vars
  BY NextTerminal DEF Frozen
<1> QED BY <1>1, TypeCorrect, TerminalCorrect, PTL DEF Spec, TerminalFrozen
=============================================================================
