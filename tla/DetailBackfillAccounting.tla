----------------------- MODULE DetailBackfillAccounting -----------------------
(***************************************************************************)
(* No target of a created run is lost or counted twice, whatever slow,     *)
(* duplicated or late executions do; a run that ends completed has fetched *)
(* what it counts as succeeded; the run keeps to its ledger (the abstract  *)
(* BackfillLedger); and no more targets are dispatched than one batch.     *)
(*                                                                         *)
(* BalanceInv counts a target that the cancellation has taken out of the   *)
(* ledger until the run is marked.  It holds because of RouteInv: after    *)
(* its creation a run is seeded again only by a rebuild, and that is asked *)
(* for only when targets are missing, which the balance rules out until    *)
(* the run is cancelled.  BatchInv adds to the dispatched targets what the *)
(* pump has counted room for and not claimed yet.                          *)
(***************************************************************************)
EXTENDS DetailBackfillProofs

-----------------------------------------------------------------------------
(* What most steps have in common.                                         *)

CountersKept ==
  /\ run'.target = run.target /\ run'.succeeded = run.succeeded
  /\ run'.unavailable = run.unavailable /\ run'.failed = run.failed
  /\ run'.cancelled = run.cancelled

(* The cancellation of a run is not taken back.                            *)
StatusKept == /\ run'.status \notin {"planned", "queued"}
              /\ BeingCancelled => BeingCancelled'

(* The control queue goes on with what it was asked for.                   *)
Routed ==
  /\ maint' = maint
  /\ ctl'.pc \notin {"seed", "seedCommit"} /\ ctl'.seen # "queued"
  /\ ctl'.pc \in {"cancelJobs", "cancelLedger", "cancelMark"} => ctl'.task = "cancel"
  /\ cancelJob' => cancelJob \/ ctl.task = "cancel"
  /\ pumpJob' = "rebuild" => pumpJob = "rebuild" \/ ctl.task = "rebuild"
  /\ ctl'.task = "cancel" => ctl.task = "cancel" \/ cancelJob
  /\ ctl'.task = "rebuild" => ctl.task = "rebuild" \/ pumpJob = "rebuild"

(* Such a step keeps to the route. *)
LEMMA RouteStep ==
  ASSUME RouteInv, StatusKept, Routed
  PROVE  RouteInv'
BY DEF RouteInv, StatusKept, Routed

(* The sizes that the balance adds up. *)
LEMMA Sizes ==
  ASSUME TypeOK
  PROVE  /\ Cardinality(Ledger) \in Nat /\ Settled \in Nat /\ Moving \in Nat
         /\ run.target \in Nat /\ IsFiniteSet(Ledger)
<1>1. Ledger \in SUBSET Listings BY DEF Ledger
<1>2. Cardinality(Ledger) \in Nat /\ IsFiniteSet(Ledger) BY <1>1, SubsetSize
<1>3. Settled \in Nat /\ run.target \in Nat BY DEF TypeOK, RunOK, RunType, Settled
<1>4. Moving \in Nat BY DEF TypeOK, ControlOK, ControlType, Moving
<1> QED BY <1>2, <1>3, <1>4

(* A step that counts nothing and keeps the ledger keeps the balance. *)
LEMMA SameBalance ==
  ASSUME TypeOK, BalanceInv, CountersKept, StatusKept, Ledger' = Ledger,
         ctl'.pc = "cancelMark" => ctl' = ctl
  PROVE  BalanceInv'
<1>1. Settled' = Settled BY DEF CountersKept, Settled
<1>2. Moving' <= Moving
  <2>1. CASE ctl'.pc = "cancelMark" BY <2>1, Sizes DEF Moving
  <2>2. CASE ctl'.pc # "cancelMark" BY <2>2, Sizes DEF Moving
  <2> QED BY <2>1, <2>2
<1>3. Moving' \in Nat
  <2>1. CASE ctl'.pc = "cancelMark" BY <2>1, Sizes DEF Moving
  <2>2. CASE ctl'.pc # "cancelMark" BY <2>2 DEF Moving
  <2> QED BY <2>1, <2>2
<1>4. Settled' + Cardinality(Ledger') + Moving' <= run'.target
  BY <1>1, <1>2, <1>3, Sizes DEF BalanceInv, CountersKept
<1>5. ~BeingCancelled' => Settled' + Cardinality(Ledger') = run'.target
  BY <1>1 DEF BalanceInv, CountersKept, StatusKept
<1> QED BY <1>4, <1>5 DEF BalanceInv

(* A row that is still in the ledger, or still out of it. *)
LEMMA SameLedger ==
  ASSUME \A l \in Listings : row'[l].state = "absent" <=> row[l].state = "absent"
  PROVE  Ledger' = Ledger
BY DEF Ledger

(* Both parts, for a step that leaves the run and its ledger alone. *)
LEMMA Quiet ==
  ASSUME TypeOK, RouteInv, BalanceInv, UNCHANGED <<run, row>>, Routed,
         ctl'.pc = "cancelMark" => ctl' = ctl
  PROVE  RouteInv' /\ BalanceInv'
<1>1. StatusKept /\ CountersKept
  BY DEF StatusKept, CountersKept, RouteInv, BeingCancelled
<1>2. Ledger' = Ledger BY DEF Ledger
<1> QED BY <1>1, <1>2, RouteStep, SameBalance

(* A target that leaves the ledger is counted by one. *)
LEMMA CountedOnce ==
  ASSUME TypeOK, TypeOK', BalanceInv, StatusKept, NEW l \in Listings, row[l].state # "absent",
         row' = [row EXCEPT ![l] = NoRow], ctl' = ctl,
         run'.target = run.target, Settled' = Settled + 1
  PROVE  BalanceInv'
<1>1. Ledger' = Ledger \ {l} BY DEF Ledger, NoRow, TypeOK, RowsOK
<1>2. Cardinality(Ledger') = Cardinality(Ledger) - 1
  <2>1. l \in Ledger BY DEF Ledger
  <2>2. IsFiniteSet(Ledger) BY Sizes
  <2>3. Cardinality(Ledger \ {l}) = Cardinality(Ledger) - 1 BY ONLY <2>1, <2>2, FS_RemoveElement
  <2> QED BY <1>1, <2>3
<1>3. Moving' = Moving BY DEF Moving
<1>4. Settled' + Cardinality(Ledger') = Settled + Cardinality(Ledger) BY <1>2, Sizes
<1> QED BY <1>3, <1>4 DEF BalanceInv, StatusKept

-----------------------------------------------------------------------------
(* The control queue.                                                      *)

(* The fields of an idle control queue. *)
LEMMA IdleRoute ==
  /\ IdleControl.pc = "idle" /\ IdleControl.task = "none" /\ IdleControl.seen = "none"
BY DEF IdleControl

(* The pump's steps that only move its job along. *)
LEMMA QuietPumpBalance ==
  ASSUME TypeOK, RouteInv, BalanceInv,
         \/ TakePump \/ PumpRead \/ PumpLedger \/ PumpSeed \/ PumpCount \/ PumpSelect
         \/ PumpDispatch \/ PumpRequeue \/ PumpDispatchFails \/ ControlFails
  PROVE  RouteInv' /\ BalanceInv'
<1>1. UNCHANGED <<run, row, maint>>
  BY DEF TakePump, PumpRead, PumpLedger, PumpSeed, PumpCount, PumpSelect, PumpDispatch,
         PumpRequeue, PumpDispatchFails, ControlFails, envVars
<1>2. Routed /\ ctl'.pc # "cancelMark"
  <2> USE IdleRoute, <1>1 DEF Done, Goto, Routed, RouteInv, TypeOK, ControlOK, ControlType,
          ControlJobsOK
  <2>1. CASE TakePump BY <2>1 DEF TakePump, IdleControl
  <2>2. CASE PumpRead BY <2>2 DEF PumpRead
  <2>3. CASE PumpLedger BY <2>3 DEF PumpLedger
  <2>4. CASE PumpSeed BY <2>4 DEF PumpSeed
  <2>5. CASE PumpCount BY <2>5 DEF PumpCount
  <2>6. CASE PumpSelect BY <2>6 DEF PumpSelect
  <2>7. CASE PumpDispatch BY <2>7 DEF PumpDispatch
  <2>8. CASE PumpRequeue BY <2>8 DEF PumpRequeue
  <2>9. CASE PumpDispatchFails BY <2>9 DEF PumpDispatchFails
  <2>10. CASE ControlFails BY <2>10 DEF ControlFails, ControlJobFails
  <2> QED BY <2>1, <2>2, <2>3, <2>4, <2>5, <2>6, <2>7, <2>8, <2>9, <2>10
<1> QED BY <1>1, <1>2, Quiet

(* A resume that rebuilds a run finds it being cancelled and only empties  *)
(* its ledger; any other changes its status.                               *)
LEMMA ResumeBalance ==
  ASSUME TypeOK, RouteInv, BalanceInv, Resume
  PROVE  RouteInv' /\ BalanceInv'
<1>1. Routed /\ ctl'.pc # "cancelMark"
  BY DEF Resume, Goto, Routed, RouteInv, TypeOK, ControlOK, ControlType, envVars
<1>2. CASE ctl.task = "rebuild"
  <2>1. BeingCancelled BY <1>2 DEF RouteInv
  <2>2. run' = run BY <1>2, <2>1 DEF Resume, Seedable, BeingCancelled
  <2>3. Ledger' = {} BY <1>2 DEF Resume, Ledger, NoRow
  <2>4. Cardinality(Ledger') = 0 BY <2>3, FS_EmptySet
  <2>5. StatusKept BY <2>2 DEF StatusKept, RouteInv, BeingCancelled
  <2>6. Moving' = 0 BY <1>1 DEF Moving
  <2>7. Settled' = Settled BY <2>2 DEF Settled
  <2>8. Settled' + Cardinality(Ledger') + Moving' <= run'.target
    BY <2>2, <2>4, <2>6, <2>7, Sizes DEF BalanceInv
  <2>9. BalanceInv' BY <2>1, <2>5, <2>8 DEF BalanceInv, StatusKept
  <2> QED BY <1>1, <2>5, <2>9, RouteStep
<1>3. CASE ctl.task # "rebuild"
  <2>1. row' = row /\ (run' = run \/ /\ run.status \in Seedable
                                     /\ run' = [run EXCEPT !.status = "running", !.cooling = FALSE])
    BY <1>3 DEF Resume
  <2>2. CountersKept /\ StatusKept
    BY <2>1 DEF CountersKept, StatusKept, BeingCancelled, Seedable, RouteInv, TypeOK, RunOK, RunType
  <2>3. Ledger' = Ledger BY <2>1 DEF Ledger
  <2> QED BY <1>1, <2>2, <2>3, RouteStep, SameBalance
<1> QED BY <1>2, <1>3

(* The steps of the pump that change the status or move rows. *)
LEMMA PumpUnblockBalance ==
  ASSUME TypeOK, RouteInv, BalanceInv, PumpUnblock
  PROVE  RouteInv' /\ BalanceInv'
<1> USE DEF PumpUnblock
<1>1. Routed /\ ctl'.pc # "cancelMark"
  BY DEF Routed, RouteInv, TypeOK, ControlOK, ControlType, envVars
<1>2. CountersKept /\ StatusKept
  BY DEF CountersKept, StatusKept, BeingCancelled, RouteInv, TypeOK, RunOK, RunType
<1>3. Ledger' = Ledger BY DEF Ledger
<1> QED BY <1>1, <1>2, <1>3, RouteStep, SameBalance

(* A recovered dispatch is still a target. *)
LEMMA PumpRecoverBalance ==
  ASSUME TypeOK, RouteInv, BalanceInv, PumpRecover
  PROVE  RouteInv' /\ BalanceInv'
<1> USE DEF PumpRecover
<1>1. Routed /\ ctl'.pc # "cancelMark"
  BY DEF Routed, RouteInv, TypeOK, ControlOK, ControlType, envVars, Goto
<1>2. CountersKept /\ StatusKept BY DEF CountersKept, StatusKept, BeingCancelled, RouteInv
<1>3. \A l \in Listings : l \notin Queued => row'[l] = row[l] OBVIOUS
<1>4. \A l \in Queued : row[l].state = "queued" /\ row'[l].state \in {"pending", "queued"}
  BY DEF Queued, TypeOK, RowsOK, RowType
<1>5. Ledger' = Ledger BY <1>3, <1>4, SameLedger
<1> QED BY <1>1, <1>2, <1>5, RouteStep, SameBalance

(* What is taken out of a finite set is missing in it. *)
LEMMA TakenOut ==
  ASSUME NEW S, IsFiniteSet(S), NEW P \in SUBSET S
  PROVE  Cardinality(P) \in Nat /\ Cardinality(S \ P) = Cardinality(S) - Cardinality(P)
<1> DEFINE R == S \ P
<1>1. P \cup R = S /\ P \cap R = {} /\ R \in SUBSET S OBVIOUS
<1> HIDE DEF R
<1>2. IsFiniteSet(P) /\ IsFiniteSet(R) BY <1>1, FS_Subset
<1>3. Cardinality(P) \in Nat /\ Cardinality(R) \in Nat BY <1>2, FS_CardinalityType
<1>4. Cardinality(P \cup R) = Cardinality(P) + Cardinality(R) - Cardinality(P \cap R)
  BY <1>2, FS_Union
<1>5. Cardinality(P \cap R) = 0 BY <1>1, FS_EmptySet
<1>6. Cardinality(S) = Cardinality(P \cup R) BY <1>1, Zenon
<1>7. Cardinality(R) = Cardinality(S) - Cardinality(P) BY ONLY <1>3, <1>4, <1>5, <1>6
<1> QED BY <1>3, <1>7 DEF R

(* Pruned targets are counted as unavailable. *)
LEMMA PumpPruneBalance ==
  ASSUME TypeOK, RouteInv, BalanceInv, PumpPrune
  PROVE  RouteInv' /\ BalanceInv'
<1> USE DEF PumpPrune
<1>1. Routed /\ ctl'.pc # "cancelMark"
  BY DEF Routed, RouteInv, TypeOK, ControlOK, ControlType, envVars, Goto
<1> DEFINE pruned == Ledger \ sighted
<1>2. /\ run'.status = run.status /\ run'.target = run.target
      /\ run'.unavailable = run.unavailable + Cardinality(pruned)
      /\ run'.succeeded = run.succeeded /\ run'.failed = run.failed
      /\ run'.cancelled = run.cancelled
  BY DEF TypeOK, RunOK, RunType
<1>3. StatusKept BY <1>2 DEF StatusKept, BeingCancelled, RouteInv
<1>4. Ledger' = Ledger \ pruned BY DEF Ledger, NoRow
<1>5. pruned \in SUBSET Ledger OBVIOUS
<1>6. /\ Cardinality(pruned) \in Nat
      /\ Cardinality(Ledger') = Cardinality(Ledger) - Cardinality(pruned)
  <2> HIDE DEF pruned
  <2> QED BY <1>4, <1>5, Sizes, TakenOut
<1>7. Settled' = Settled + Cardinality(pruned)
  <2> HIDE DEF pruned
  <2> QED BY <1>2, <1>6 DEF Settled, TypeOK, RunOK, RunType
<1>8. Settled' + Cardinality(Ledger') = Settled + Cardinality(Ledger)
  <2> HIDE DEF pruned
  <2> QED BY <1>6, <1>7, Sizes
<1>9. Moving' = 0 BY <1>1 DEF Moving
<1>10. BalanceInv' BY <1>2, <1>3, <1>8, <1>9, Sizes DEF BalanceInv, StatusKept
<1> QED BY <1>1, <1>3, <1>10, RouteStep

(* A claimed or released target is still a target. *)
LEMMA PumpClaimBalance ==
  ASSUME TypeOK, RouteInv, BalanceInv, NEW l \in Listings, PumpClaim(l)
  PROVE  RouteInv' /\ BalanceInv'
<1> USE DEF PumpClaim
<1>1. Routed /\ ctl'.pc # "cancelMark"
  <2>1. \/ ctl' = [ctl EXCEPT !.pc = "dispatch", !.cur = l, !.todo = @ \ {l}]
        \/ ctl' = IdleControl
        \/ ctl' = [ctl EXCEPT !.todo = @ \ {l}]
    OBVIOUS
  <2> QED BY <2>1, IdleRoute DEF Routed, RouteInv, TypeOK, ControlOK, ControlType, envVars
<1>2. CountersKept /\ StatusKept BY DEF CountersKept, StatusKept, BeingCancelled, RouteInv
<1>3. Ledger' = Ledger
  <2>1. CASE row[l].state = "pending" /\ run.status = "running"
    <3>1. row' = [row EXCEPT ![l].state = "queued", ![l].old = FALSE] BY <2>1
    <3>2. row'[l].state = "queued" /\ \A k \in Listings \ {l} : row'[k] = row[k]
      BY <3>1 DEF TypeOK, RowsOK, RowType
    <3> QED BY <2>1, <3>2, SameLedger
  <2>2. CASE ~(row[l].state = "pending" /\ run.status = "running") BY <2>2 DEF Ledger
  <2> QED BY <2>1, <2>2
<1> QED BY <1>1, <1>2, <1>3, RouteStep, SameBalance

(* releaseTarget keeps the ledger. *)
LEMMA ReleasedLedger ==
  ASSUME TypeOK, NEW l \in Listings, row' = Released(l)
  PROVE  Ledger' = Ledger
<1>1. CASE row[l].state = "absent" BY <1>1 DEF Released, Ledger
<1>2. CASE row[l].state # "absent"
  <2>1. row' = [row EXCEPT ![l].state = "pending", ![l].old = FALSE] BY <1>2 DEF Released
  <2>2. row'[l].state = "pending" /\ \A k \in Listings \ {l} : row'[k] = row[k]
    BY <2>1 DEF TypeOK, RowsOK, RowType
  <2> QED BY <1>2, <2>2, SameLedger
<1> QED BY <1>1, <1>2

(* A failed dispatch. *)
LEMMA PumpUndoBalance ==
  ASSUME TypeOK, RouteInv, BalanceInv, PumpUndo
  PROVE  RouteInv' /\ BalanceInv'
<1> USE DEF PumpUndo
<1>1. Routed /\ ctl'.pc # "cancelMark"
  BY IdleRoute DEF ControlJobFails, Done, Routed, RouteInv, TypeOK, ControlOK, ControlType, envVars
<1>2. CountersKept /\ StatusKept BY DEF CountersKept, StatusKept, BeingCancelled, RouteInv
<1>3. Ledger' = Ledger BY ReleasedLedger DEF TypeOK, ControlOK
<1> QED BY <1>1, <1>2, <1>3, RouteStep, SameBalance

(* The pump ends a run that is not being cancelled. *)
LEMMA PumpFinalizeBalance ==
  ASSUME TypeOK, RouteInv, BalanceInv, PumpFinalize
  PROVE  RouteInv' /\ BalanceInv'
<1> USE DEF PumpFinalize
<1>1. Routed /\ ctl'.pc # "cancelMark"
  BY IdleRoute DEF Done, Routed, RouteInv, TypeOK, ControlOK, ControlType, envVars
<1>2. \/ run' = run
      \/ \E s \in {"completed", "partial"} :
           /\ run.status \in {"planned", "running", "blocked"}
           /\ run' = [run EXCEPT !.status = s, !.cooling = FALSE]
  OBVIOUS
<1>3. CountersKept /\ StatusKept
  BY <1>2 DEF CountersKept, StatusKept, BeingCancelled, RouteInv, TypeOK, RunOK, RunType
<1>4. Ledger' = Ledger BY DEF Ledger
<1> QED BY <1>1, <1>3, <1>4, RouteStep, SameBalance

(* A cancellation on its way to the ledger. *)
LEMMA QuietCancelBalance ==
  ASSUME TypeOK, RouteInv, BalanceInv, TakeCancel \/ CancelJobs
  PROVE  RouteInv' /\ BalanceInv'
<1>1. UNCHANGED <<run, row, maint>> BY DEF TakeCancel, CancelJobs, envVars
<1>2. Routed /\ ctl'.pc # "cancelMark"
  <2> USE <1>1 DEF Routed, RouteInv
  <2>1. CASE TakeCancel BY <2>1 DEF TakeCancel, IdleControl
  <2>2. CASE CancelJobs
    <3>1. /\ Done \/ Goto("cancelLedger")
          /\ ctl.pc = "cancelJobs" /\ pumpJob' \in {"none", pumpJob}
      BY <2>2 DEF CancelJobs
    <3> QED BY <3>1, IdleRoute DEF Done, Goto, TypeOK, ControlOK, ControlType
  <2> QED BY <2>1, <2>2
<1> QED BY <1>1, <1>2, Quiet

(* The targets of a cancelled ledger are on their way. *)
LEMMA CancelLedgerBalance ==
  ASSUME TypeOK, RouteInv, BalanceInv, CancelLedger
  PROVE  RouteInv' /\ BalanceInv'
<1> USE DEF CancelLedger
<1>1. ctl'.pc = "cancelMark" /\ ctl'.removed = Cardinality(Ledger)
  BY DEF TypeOK, ControlOK, ControlType
<1>2. Routed BY DEF Routed, RouteInv, TypeOK, ControlOK, ControlType, envVars
<1>3. CountersKept /\ StatusKept BY DEF CountersKept, StatusKept, BeingCancelled, RouteInv
<1>4. BeingCancelled BY DEF RouteInv
<1>5. Ledger' = {} BY DEF Ledger, NoRow
<1>6. Cardinality(Ledger') = 0 BY <1>5, FS_EmptySet
<1>7. Settled' = Settled /\ Moving' = Cardinality(Ledger) /\ Moving = 0
  BY <1>1 DEF Settled, Moving
<1>8. BalanceInv' BY <1>3, <1>4, <1>6, <1>7, Sizes DEF BalanceInv, StatusKept, CountersKept
<1> QED BY <1>2, <1>3, <1>8, RouteStep

(* They arrive, unless the run is already marked. *)
LEMMA CancelMarkBalance ==
  ASSUME TypeOK, RouteInv, BalanceInv, CancelMark
  PROVE  RouteInv' /\ BalanceInv'
<1> USE DEF CancelMark
<1>1. Routed /\ ctl'.pc # "cancelMark"
  BY IdleRoute DEF Done, Routed, RouteInv, TypeOK, ControlOK, ControlType, envVars
<1>2. BeingCancelled BY DEF RouteInv
<1>3. Ledger' = Ledger /\ Moving' = 0 /\ Moving = ctl.removed BY <1>1 DEF Ledger, Moving
<1>4. CASE run.status = "cancelling"
  <2>1. run' = [run EXCEPT !.status = "cancelled", !.cooling = FALSE,
                           !.cancelled = @ + ctl.removed]
    BY <1>4
  <2>2. /\ run'.status = "cancelled" /\ run'.target = run.target
        /\ run'.cancelled = run.cancelled + ctl.removed
        /\ run'.succeeded = run.succeeded /\ run'.unavailable = run.unavailable
        /\ run'.failed = run.failed
    BY <2>1 DEF TypeOK, RunOK, RunType
  <2>3. Settled' = Settled + ctl.removed
    BY <2>2 DEF Settled, TypeOK, RunOK, RunType, ControlOK, ControlType
  <2>4. StatusKept /\ BeingCancelled' BY <2>2 DEF StatusKept, BeingCancelled
  <2>5. BalanceInv' BY <1>3, <2>2, <2>3, <2>4, Sizes DEF BalanceInv
  <2> QED BY <1>1, <2>4, <2>5, RouteStep
<1>5. CASE run.status # "cancelling"
  <2>1. CountersKept /\ StatusKept
    BY <1>5 DEF CountersKept, StatusKept, BeingCancelled, RouteInv
  <2> QED BY <1>1, <1>3, <2>1, RouteStep, SameBalance
<1> QED BY <1>4, <1>5

-----------------------------------------------------------------------------
(* Detail jobs.                                                            *)

(* A step outside the control queue. *)
LEMMA OutsideRoute ==
  ASSUME RouteInv, ctl' = ctl, cancelJob' = cancelJob, maint' = maint,
         pumpJob' = pumpJob \/ pumpJob' = "plain"
  PROVE  Routed
BY DEF Routed, RouteInv

(* The detail job's steps that leave the run and its ledger alone. *)
LEMMA QuietDetailBalance ==
  ASSUME TypeOK, RouteInv, BalanceInv, NEW w \in Workers,
         \/ DetailContext(w) \/ RemoveManagedJobs(w) \/ DetailQueuePump(w)
         \/ DetailComplete(w) \/ DetailFails(w) \/ DetailDies(w)
         \/ RecoverDeadLock \/ RecoverSlowLock
         \/ \E l \in Listings : TakeDetail(w, l)
         \/ \E r \in {"succeeded", "unavailable", "failed", "error", "blocked",
                      "crawler_off"} : DetailFetch(w, r)
  PROVE  RouteInv' /\ BalanceInv'
<1>1. /\ UNCHANGED <<run, row>> /\ ctl' = ctl /\ cancelJob' = cancelJob /\ maint' = maint
      /\ pumpJob' = pumpJob \/ pumpJob' = "plain"
  BY DEF DetailContext, RemoveManagedJobs, DetailQueuePump, DetailComplete, DetailFails,
         DetailDies, RecoverDeadLock, RecoverSlowLock, TakeDetail, DetailFetch, runVars,
         otherVars
<1> QED BY <1>1, OutsideRoute, Quiet

(* A late job of a run that is no longer running only releases its target. *)
LEMMA DetailReleaseBalance ==
  ASSUME TypeOK, RouteInv, BalanceInv, NEW w \in Workers, DetailRelease(w)
  PROVE  RouteInv' /\ BalanceInv'
<1> USE DEF DetailRelease
<1>1. Routed /\ ctl' = ctl BY OutsideRoute DEF otherVars
<1>2. CountersKept /\ StatusKept BY DEF CountersKept, StatusKept, BeingCancelled, RouteInv
<1>3. Ledger' = Ledger BY ReleasedLedger DEF TypeOK, WorkersOK
<1> QED BY <1>1, <1>2, <1>3, RouteStep, SameBalance

(* An outcome is counted when its row goes. *)
LEMMA FinishTargetBalance ==
  ASSUME TypeOK, TypeOK', RouteInv, BalanceInv, NEW w \in Workers, FinishTarget(w)
  PROVE  RouteInv' /\ BalanceInv'
<1> USE DEF FinishTarget
<1>1. Routed /\ ctl' = ctl BY OutsideRoute DEF otherVars
<1> DEFINE l == worker[w].listing
<1>2. l \in Listings BY DEF TypeOK, WorkersOK
<1>3. CASE row[l].state = "absent"
  <2>1. UNCHANGED <<run, row>> BY <1>3 DEF runVars
  <2> QED BY <1>1, <2>1, Quiet
<1>4. CASE row[l].state # "absent"
  <2>1. row' = [row EXCEPT ![l] = NoRow] BY <1>4
  <2>2. /\ run'.status = run.status /\ run'.target = run.target
        /\ run'.cancelled = run.cancelled
        /\ \/ run'.succeeded = run.succeeded + 1 /\ run'.unavailable = run.unavailable
              /\ run'.failed = run.failed
           \/ run'.succeeded = run.succeeded /\ run'.unavailable = run.unavailable + 1
              /\ run'.failed = run.failed
           \/ run'.succeeded = run.succeeded /\ run'.unavailable = run.unavailable
              /\ run'.failed = run.failed + 1
    BY <1>4 DEF TypeOK, RunOK, RunType
  <2>3. Settled' = Settled + 1 BY <2>2 DEF Settled, TypeOK, RunOK, RunType
  <2>4. StatusKept BY <2>2 DEF StatusKept, BeingCancelled, RouteInv
  <2> HIDE DEF l
  <2>5. BalanceInv' BY <1>1, <1>2, <1>4, <2>1, <2>2, <2>3, <2>4, CountedOnce
  <2> QED BY <1>1, <2>4, <2>5, RouteStep
<1> QED BY <1>3, <1>4

(* A failed attempt counts its target or keeps it. *)
LEMMA RetryOrFailTargetBalance ==
  ASSUME TypeOK, TypeOK', RouteInv, BalanceInv, NEW w \in Workers, RetryOrFailTarget(w)
  PROVE  RouteInv' /\ BalanceInv'
<1> USE DEF RetryOrFailTarget
<1>1. Routed /\ ctl' = ctl BY OutsideRoute DEF otherVars
<1> DEFINE l == worker[w].listing
<1>2. l \in Listings BY DEF TypeOK, WorkersOK
<1>3. CASE row[l].state = "absent"
  <2>1. UNCHANGED <<run, row>> BY <1>3 DEF runVars
  <2> QED BY <1>1, <2>1, Quiet
<1>4. CASE row[l].state # "absent"
  <2>1. CASE row' = [row EXCEPT ![l] = NoRow] /\ run' = [run EXCEPT !.failed = @ + 1]
    <3>1. /\ run'.status = run.status /\ run'.target = run.target
          /\ Settled' = Settled + 1
      BY <2>1 DEF Settled, TypeOK, RunOK, RunType
    <3>2. StatusKept BY <3>1 DEF StatusKept, BeingCancelled, RouteInv
    <3> HIDE DEF l
    <3>3. BalanceInv' BY <1>1, <1>2, <1>4, <2>1, <3>1, <3>2, CountedOnce
    <3> QED BY <1>1, <3>2, <3>3, RouteStep
  <2>2. CASE /\ row' = [row EXCEPT ![l] = [state |-> "pending", tries |-> @.tries + 1,
                                           next |-> "future", old |-> FALSE]]
             /\ run' = run
    <3>1. CountersKept /\ StatusKept
      BY <2>2 DEF CountersKept, StatusKept, BeingCancelled, RouteInv
    <3>2. row'[l].state = "pending" /\ \A k \in Listings \ {l} : row'[k] = row[k]
      BY <1>2, <2>2 DEF TypeOK, RowsOK
    <3>3. Ledger' = Ledger BY <1>4, <3>2, SameLedger
    <3> QED BY <1>1, <3>1, <3>3, RouteStep, SameBalance
  <2> QED BY <1>4, <2>1, <2>2
<1> QED BY <1>3, <1>4

(* The breaker and the pause keep the ledger and change the status of a    *)
(* run that is not being cancelled.                                        *)
LEMMA BlockBackfillBalance ==
  ASSUME TypeOK, RouteInv, BalanceInv, NEW w \in Workers, BlockBackfill(w)
  PROVE  RouteInv' /\ BalanceInv'
<1> USE DEF BlockBackfill
<1>1. Routed /\ ctl' = ctl BY OutsideRoute DEF otherVars
<1>2. CountersKept /\ StatusKept
  BY DEF CountersKept, StatusKept, BeingCancelled, Terminal, RouteInv, TypeOK, RunOK, RunType
<1>3. \A l \in Listings : l \notin Queued => row'[l] = row[l] OBVIOUS
<1>4. \A l \in Queued : row[l].state = "queued" /\ row'[l].state = "pending"
  BY DEF Queued, TypeOK, RowsOK, RowType
<1>5. Ledger' = Ledger BY <1>3, <1>4, SameLedger
<1> QED BY <1>1, <1>2, <1>5, RouteStep, SameBalance

(* The pause of a detail job. *)
LEMMA PauseBackfillBalance ==
  ASSUME TypeOK, RouteInv, BalanceInv, NEW w \in Workers, PauseBackfill(w)
  PROVE  RouteInv' /\ BalanceInv'
<1> USE DEF PauseBackfill
<1>1. Routed /\ ctl' = ctl BY OutsideRoute DEF otherVars
<1>2. CountersKept /\ StatusKept
  BY DEF CountersKept, StatusKept, BeingCancelled, Terminal, RouteInv, TypeOK, RunOK, RunType
<1>3. Ledger' = Ledger BY ReleasedLedger DEF TypeOK, WorkersOK
<1> QED BY <1>1, <1>2, <1>3, RouteStep, SameBalance

-----------------------------------------------------------------------------
(* Maintenance, the operator and time.                                     *)

(* A resume asks for a rebuild only of a run that is being cancelled: the  *)
(* others miss no target.                                                  *)
LEMMA OperatorResumeBalance ==
  ASSUME TypeOK, RouteInv, BalanceInv, OperatorResume
  PROVE  RouteInv' /\ BalanceInv'
<1> USE DEF OperatorResume, Command
<1>1. UNCHANGED <<run, row>> /\ ctl' = ctl /\ cancelJob' = cancelJob /\ maint' = maint
  OBVIOUS
<1>2. pumpJob' = "rebuild" => BeingCancelled
  <2>1. ASSUME Ledger = {}, run.target > Settled, ~BeingCancelled PROVE FALSE
    <3>1. Cardinality(Ledger) = 0 BY <2>1, FS_EmptySet
    <3> QED BY <2>1, <3>1, Sizes DEF BalanceInv
  <2> QED BY <2>1
<1>3. RouteInv' BY <1>1, <1>2 DEF RouteInv, BeingCancelled
<1>4. CountersKept /\ StatusKept BY <1>1 DEF CountersKept, StatusKept, BeingCancelled, RouteInv
<1>5. Ledger' = Ledger BY <1>1 DEF Ledger
<1> QED BY <1>1, <1>3, <1>4, <1>5, SameBalance

(* Maintenance queues a cancellation for a run that is being cancelled. *)
LEMMA OutsideBalance ==
  ASSUME TypeOK, RouteInv, BalanceInv, Maintenance \/ Operator \/ Time
  PROVE  RouteInv' /\ BalanceInv'
<1>1. CASE Maintenance
  <2>1. UNCHANGED <<run, row>> /\ ctl' = ctl
    BY <1>1 DEF Maintenance, MaintainRead, MaintainQueue, runVars, ctlVars
  <2>2. RouteInv'
    BY <1>1, <2>1 DEF Maintenance, MaintainRead, MaintainQueue, RouteInv, BeingCancelled, ctlVars,
                      TypeOK, ControlJobsOK
  <2>3. CountersKept /\ StatusKept
    BY <2>1 DEF CountersKept, StatusKept, BeingCancelled, RouteInv
  <2>4. Ledger' = Ledger BY <2>1 DEF Ledger
  <2> QED BY <2>1, <2>2, <2>3, <2>4, SameBalance
<1>2. CASE OperatorPause \/ OperatorCancel
  <2>1. /\ row' = row /\ ctl' = ctl /\ maint' = maint /\ pumpJob' = pumpJob
        /\ run.status \notin Terminal
    BY <1>2 DEF OperatorPause, OperatorCancel, Command
  <2>2. CountersKept /\ StatusKept /\ (OperatorCancel => BeingCancelled')
    BY <1>2 DEF OperatorPause, OperatorCancel, CountersKept, StatusKept, BeingCancelled,
                RouteInv, TypeOK, RunOK, RunType
  <2>3. RouteInv'
    BY <1>2, <2>1, <2>2 DEF OperatorPause, OperatorCancel, RouteInv, StatusKept
  <2>4. Ledger' = Ledger BY <2>1 DEF Ledger
  <2> QED BY <2>1, <2>2, <2>3, <2>4, SameBalance
<1>3. CASE SwitchCrawler \/ \E l \in Listings : QueryDisabled(l)
  <2>1. UNCHANGED <<run, row, ctl, cancelJob, maint, pumpJob>>
    BY <1>3 DEF SwitchCrawler, QueryDisabled, runVars, ctlVars, otherVars
  <2> QED BY <2>1, OutsideRoute, Quiet
<1>4. CASE CooldownEnds
  <2>1. UNCHANGED <<row, ctl, cancelJob, maint, pumpJob>> BY <1>4 DEF CooldownEnds, otherVars
  <2>2. CountersKept /\ StatusKept
    BY <1>4 DEF CooldownEnds, CountersKept, StatusKept, BeingCancelled, RouteInv, TypeOK,
                RunOK, RunType
  <2>3. Ledger' = Ledger BY <2>1 DEF Ledger
  <2> QED BY <2>1, <2>2, <2>3, OutsideRoute, RouteStep, SameBalance
<1>5. ASSUME NEW l \in Listings, RetryDue(l) \/ DispatchAges(l) PROVE RouteInv' /\ BalanceInv'
  <2>1. UNCHANGED <<run, ctl, cancelJob, maint, pumpJob>>
    BY <1>5 DEF RetryDue, DispatchAges, otherVars
  <2>2. \/ row' = [row EXCEPT ![l].next = "past"]
        \/ row' = [row EXCEPT ![l].old = TRUE]
    BY <1>5 DEF RetryDue, DispatchAges
  <2>3. row'[l].state = row[l].state /\ \A k \in Listings \ {l} : row'[k] = row[k]
    BY <2>2 DEF TypeOK, RowsOK, RowType
  <2>4. Ledger' = Ledger BY <2>3, SameLedger
  <2>5. CountersKept /\ StatusKept
    BY <2>1 DEF CountersKept, StatusKept, BeingCancelled, RouteInv
  <2> QED BY <2>1, <2>4, <2>5, OutsideRoute, RouteStep, SameBalance
<1> QED BY <1>1, <1>2, <1>3, <1>4, <1>5, OperatorResumeBalance DEF Operator, Time

-----------------------------------------------------------------------------
(* Together.                                                               *)

(* A created run starts balanced: what it could not select is counted. *)
LEMMA InitBalance == InitCreated => RouteInv /\ BalanceInv
<1> SUFFICES ASSUME InitCreated PROVE RouteInv /\ BalanceInv OBVIOUS
<1>1. PICK S \in SeedSets : run = SeededRun(S) /\ row = SeededRows(S)
  BY DEF InitCreated, Init, CreatedRun
<1>2. ctl.pc = "read" /\ ctl.task = "start" /\ ctl.seen = "none"
  BY DEF InitCreated, Init, CreatedRun, IdleControl
<1>3. RouteInv BY <1>1, <1>2 DEF InitCreated, Init, RouteInv, SeededRun
<1>4. S \in SUBSET Listings BY DEF SeedSets, Unparsed, InitCreated, Init
<1>5. Ledger = S BY <1>1, <1>4 DEF Ledger, SeededRows, NewRow, NoRow
<1>6. Cardinality(S) \in Nat /\ Cardinality(Unparsed \ sighted) \in Nat
  BY <1>4, SubsetSize DEF Unparsed
<1>7. Moving = 0 BY <1>2 DEF Moving
<1>8. Settled + Cardinality(S) = run.target /\ run.target \in Nat
  BY <1>1, <1>6 DEF Settled, SeededRun
<1>9. BalanceInv BY <1>5, <1>6, <1>7, <1>8 DEF BalanceInv
<1> QED BY <1>3, <1>9

(* Every step keeps the route and the balance. *)
LEMMA NextBalance ==
  TypeOK /\ TypeOK' /\ RouteInv /\ BalanceInv /\ [Next]_vars => RouteInv' /\ BalanceInv'
<1> SUFFICES ASSUME TypeOK, TypeOK', RouteInv, BalanceInv, [Next]_vars
             PROVE  RouteInv' /\ BalanceInv'
  OBVIOUS
<1>1. CASE Pump
  <2>1. ~PumpSeedCommit BY DEF PumpSeedCommit, RouteInv
  <2> QED BY <1>1, <2>1, QuietPumpBalance, ResumeBalance, PumpUnblockBalance, PumpRecoverBalance,
             PumpPruneBalance, PumpClaimBalance, PumpUndoBalance, PumpFinalizeBalance
          DEF Pump
<1>2. CASE Cancellation
  BY <1>2, QuietCancelBalance, CancelLedgerBalance, CancelMarkBalance DEF Cancellation
<1>3. CASE Detail
  <2>1. ASSUME NEW w \in Workers, DetailStep(w) \/ \E l \in Listings : TakeDetail(w, l)
        PROVE  RouteInv' /\ BalanceInv'
    BY <2>1, QuietDetailBalance, DetailReleaseBalance, FinishTargetBalance,
       RetryOrFailTargetBalance, BlockBackfillBalance, PauseBackfillBalance
    DEF DetailStep
  <2> QED BY <1>3, <2>1 DEF Detail
<1>4. CASE RecoverDeadLock \/ RecoverSlowLock
  <2>1. UNCHANGED <<run, row, ctl, cancelJob, maint, pumpJob>>
    BY <1>4 DEF RecoverDeadLock, RecoverSlowLock, runVars, otherVars
  <2> QED BY <2>1, OutsideRoute, Quiet
<1>5. CASE Maintenance \/ Operator \/ Time BY <1>5, OutsideBalance
<1>6. CASE Faults BY <1>6, <1>4, QuietPumpBalance, QuietDetailBalance DEF Faults
<1>7. CASE UNCHANGED vars
  <2>1. UNCHANGED <<run, row, ctl, cancelJob, maint, pumpJob>> BY <1>7 DEF vars
  <2> QED BY <2>1, OutsideRoute, Quiet
<1> QED BY <1>1, <1>2, <1>3, <1>4, <1>5, <1>6, <1>7 DEF Next

(* What holds of every behaviour of a created run. *)
LEMMA CreatedInvariant == SpecCreated => [](TypeOK /\ TerminalInv /\ RouteInv /\ BalanceInv)
<1>1. InitCreated => TypeOK /\ TerminalInv /\ RouteInv /\ BalanceInv
  BY InitType, InitTerminal, InitBalance DEF InitCreated
<1>2. TypeOK /\ TerminalInv /\ RouteInv /\ BalanceInv /\ [Next]_vars
        => (TypeOK /\ TerminalInv /\ RouteInv /\ BalanceInv)'
  BY NextType, NextTerminal, NextBalance
<1> QED BY <1>1, <1>2, PTL DEF SpecCreated

(* Of a created run no target is lost and none is counted twice, whatever  *)
(* slow, duplicated or late executions finish and whatever the operator    *)
(* commands: outcomes and ledger add up to the targets it selected.        *)
THEOREM TargetsAreConserved == SpecCreated => []TargetsConserved
<1>1. TypeOK /\ BalanceInv => TargetsConserved
  <2> SUFFICES ASSUME TypeOK, BalanceInv PROVE TargetsConserved OBVIOUS
  <2> QED BY Sizes DEF BalanceInv, TargetsConserved, BeingCancelled
<1> QED BY <1>1, CreatedInvariant, PTL

(* A created run that ends by itself has accounted for all its targets:    *)
(* its ledger is empty then, so nothing but the counters is left.          *)
THEOREM FinishedRunsAccount == SpecCreated => []FinishedRunAccounts
<1>1. TypeOK /\ TerminalInv /\ BalanceInv => FinishedRunAccounts
  <2> SUFFICES ASSUME TypeOK, TerminalInv, BalanceInv, run.status \in {"completed", "partial"}
               PROVE  Settled = run.target
    BY DEF FinishedRunAccounts
  <2>1. Ledger = {} BY DEF TerminalInv, TerminalLedgerEmpty, Terminal
  <2>2. Cardinality(Ledger) = 0 BY <2>1, FS_EmptySet
  <2> QED BY <2>2, Sizes DEF BalanceInv, BeingCancelled
<1> QED BY <1>1, CreatedInvariant, PTL

-----------------------------------------------------------------------------
(* The answers of a full backlog.                                          *)

AnswerStored ==
  \A w \in Workers : worker[w].pc = "settle" =>
    /\ worker[w].result = "succeeded" => evidence[worker[w].listing] = "parsed"
    /\ worker[w].result = "unavailable" => evidence[worker[w].listing] # "none"

(* What is stored is not forgotten, and a query that is disabled stays so. *)
AnswersKept ==
  /\ sighted' \subseteq sighted
  /\ \A l \in Listings : /\ evidence[l] # "none" => evidence'[l] # "none"
                         /\ evidence[l] = "parsed" => evidence'[l] = "parsed"

(* A target that leaves the ledger has failed, or has an answer, or no     *)
(* query shows it.                                                         *)
TargetsAnswered ==
  \A l \in sighted' :
    row'[l].state = "absent" /\ row[l].state # "absent" => evidence'[l] # "none"

(* What a step owes the answers. *)
AnswerStep ==
  /\ AnswersKept
  /\ BeingCancelled => BeingCancelled'
  /\ run'.status = "completed" => run'.failed = 0
  /\ ~BeingCancelled' => /\ run.failed # 0 => run'.failed # 0
                         /\ run'.failed = 0 => TargetsAnswered

(* Such a step keeps the answers, if no execution comes to count another.  *)
LEMMA AnswersStand ==
  ASSUME TypeOK, AnswerInv, AnswerStep, AnswerStored'
  PROVE  AnswerInv'
<1>1. ASSUME TargetLimit = 0, ~BeingCancelled', run'.failed = 0,
             NEW l \in sighted', row'[l].state = "absent"
      PROVE  evidence'[l] # "none"
  <2>1. ~BeingCancelled /\ run.failed = 0 /\ TargetsAnswered BY <1>1 DEF AnswerStep
  <2>2. l \in sighted /\ l \in Listings
    BY <1>1 DEF AnswerStep, AnswersKept, TypeOK, EnvironmentOK
  <2>3. CASE row[l].state = "absent"
    <3>1. evidence[l] # "none" BY <1>1, <2>1, <2>2, <2>3 DEF AnswerInv
    <3> QED BY <2>2, <3>1 DEF AnswerStep, AnswersKept
  <2>4. CASE row[l].state # "absent" BY <1>1, <2>1, <2>4 DEF TargetsAnswered
  <2> QED BY <2>3, <2>4
<1>2. run'.status = "completed" => run'.failed = 0 BY DEF AnswerStep
<1> QED BY <1>1, <1>2 DEF AnswerInv, AnswerStored

(* The executions that are about to count stay as they are. *)
LEMMA StoredStands ==
  ASSUME TypeOK, AnswerInv, AnswersKept,
         \A w \in Workers : worker'[w].pc = "settle" =>
           /\ worker[w].pc = "settle" /\ worker'[w].result = worker[w].result
           /\ worker'[w].listing = worker[w].listing
  PROVE  AnswerStored'
<1> SUFFICES ASSUME NEW w \in Workers, worker'[w].pc = "settle"
             PROVE  /\ worker'[w].result = "succeeded" => evidence'[worker'[w].listing] = "parsed"
                    /\ worker'[w].result = "unavailable" => evidence'[worker'[w].listing] # "none"
  BY DEF AnswerStored
<1>1. worker[w].pc = "settle" /\ worker'[w].result = worker[w].result
      /\ worker'[w].listing = worker[w].listing
  OBVIOUS
<1>2. worker[w].listing \in Listings BY <1>1 DEF TypeOK, WorkersOK
<1>3. /\ worker[w].result = "succeeded" => evidence[worker[w].listing] = "parsed"
      /\ worker[w].result = "unavailable" => evidence[worker[w].listing] # "none"
  BY <1>1 DEF AnswerInv
<1> QED BY <1>1, <1>2, <1>3 DEF AnswersKept

(* Evidence and sightings that stay are kept. *)
LEMMA SameAnswers ==
  ASSUME evidence' = evidence, sighted' = sighted
  PROVE  AnswersKept
BY DEF AnswersKept

(* Taking the ownership of job rows away leaves an execution its outcome.  *)
LEMMA DisownedOutcome ==
  ASSUME TypeOK, NEW S
  PROVE  \A w \in Workers : /\ Disown(S)[w].pc = worker[w].pc
                            /\ Disown(S)[w].result = worker[w].result
                            /\ Disown(S)[w].listing = worker[w].listing
BY DEF TypeOK, WorkersOK, WorkerType, Disown

(* The control queue: it fetches nothing, and of the ledger it drops only  *)
(* what no query shows, or what is being cancelled.                        *)
LEMMA ControlAnswers ==
  ASSUME TypeOK, TypeOK', TerminalInv, RouteInv, RouteInv', AnswerInv,
         Pump \/ Cancellation \/ PumpDispatchFails \/ ControlFails
  PROVE  AnswerInv'
<1> USE DEF detailVars, envVars
<1>1. evidence' = evidence /\ sighted' = sighted
  BY DEF Pump, TakePump, Resume, PumpRead, PumpLedger, PumpSeed, PumpSeedCommit, PumpUnblock,
         PumpRecover, PumpPrune, PumpCount, PumpSelect, PumpClaim, PumpDispatch, PumpUndo,
         PumpFinalize, PumpRequeue, Cancellation, TakeCancel, CancelJobs, CancelLedger,
         CancelMark, PumpDispatchFails, ControlFails
<1>2. AnswersKept BY <1>1, SameAnswers
<1>3. AnswerStored'
  <2>1. worker' = worker \/ \E S : worker' = Disown(S)
    BY DEF Pump, TakePump, Resume, PumpRead, PumpLedger, PumpSeed, PumpSeedCommit, PumpUnblock,
           PumpRecover, PumpPrune, PumpCount, PumpSelect, PumpClaim, PumpDispatch, PumpUndo,
           PumpFinalize, PumpRequeue, Cancellation, TakeCancel, CancelJobs, CancelLedger,
           CancelMark, PumpDispatchFails, ControlFails, AddDetailJob
  <2>2. ASSUME NEW S, worker' = Disown(S) PROVE AnswerStored'
    BY <1>2, <2>2, DisownedOutcome, StoredStands
  <2> QED BY <1>2, <2>1, <2>2, StoredStands
<1>4. AnswerStep
  <2> SUFFICES /\ BeingCancelled => BeingCancelled'
               /\ run'.status = "completed" => run'.failed = 0
               /\ ~BeingCancelled' => run'.failed = run.failed /\ TargetsAnswered
    BY <1>2 DEF AnswerStep
  <2> USE DEF TypeOK, RunOK, RunType
  <2>0. run.status = "completed" => run.failed = 0 BY DEF AnswerInv
  <2>1. CASE \/ TakePump \/ PumpRead \/ PumpLedger \/ PumpSeed \/ PumpCount \/ PumpSelect
             \/ PumpDispatch \/ PumpRequeue \/ PumpDispatchFails \/ ControlFails
             \/ TakeCancel \/ CancelJobs
    <3>1. UNCHANGED <<run, row>>
      BY <2>1 DEF TakePump, PumpRead, PumpLedger, PumpSeed, PumpCount, PumpSelect, PumpDispatch,
                  PumpRequeue, PumpDispatchFails, ControlFails, TakeCancel, CancelJobs
    <3> QED BY <2>0, <3>1 DEF BeingCancelled, TargetsAnswered
  <2>2. CASE Resume
    <3>1. CASE ctl.task = "rebuild"
      <4>1. BeingCancelled BY <3>1 DEF RouteInv
      <4>2. run' = run BY <2>2, <3>1, <4>1 DEF Resume, Seedable, BeingCancelled
      <4> QED BY <2>0, <4>1, <4>2 DEF BeingCancelled
    <3>2. CASE ctl.task # "rebuild"
      BY <2>0, <2>2, <3>2 DEF Resume, BeingCancelled, Seedable, TargetsAnswered
    <3> QED BY <3>1, <3>2
  <2>3. CASE PumpSeedCommit BY <2>3 DEF PumpSeedCommit, RouteInv
  <2>4. CASE PumpUnblock
    BY <2>0, <2>4 DEF PumpUnblock, BeingCancelled, TargetsAnswered
  <2>5. CASE PumpRecover
    <3>1. \A l \in Listings : row'[l].state = "absent" => row[l].state = "absent"
      BY <2>5 DEF PumpRecover, RowsOK, RowType
    <3> QED BY <1>1, <2>0, <2>5, <3>1 DEF PumpRecover, BeingCancelled, TargetsAnswered, EnvironmentOK
  <2>6. CASE PumpPrune
    <3>1. \A l \in sighted : row'[l] = row[l] BY <2>6 DEF PumpPrune, EnvironmentOK
    <3>2. run'.status = run.status /\ run'.failed = run.failed BY <2>6 DEF PumpPrune
    <3> QED BY <1>1, <2>0, <3>1, <3>2 DEF BeingCancelled, TargetsAnswered
  <2>7. ASSUME NEW l \in Listings, PumpClaim(l)
        PROVE  /\ BeingCancelled => BeingCancelled'
               /\ run'.status = "completed" => run'.failed = 0
               /\ ~BeingCancelled' => run'.failed = run.failed /\ TargetsAnswered
    <3>1. \A k \in Listings : row'[k].state = "absent" => row[k].state = "absent"
      BY <2>7 DEF PumpClaim, RowsOK, RowType
    <3> QED BY <1>1, <2>0, <2>7, <3>1 DEF PumpClaim, BeingCancelled, TargetsAnswered, EnvironmentOK
  <2>8. CASE PumpUndo
    <3>1. \A k \in Listings : row'[k].state = "absent" => row[k].state = "absent"
      BY <2>8 DEF PumpUndo, Released, ControlOK, RowsOK, RowType
    <3> QED BY <1>1, <2>0, <2>8, <3>1 DEF PumpUndo, BeingCancelled, TargetsAnswered, EnvironmentOK
  <2>9. CASE PumpFinalize
    BY <2>0, <2>9 DEF PumpFinalize, BeingCancelled, TargetsAnswered
  <2>10. CASE CancelLedger \/ CancelMark
    <3>1. BeingCancelled BY <2>10 DEF CancelLedger, CancelMark, RouteInv
    <3>2. run'.failed = run.failed /\ (run' = run \/ run'.status = "cancelled")
      BY <2>10 DEF CancelLedger, CancelMark
    <3> QED BY <2>0, <3>1, <3>2 DEF BeingCancelled
  <2> QED BY <2>1, <2>2, <2>3, <2>4, <2>5, <2>6, <2>7, <2>8, <2>9, <2>10 DEF Pump, Cancellation
<1> QED BY <1>3, <1>4, AnswersStand

(* A detail job stores an answer before it counts it. *)
LEMMA FetchAnswers ==
  ASSUME TypeOK, TypeOK', AnswerInv, NEW w \in Workers, NEW r, DetailFetch(w, r)
  PROVE  AnswerInv'
<1> USE DEF DetailFetch, runVars, otherVars, TypeOK, WorkersOK, EnvironmentOK
<1>1. worker[w].listing \in Listings OBVIOUS
<1>2. AnswersKept
  <2>1. CASE evidence' = evidence BY <2>1, SameAnswers
  <2>2. CASE evidence' = [evidence EXCEPT ![worker[w].listing] = "parsed"]
    BY <1>1, <2>2 DEF AnswersKept
  <2>3. CASE evidence' = [evidence EXCEPT ![worker[w].listing] = IF @ = "parsed" THEN @ ELSE "unavailable"]
    BY <1>1, <2>3 DEF AnswersKept
  <2> QED BY <2>1, <2>2, <2>3
<1>3. /\ worker'[w].result = r /\ worker'[w].listing = worker[w].listing
      /\ \A v \in Workers \ {w} : worker'[v] = worker[v]
  BY DEF WorkerType
<1>4. /\ r = "succeeded" => evidence'[worker[w].listing] = "parsed"
      /\ r = "unavailable" => evidence'[worker[w].listing] # "none"
  BY <1>1
<1>5. AnswerStored'
  <2> SUFFICES ASSUME NEW v \in Workers, worker'[v].pc = "settle"
               PROVE  /\ worker'[v].result = "succeeded" => evidence'[worker'[v].listing] = "parsed"
                      /\ worker'[v].result = "unavailable" => evidence'[worker'[v].listing] # "none"
    BY DEF AnswerStored
  <2>1. CASE v = w BY <1>3, <1>4, <2>1
  <2>2. CASE v # w
    <3>1. worker'[v] = worker[v] /\ worker[v].listing \in Listings BY <1>3, <2>2
    <3>2. /\ worker[v].result = "succeeded" => evidence[worker[v].listing] = "parsed"
          /\ worker[v].result = "unavailable" => evidence[worker[v].listing] # "none"
      BY <3>1 DEF AnswerInv
    <3> QED BY <1>2, <3>1, <3>2 DEF AnswersKept
  <2> QED BY <2>1, <2>2
<1>6. AnswerStep BY <1>2 DEF AnswerStep, AnswerInv, BeingCancelled, TargetsAnswered
<1> QED BY <1>5, <1>6, AnswersStand

(* A counted target has its answer, or its failure is counted. *)
LEMMA SettleAnswers ==
  ASSUME TypeOK, TypeOK', TerminalInv, AnswerInv, NEW w \in Workers,
         FinishTarget(w) \/ RetryOrFailTarget(w)
  PROVE  AnswerInv'
<1> USE DEF runVars, otherVars
<1> DEFINE l == worker[w].listing
<1>1. /\ l \in Listings /\ evidence' = evidence /\ sighted' = sighted
      /\ worker[w].pc = "settle" /\ WorkerGoto(w, "pump")
  BY DEF FinishTarget, RetryOrFailTarget, TypeOK, WorkersOK
<1>2. AnswersKept BY <1>1, SameAnswers
<1>3. AnswerStored'
  <2>1. worker'[w].pc = "pump" /\ \A v \in Workers \ {w} : worker'[v] = worker[v]
    BY <1>1 DEF WorkerGoto, TypeOK, WorkersOK, WorkerType
  <2> QED BY <1>2, <2>1, StoredStands
<1>4. AnswerStep
  <2>1. CASE row[l].state = "absent"
    <3>1. UNCHANGED <<run, row>> BY <2>1 DEF FinishTarget, RetryOrFailTarget
    <3> QED BY <1>2, <3>1 DEF AnswerStep, AnswerInv, BeingCancelled, TargetsAnswered
  <2>2. CASE row[l].state # "absent"
    <3>1. run.status # "completed"
      <4>1. l \in Ledger BY <1>1, <2>2 DEF Ledger
      <4> QED BY <4>1 DEF TerminalInv, TerminalLedgerEmpty, Terminal
    <3>2. /\ run'.status = run.status
          /\ run'.failed \in {run.failed, run.failed + 1}
          /\ \A k \in Listings \ {l} : row'[k] = row[k]
      BY <2>2 DEF FinishTarget, RetryOrFailTarget, TypeOK, RunOK, RunType, RowsOK
    <3>3. run.failed \in Nat BY DEF TypeOK, RunOK, RunType
    <3>4. run'.failed = run.failed /\ row'[l].state = "absent" => evidence[l] # "none"
      <4>1. CASE FinishTarget(w)
        <5>1. worker[w].result = "failed" => run'.failed = run.failed + 1
          BY <2>2, <4>1 DEF FinishTarget, TypeOK, RunOK, RunType
        <5>2. worker[w].result \in {"succeeded", "unavailable", "failed"} BY <4>1 DEF FinishTarget
        <5>3. /\ worker[w].result = "succeeded" => evidence[l] = "parsed"
              /\ worker[w].result = "unavailable" => evidence[l] # "none"
          BY <1>1 DEF AnswerInv
        <5> HIDE DEF l
        <5> QED BY <3>3, <5>1, <5>2, <5>3
      <4>2. CASE RetryOrFailTarget(w)
        <5>1. \/ run' = [run EXCEPT !.failed = @ + 1]
              \/ row' = [row EXCEPT ![l] = [state |-> "pending", tries |-> @.tries + 1,
                                            next |-> "future", old |-> FALSE]]
          BY <2>2, <4>2 DEF RetryOrFailTarget
        <5>2. run'.failed = run.failed + 1 \/ row'[l].state = "pending"
          BY <1>1, <5>1 DEF TypeOK, RunOK, RunType, RowsOK
        <5> QED BY <3>3, <5>2
      <4> QED BY <4>1, <4>2
    <3> HIDE DEF l
    <3>5. run'.failed = 0 => run'.failed = run.failed BY <3>2, <3>3
    <3>6. run'.failed = 0 => TargetsAnswered
      BY <1>1, <3>2, <3>4, <3>5 DEF TargetsAnswered, TypeOK, EnvironmentOK
    <3>7. run.failed # 0 => run'.failed # 0 BY <3>2, <3>3
    <3> QED BY <1>2, <3>1, <3>2, <3>6, <3>7 DEF AnswerStep, BeingCancelled
  <2> QED BY <2>1, <2>2
<1> QED BY <1>3, <1>4, AnswersStand

(* The other steps of the detail jobs count nothing. *)
LEMMA DetailAnswers ==
  ASSUME TypeOK, TypeOK', TerminalInv, AnswerInv, NEW w \in Workers,
         \/ DetailStep(w) \/ DetailFails(w) \/ DetailDies(w)
         \/ \E l \in Listings : TakeDetail(w, l)
  PROVE  AnswerInv'
<1> USE DEF runVars, otherVars
<1>1. CASE \E r \in {"succeeded", "unavailable", "failed", "error", "blocked", "crawler_off"} :
             DetailFetch(w, r)
  BY <1>1, FetchAnswers
<1>2. CASE FinishTarget(w) \/ RetryOrFailTarget(w) BY <1>2, SettleAnswers
<1>3. CASE \/ DetailContext(w) \/ DetailRelease(w) \/ BlockBackfill(w) \/ PauseBackfill(w)
           \/ RemoveManagedJobs(w) \/ DetailQueuePump(w) \/ DetailComplete(w)
           \/ DetailFails(w) \/ DetailDies(w) \/ \E l \in Listings : TakeDetail(w, l)
  <2>1. evidence' = evidence /\ sighted' = sighted
    BY <1>3 DEF DetailContext, DetailRelease, BlockBackfill, PauseBackfill, RemoveManagedJobs,
                DetailQueuePump, DetailComplete, DetailFails, DetailDies, TakeDetail
  <2>2. AnswersKept BY <2>1, SameAnswers
  <2>3. AnswerStored'
    <3>1. \A v \in Workers : worker'[v].pc = "settle" =>
            /\ worker[v].pc = "settle" /\ worker'[v].result = worker[v].result
            /\ worker'[v].listing = worker[v].listing
      <4> USE DEF TypeOK, WorkersOK, WorkerType
      <4>1. CASE DetailContext(w) BY <4>1 DEF DetailContext, WorkerGoto
      <4>2. CASE DetailRelease(w) \/ BlockBackfill(w) \/ PauseBackfill(w) \/ DetailQueuePump(w)
        <5>1. PICK pc \in {"complete", "removeJobs", "pump"} : WorkerGoto(w, pc)
          BY <4>2 DEF DetailRelease, BlockBackfill, PauseBackfill, DetailQueuePump
        <5>2. worker'[w].pc = pc /\ \A v \in Workers \ {w} : worker'[v] = worker[v]
          BY <5>1 DEF WorkerGoto
        <5> QED BY <5>1, <5>2
      <4>3. CASE RemoveManagedJobs(w)
        BY <4>3, DisownedOutcome DEF RemoveManagedJobs
      <4>4. CASE DetailComplete(w)
        BY <4>4, DisownedOutcome, IdleWorkerType DEF DetailComplete
      <4>5. CASE DetailFails(w) \/ DetailDies(w)
        BY <4>5, IdleWorkerType DEF DetailFails, DetailDies
      <4>6. CASE \E l \in Listings : TakeDetail(w, l) BY <4>6 DEF TakeDetail
      <4> QED BY <1>3, <4>1, <4>2, <4>3, <4>4, <4>5, <4>6
    <3> QED BY <2>2, <3>1, StoredStands
  <2>4. run'.failed = run.failed
        /\ \/ run'.status = run.status
           \/ run.status \notin Terminal \cup {"cancelling"} /\ run'.status \in {"blocked", "paused"}
    BY <1>3 DEF DetailContext, DetailRelease, BlockBackfill, PauseBackfill, RemoveManagedJobs,
                DetailQueuePump, DetailComplete, DetailFails, DetailDies, TakeDetail,
                TypeOK, RunOK, RunType
  <2>5. \A l \in Listings : row'[l].state = "absent" => row[l].state = "absent"
    <3>1. CASE DetailRelease(w) \/ PauseBackfill(w)
      <4>1. Ledger' = Ledger
        BY <3>1, ReleasedLedger DEF DetailRelease, PauseBackfill, TypeOK, WorkersOK
      <4> QED BY <4>1 DEF Ledger
    <3>2. CASE BlockBackfill(w)
      <4>1. ASSUME NEW l \in Queued PROVE row'[l].state = "pending"
        <5>1. l \in Listings /\ row[l] \in RowType BY DEF Queued, TypeOK, RowsOK
        <5>2. row'[l] = [row[l] EXCEPT !.state = "pending", !.next = "null", !.old = FALSE]
          BY <3>2, <5>1 DEF BlockBackfill
        <5> QED BY <5>1, <5>2 DEF RowType
      <4>2. \A l \in Listings : l \notin Queued => row'[l] = row[l] BY <3>2 DEF BlockBackfill
      <4> QED BY <4>1, <4>2
    <3>3. CASE ~(DetailRelease(w) \/ PauseBackfill(w) \/ BlockBackfill(w))
      BY <1>3, <3>3 DEF DetailContext, RemoveManagedJobs, DetailQueuePump, DetailComplete,
                        DetailFails, DetailDies, TakeDetail
    <3> QED BY <3>1, <3>2, <3>3
  <2>6. TargetsAnswered BY <2>1, <2>5 DEF TargetsAnswered, TypeOK, EnvironmentOK
  <2>7. AnswerStep
    BY <2>2, <2>4, <2>6 DEF AnswerStep, AnswerInv, BeingCancelled, Terminal
  <2> QED BY <2>3, <2>7, AnswersStand
<1> QED BY <1>1, <1>2, <1>3 DEF DetailStep

(* Maintenance, the operator, time and the recovery of the lock. *)
LEMMA OutsideAnswers ==
  ASSUME TypeOK, TypeOK', AnswerInv,
         Maintenance \/ Operator \/ Time \/ RecoverDeadLock \/ RecoverSlowLock \/ UNCHANGED vars
  PROVE  AnswerInv'
<1> USE DEF runVars, otherVars, detailVars
<1>1. worker' = worker /\ evidence' = evidence /\ sighted' \subseteq sighted
  BY DEF Maintenance, MaintainRead, MaintainQueue, Operator, OperatorPause, OperatorCancel,
         OperatorResume, Command, SwitchCrawler, QueryDisabled, Time, CooldownEnds, RetryDue, DispatchAges,
         RecoverDeadLock, RecoverSlowLock, vars
<1>2. AnswersKept BY <1>1 DEF AnswersKept
<1>3. AnswerStored' BY <1>1, <1>2, StoredStands
<1>4. /\ run'.failed = run.failed
      /\ \/ run'.status = run.status
         \/ run.status \notin Terminal /\ run'.status = "cancelling"
         \/ ~BeingCancelled /\ run'.status = "paused"
  BY DEF Maintenance, MaintainRead, MaintainQueue, Operator, OperatorPause, OperatorCancel,
         OperatorResume, Command, SwitchCrawler, QueryDisabled, Time, CooldownEnds, RetryDue, DispatchAges,
         RecoverDeadLock, RecoverSlowLock, vars, TypeOK, RunOK, RunType, BeingCancelled
<1>5. \A l \in Listings : row'[l].state = row[l].state
  <2>1. row' = row \/ \E l \in Listings : RetryDue(l) \/ DispatchAges(l)
    BY DEF Maintenance, MaintainRead, MaintainQueue, Operator, OperatorPause, OperatorCancel,
           OperatorResume, Command, SwitchCrawler, QueryDisabled, Time, CooldownEnds, RecoverDeadLock,
           RecoverSlowLock, vars
  <2> QED BY <2>1 DEF RetryDue, DispatchAges, TypeOK, RowsOK, RowType
<1>6. TargetsAnswered
  BY <1>1, <1>5 DEF TargetsAnswered, TypeOK, EnvironmentOK
<1>7. AnswerStep BY <1>2, <1>4, <1>6 DEF AnswerStep, AnswerInv, BeingCancelled
<1> QED BY <1>3, <1>7, AnswersStand

(* A full backlog starts with everything a query shows. *)
LEMMA InitAnswers == InitCreated => AnswerInv
<1> SUFFICES ASSUME InitCreated PROVE AnswerInv OBVIOUS
<1>1. PICK S \in SeedSets : run = SeededRun(S) /\ row = SeededRows(S)
  BY DEF InitCreated, Init, CreatedRun
<1>2. TargetLimit = 0 => S = Listings BY DEF SeedSets, Unparsed, InitCreated, Init
<1>3. TargetLimit = 0 => \A l \in Listings : row[l].state # "absent"
  BY <1>1, <1>2 DEF SeededRows, NewRow, NoRow
<1>4. run.status # "completed" BY <1>1 DEF SeededRun
<1>5. \A w \in Workers : worker[w].pc # "settle" BY IdleWorkerType DEF InitCreated, Init
<1>6. sighted = Listings BY DEF InitCreated, Init
<1> QED BY <1>3, <1>4, <1>5, <1>6 DEF AnswerInv

(* A completed run over the full backlog has an answer for every listing   *)
(* that a query shows, if this version of the worker created it: what      *)
(* slow, lost or repeated executions left behind was tried again until it  *)
(* had one, or had failed and made the run partial.                        *)
THEOREM CompletedIsAnswered == SpecCreated => []CompletedIsComplete
<1> DEFINE Inv == TypeOK /\ TerminalInv /\ RouteInv /\ BalanceInv
<1>1. Inv /\ Inv' /\ AnswerInv /\ [Next]_vars => AnswerInv'
  <2> SUFFICES ASSUME Inv, Inv', AnswerInv, [Next]_vars PROVE AnswerInv' OBVIOUS
  <2>1. CASE Pump \/ Cancellation BY <2>1, ControlAnswers
  <2>2. CASE Detail BY <2>2, DetailAnswers DEF Detail
  <2>3. CASE Faults BY <2>3, ControlAnswers, DetailAnswers, OutsideAnswers DEF Faults
  <2>4. CASE RecoverDeadLock \/ Maintenance \/ Operator \/ Time \/ UNCHANGED vars
    BY <2>4, OutsideAnswers
  <2> QED BY <2>1, <2>2, <2>3, <2>4 DEF Next
<1>2. Inv /\ AnswerInv => CompletedIsComplete
  <2> SUFFICES ASSUME Inv, AnswerInv, run.status = "completed", TargetLimit = 0, NEW l \in sighted
               PROVE  evidence[l] # "none"
    BY DEF CompletedIsComplete
  <2>1. l \in Listings /\ Ledger = {}
    BY DEF TypeOK, EnvironmentOK, TerminalInv, TerminalLedgerEmpty, Terminal
  <2>2. row[l].state = "absent" BY <2>1 DEF Ledger
  <2>3. ~BeingCancelled /\ run.failed = 0 BY DEF BeingCancelled, AnswerInv
  <2> QED BY <2>2, <2>3 DEF AnswerInv
<1>3. SpecCreated => []Inv BY CreatedInvariant
<1>4. InitCreated => AnswerInv BY InitAnswers
<1> QED
  <2> HIDE DEF Inv
  <2> QED BY <1>1, <1>2, <1>3, <1>4, PTL DEF SpecCreated

-----------------------------------------------------------------------------
(* The refinement of BackfillLedger.                                       *)

Over == Terminal \cup {"cancelling"}

(* A step that accounts for nothing, drops nothing and ends nothing. *)
LedgerStill ==
  /\ CountersKept /\ Ledger' = Ledger
  /\ run'.status = run.status \/ (run.status \notin Over /\ run'.status \notin Over)

(* Such a step is none of the ledger's. *)
LEMMA LedgerStutter ==
  ASSUME LedgerStill
  PROVE  UNCHANGED Contract!vars
BY DEF LedgerStill, CountersKept, Over, Contract!vars

(* The ledger counts as this module does. *)
LEMMA SameSize == \A S : Contract!Cardinality(S) = Cardinality(S)
BY DEF Contract!Cardinality, Cardinality, Contract!IsFiniteSet, IsFiniteSet

(* A target that leaves a run which is not over is accounted for. *)
LEMMA LedgerAccounts ==
  ASSUME TypeOK, TerminalInv, run'.status = run.status, run'.target = run.target,
         run'.cancelled = run.cancelled,
         NEW S \in SUBSET Ledger, S # {}, Ledger' = Ledger \ S,
         NEW outcome \in {"succeeded", "unavailable", "failed"},
         run'.succeeded = IF outcome = "succeeded" THEN run.succeeded + Cardinality(S) ELSE run.succeeded,
         run'.unavailable = IF outcome = "unavailable" THEN run.unavailable + Cardinality(S) ELSE run.unavailable,
         run'.failed = IF outcome = "failed" THEN run.failed + Cardinality(S) ELSE run.failed
  PROVE  Contract!Next
<1> DEFINE phase == IF run.status \in Terminal \cup {"cancelling"} THEN run.status ELSE "open"
           tally == [succeeded |-> run.succeeded, unavailable |-> run.unavailable,
                     failed |-> run.failed, cancelled |-> run.cancelled]
           after == [succeeded |-> run'.succeeded, unavailable |-> run'.unavailable,
                     failed |-> run'.failed, cancelled |-> run'.cancelled]
<1>1. run.status \notin Terminal BY DEF TerminalInv, TerminalLedgerEmpty
<1>2. phase \in {"open", "cancelling"} BY <1>1
<1>3. after = [tally EXCEPT ![outcome] = @ + Cardinality(S)]
  <2>1. CASE outcome = "succeeded" BY <2>1
  <2>2. CASE outcome = "unavailable" BY <2>2
  <2>3. CASE outcome = "failed" BY <2>3
  <2> QED BY <2>1, <2>2, <2>3
<1>4. Contract!Account(S, outcome) BY <1>2, <1>3, SameSize DEF Contract!Account
<1> QED BY <1>4 DEF Contract!Next, Contract!Outcomes

(* The steps that leave the ledger alone, or only change how a run is      *)
(* dispatched.                                                             *)
LEMMA QuietLedger ==
  ASSUME TypeOK, RouteInv,
         \/ TakePump \/ PumpRead \/ PumpLedger \/ PumpSeed \/ PumpCount \/ PumpSelect
         \/ PumpDispatch \/ PumpRequeue \/ PumpDispatchFails \/ ControlFails
         \/ PumpUnblock \/ PumpRecover \/ PumpUndo \/ TakeCancel \/ CancelJobs
         \/ \E l \in Listings : PumpClaim(l)
  PROVE  LedgerStill
<1> USE DEF TypeOK, RunOK, RunType, LedgerStill, CountersKept
<1>1. CASE \/ TakePump \/ PumpRead \/ PumpLedger \/ PumpSeed \/ PumpCount \/ PumpSelect
           \/ PumpDispatch \/ PumpRequeue \/ PumpDispatchFails \/ ControlFails
           \/ TakeCancel \/ CancelJobs
  <2>1. UNCHANGED <<run, row>>
    BY <1>1 DEF TakePump, PumpRead, PumpLedger, PumpSeed, PumpCount, PumpSelect, PumpDispatch,
                PumpRequeue, PumpDispatchFails, ControlFails, TakeCancel, CancelJobs
  <2> QED BY <2>1 DEF Ledger
<1>2. CASE PumpUnblock
  <2>1. row' = row /\ (run' = run \/ /\ run.status = "blocked"
                                     /\ run' = [run EXCEPT !.status = "running", !.cooling = FALSE])
    BY <1>2 DEF PumpUnblock
  <2> QED BY <2>1 DEF Ledger, Over, Terminal
<1>3. CASE PumpRecover
  <2>1. \A l \in Listings : l \notin Queued => row'[l] = row[l] BY <1>3 DEF PumpRecover
  <2>2. \A l \in Queued : row[l].state = "queued" /\ row'[l].state \in {"pending", "queued"}
    BY <1>3 DEF PumpRecover, Queued, RowsOK, RowType
  <2>3. Ledger' = Ledger BY <2>1, <2>2, SameLedger
  <2> QED BY <1>3, <2>3 DEF PumpRecover
<1>4. CASE PumpUndo
  <2>1. Ledger' = Ledger BY <1>4, ReleasedLedger DEF PumpUndo, ControlOK
  <2> QED BY <1>4, <2>1 DEF PumpUndo
<1>5. ASSUME NEW l \in Listings, PumpClaim(l) PROVE LedgerStill
  <2>1. CASE row' = row BY <1>5, <2>1 DEF PumpClaim, Ledger
  <2>2. CASE row' # row
    <3>1. row[l].state = "pending" /\ row' = [row EXCEPT ![l].state = "queued", ![l].old = FALSE]
      BY <1>5, <2>2 DEF PumpClaim
    <3>2. row'[l].state = "queued" /\ \A k \in Listings \ {l} : row'[k] = row[k]
      BY <3>1 DEF RowsOK, RowType
    <3>3. Ledger' = Ledger BY <3>1, <3>2, SameLedger
    <3> QED BY <1>5, <3>3 DEF PumpClaim
  <2> QED BY <2>1, <2>2
<1> QED BY <1>1, <1>2, <1>3, <1>4, <1>5

(* The ledger of a run that is being cancelled is dropped; of one that is  *)
(* over there is nothing to drop.                                          *)
LEMMA LedgerDrops ==
  ASSUME TerminalInv, BeingCancelled, run' = run, Ledger' = {}
  PROVE  Contract!Next \/ UNCHANGED Contract!vars
<1>1. CASE run.status = "cancelling"
  <2>1. Contract!Drop BY <1>1 DEF Contract!Drop
  <2> QED BY <2>1 DEF Contract!Next
<1>2. CASE run.status = "cancelled"
  <2>1. Ledger = {} BY <1>2 DEF TerminalInv, TerminalLedgerEmpty, Terminal
  <2>2. LedgerStill BY <2>1 DEF LedgerStill, CountersKept
  <2> QED BY <2>2, LedgerStutter
<1> QED BY <1>1, <1>2 DEF BeingCancelled

(* The control queue keeps the promise. *)
LEMMA ControlLedger ==
  ASSUME TypeOK, TypeOK', TerminalInv, RouteInv, BalanceInv,
         Pump \/ Cancellation \/ PumpDispatchFails \/ ControlFails
  PROVE  Contract!Next \/ UNCHANGED Contract!vars
<1>1. CASE Resume
  <2>1. CASE ctl.task = "rebuild"
    <3>1. BeingCancelled BY <2>1 DEF RouteInv
    <3>2. run' = run BY <1>1, <2>1, <3>1 DEF Resume, Seedable, BeingCancelled
    <3>3. Ledger' = {} BY <1>1, <2>1 DEF Resume, Ledger, NoRow
    <3> QED BY <3>1, <3>2, <3>3, LedgerDrops
  <2>2. CASE ctl.task # "rebuild"
    <3>1. row' = row /\ (run' = run \/ /\ run.status \in Seedable
                                       /\ run' = [run EXCEPT !.status = "running", !.cooling = FALSE])
      BY <1>1, <2>2 DEF Resume
    <3>2. LedgerStill
      BY <3>1 DEF LedgerStill, CountersKept, Ledger, Over, Terminal, Seedable, TypeOK, RunOK, RunType
    <3> QED BY <3>2, LedgerStutter
  <2> QED BY <2>1, <2>2
<1>2. CASE PumpSeedCommit BY <1>2 DEF PumpSeedCommit, RouteInv
<1>3. CASE PumpPrune
  <2> DEFINE pruned == Ledger \ sighted
  <2>1. Ledger' = Ledger \ pruned BY <1>3 DEF PumpPrune, Ledger, NoRow
  <2>2. run' = [run EXCEPT !.unavailable = @ + Cardinality(pruned)] BY <1>3 DEF PumpPrune
  <2>3. pruned \in SUBSET Ledger OBVIOUS
  <2> HIDE DEF pruned
  <2>4. CASE pruned = {}
    <3>1. Cardinality(pruned) = 0 BY <2>4, FS_EmptySet
    <3>2. LedgerStill
      BY <2>1, <2>2, <2>4, <3>1 DEF LedgerStill, CountersKept, TypeOK, RunOK, RunType
    <3> QED BY <3>2, LedgerStutter
  <2>5. CASE pruned # {}
    <3>1. /\ run'.status = run.status /\ run'.target = run.target
          /\ run'.cancelled = run.cancelled /\ run'.succeeded = run.succeeded
          /\ run'.unavailable = run.unavailable + Cardinality(pruned) /\ run'.failed = run.failed
      BY <2>2 DEF TypeOK, RunOK, RunType
    <3>2. Contract!Next BY <2>1, <2>3, <2>5, <3>1, LedgerAccounts
    <3> QED BY <3>2
  <2> QED BY <2>4, <2>5
<1>4. CASE PumpFinalize
  <2>1. CASE run' = run
    <3>1. LedgerStill BY <1>4, <2>1 DEF PumpFinalize, LedgerStill, CountersKept, Ledger
    <3> QED BY <3>1, LedgerStutter
  <2>2. CASE run' # run
    <3>1. /\ run.status \in {"planned", "running", "blocked"} /\ Ledger = {} /\ Ledger' = {}
          /\ run' = [run EXCEPT !.status = IF run.failed = 0 THEN "completed" ELSE "partial",
                                !.cooling = FALSE]
      BY <1>4, <2>2 DEF PumpFinalize, Ledger
    <3>2. /\ CountersKept
          /\ run'.status = IF run.failed = 0 THEN "completed" ELSE "partial"
      BY <3>1 DEF CountersKept, TypeOK, RunOK, RunType
    <3>3. Contract!Finish BY <3>1, <3>2 DEF CountersKept, Terminal, Contract!Finish
    <3> QED BY <3>3 DEF Contract!Next
  <2> QED BY <2>1, <2>2
<1>5. CASE CancelLedger
  <2>1. BeingCancelled BY <1>5 DEF CancelLedger, RouteInv
  <2>2. run' = run /\ Ledger' = {} BY <1>5 DEF CancelLedger, Ledger, NoRow
  <2> QED BY <2>1, <2>2, LedgerDrops
<1>6. CASE CancelMark
  <2>1. CASE run.status # "cancelling"
    <3>1. LedgerStill BY <1>6, <2>1 DEF CancelMark, LedgerStill, CountersKept, Ledger
    <3> QED BY <3>1, LedgerStutter
  <2>2. CASE run.status = "cancelling"
    <3>1. run' = [run EXCEPT !.status = "cancelled", !.cooling = FALSE, !.cancelled = @ + ctl.removed]
      BY <1>6, <2>2 DEF CancelMark
    <3>2. /\ run'.status = "cancelled" /\ run'.target = run.target
          /\ run'.cancelled = run.cancelled + ctl.removed
          /\ run'.succeeded = run.succeeded /\ run'.unavailable = run.unavailable
          /\ run'.failed = run.failed
      BY <3>1 DEF TypeOK, RunOK, RunType
    <3>3. Ledger = {} /\ Ledger' = {} /\ ctl.pc = "cancelMark"
      BY <1>6 DEF CancelMark, TerminalInv, Ledger
    <3>4. ctl.removed \in 0 .. run.target - Settled
      <4>1. Cardinality(Ledger) = 0 BY <3>3, FS_EmptySet
      <4>2. Settled + ctl.removed <= run.target BY <3>3, <4>1, Sizes DEF BalanceInv, Moving
      <4>3. ctl.removed \in Nat BY DEF TypeOK, ControlOK, ControlType
      <4> QED BY <4>2, <4>3, Sizes
    <3>5. Contract!Withdraw
      <4> DEFINE tally == [succeeded |-> run.succeeded, unavailable |-> run.unavailable,
                           failed |-> run.failed, cancelled |-> run.cancelled]
                 after == [succeeded |-> run'.succeeded, unavailable |-> run'.unavailable,
                           failed |-> run'.failed, cancelled |-> run'.cancelled]
      <4>1. after = [tally EXCEPT !.cancelled = @ + ctl.removed] BY <3>2
      <4>2. Contract!Accounted = Settled BY DEF Contract!Accounted, Settled
      <4> QED BY <2>2, <3>2, <3>3, <3>4, <4>1, <4>2 DEF Contract!Withdraw, Terminal
    <3> QED BY <3>5 DEF Contract!Next
  <2> QED BY <2>1, <2>2
<1> QED BY <1>1, <1>2, <1>3, <1>4, <1>5, <1>6, QuietLedger, LedgerStutter DEF Pump, Cancellation

(* A detail job that counts an outcome takes its target out of the ledger. *)
LEMMA SettleLedger ==
  ASSUME TypeOK, TypeOK', TerminalInv, NEW w \in Workers, FinishTarget(w) \/ RetryOrFailTarget(w)
  PROVE  Contract!Next \/ UNCHANGED Contract!vars
<1> USE DEF runVars, TypeOK, RunOK, RunType
<1> DEFINE l == worker[w].listing
<1>1. l \in Listings BY DEF FinishTarget, RetryOrFailTarget, WorkersOK
<1>2. CASE run' = run /\ (row' = row \/ /\ row[l].state # "absent" /\ row'[l].state = "pending"
                                        /\ \A k \in Listings \ {l} : row'[k] = row[k])
  <2> HIDE DEF l
  <2>1. \A k \in Listings : row'[k].state = "absent" <=> row[k].state = "absent" BY <1>1, <1>2
  <2>2. LedgerStill BY <1>2, <2>1, SameLedger DEF LedgerStill, CountersKept
  <2> QED BY <2>2, LedgerStutter
<1>3. ASSUME row[l].state # "absent", row' = [row EXCEPT ![l] = NoRow],
             NEW outcome \in {"succeeded", "unavailable", "failed"},
             run' = [run EXCEPT !.succeeded   = IF outcome = "succeeded" THEN @ + 1 ELSE @,
                                !.unavailable = IF outcome = "unavailable" THEN @ + 1 ELSE @,
                                !.failed      = IF outcome = "failed" THEN @ + 1 ELSE @]
      PROVE  Contract!Next
  <2> DEFINE S == {l}
  <2>1. S \in SUBSET Ledger /\ S # {} BY <1>1, <1>3 DEF Ledger
  <2>2. Ledger' = Ledger \ S BY <1>1, <1>3 DEF Ledger, NoRow, RowsOK
  <2>3. Cardinality(S) = 1 BY FS_Singleton
  <2>4. /\ run'.status = run.status /\ run'.target = run.target /\ run'.cancelled = run.cancelled
        /\ run'.succeeded = IF outcome = "succeeded" THEN run.succeeded + 1 ELSE run.succeeded
        /\ run'.unavailable = IF outcome = "unavailable" THEN run.unavailable + 1 ELSE run.unavailable
        /\ run'.failed = IF outcome = "failed" THEN run.failed + 1 ELSE run.failed
    BY <1>3
  <2> HIDE DEF S, l
  <2> QED BY <2>1, <2>2, <2>3, <2>4, LedgerAccounts
<1>4. CASE FinishTarget(w)
  <2>1. worker[w].result \in {"succeeded", "unavailable", "failed"} BY <1>4 DEF FinishTarget
  <2>2. CASE row[l].state = "absent" BY <1>2, <1>4, <2>2 DEF FinishTarget
  <2>3. CASE row[l].state # "absent"
    <3>1. /\ row' = [row EXCEPT ![l] = NoRow]
          /\ run' = [run EXCEPT
               !.succeeded   = IF worker[w].result = "succeeded" THEN @ + 1 ELSE @,
               !.unavailable = IF worker[w].result = "unavailable" THEN @ + 1 ELSE @,
               !.failed      = IF worker[w].result = "failed" THEN @ + 1 ELSE @]
      BY <1>4, <2>3 DEF FinishTarget
    <3> HIDE DEF l
    <3> QED BY <1>3, <2>1, <2>3, <3>1
  <2> QED BY <2>2, <2>3
<1>5. CASE RetryOrFailTarget(w)
  <2>1. CASE row[l].state = "absent" BY <1>2, <1>5, <2>1 DEF RetryOrFailTarget
  <2>2. CASE row[l].state # "absent" /\ row[l].tries + 1 >= MaxAttempts
    <3>1. row' = [row EXCEPT ![l] = NoRow] /\ run' = [run EXCEPT !.failed = @ + 1]
      BY <1>5, <2>2 DEF RetryOrFailTarget
    <3>2. run' = [run EXCEPT !.succeeded   = IF "failed" = "succeeded" THEN @ + 1 ELSE @,
                             !.unavailable = IF "failed" = "unavailable" THEN @ + 1 ELSE @,
                             !.failed      = IF "failed" = "failed" THEN @ + 1 ELSE @]
      BY <3>1
    <3> HIDE DEF l
    <3> QED BY <1>3, <2>2, <3>1, <3>2
  <2>3. CASE row[l].state # "absent" /\ ~(row[l].tries + 1 >= MaxAttempts)
    <3>1. run' = run /\ row' = [row EXCEPT ![l] = [state |-> "pending", tries |-> @.tries + 1,
                                                   next |-> "future", old |-> FALSE]]
      BY <1>5, <2>3 DEF RetryOrFailTarget
    <3>2. row'[l].state = "pending" /\ \A k \in Listings \ {l} : row'[k] = row[k]
      BY <1>1, <3>1 DEF RowsOK
    <3> QED BY <1>2, <2>3, <3>1, <3>2
  <2> QED BY <2>1, <2>2, <2>3
<1> QED BY <1>4, <1>5

(* The other steps of the detail jobs. *)
LEMMA DetailLedger ==
  ASSUME TypeOK, TypeOK', TerminalInv, NEW w \in Workers,
         \/ DetailStep(w) \/ DetailFails(w) \/ DetailDies(w)
         \/ \E l \in Listings : TakeDetail(w, l)
  PROVE  Contract!Next \/ UNCHANGED Contract!vars
<1> USE DEF runVars, TypeOK, RunOK, RunType, LedgerStill, CountersKept
<1>1. CASE FinishTarget(w) \/ RetryOrFailTarget(w) BY <1>1, SettleLedger
<1>2. CASE \/ DetailContext(w) \/ RemoveManagedJobs(w) \/ DetailQueuePump(w)
           \/ DetailComplete(w) \/ DetailFails(w) \/ DetailDies(w)
           \/ \E l \in Listings : TakeDetail(w, l)
           \/ \E r \in {"succeeded", "unavailable", "failed", "error", "blocked",
                        "crawler_off"} : DetailFetch(w, r)
  <2>1. UNCHANGED <<run, row>>
    BY <1>2 DEF DetailContext, RemoveManagedJobs, DetailQueuePump, DetailComplete, DetailFails,
                DetailDies, TakeDetail, DetailFetch
  <2>2. LedgerStill BY <2>1 DEF Ledger
  <2> QED BY <2>2, LedgerStutter
<1>3. CASE DetailRelease(w) \/ PauseBackfill(w)
  <2>1. Ledger' = Ledger BY <1>3, ReleasedLedger DEF DetailRelease, PauseBackfill, WorkersOK
  <2>2. LedgerStill BY <1>3, <2>1 DEF DetailRelease, PauseBackfill, Over, Terminal
  <2> QED BY <2>2, LedgerStutter
<1>4. CASE BlockBackfill(w)
  <2>1. \A l \in Listings : l \notin Queued => row'[l] = row[l] BY <1>4 DEF BlockBackfill
  <2>2. ASSUME NEW l \in Queued PROVE row[l].state = "queued" /\ row'[l].state = "pending"
    <3>1. l \in Listings /\ row[l] \in RowType /\ row[l].state = "queued" BY DEF Queued, RowsOK
    <3>2. row'[l] = [row[l] EXCEPT !.state = "pending", !.next = "null", !.old = FALSE]
      BY <1>4, <3>1 DEF BlockBackfill
    <3> QED BY <3>1, <3>2 DEF RowType
  <2>3. Ledger' = Ledger BY <2>1, <2>2, SameLedger
  <2>4. LedgerStill BY <1>4, <2>3 DEF BlockBackfill, Over, Terminal
  <2> QED BY <2>4, LedgerStutter
<1> QED BY <1>1, <1>2, <1>3, <1>4 DEF DetailStep

(* Only the operator cancels; maintenance and time account for nothing. *)
LEMMA OutsideLedger ==
  ASSUME TypeOK, TypeOK',
         Maintenance \/ Operator \/ Time \/ RecoverDeadLock \/ RecoverSlowLock \/ UNCHANGED vars
  PROVE  Contract!Next \/ UNCHANGED Contract!vars
<1> USE DEF runVars, TypeOK, RunOK, RunType, LedgerStill, CountersKept
<1>1. CASE OperatorCancel
  <2>1. /\ row' = row /\ run.status \notin Terminal
        /\ run' = [run EXCEPT !.status = "cancelling", !.cooling = FALSE]
    BY <1>1 DEF OperatorCancel, Command
  <2>2. Ledger' = Ledger /\ CountersKept /\ run'.status = "cancelling" BY <2>1 DEF Ledger
  <2>3. CASE run.status = "cancelling"
    <3>1. LedgerStill BY <2>2, <2>3
    <3> QED BY <3>1, LedgerStutter
  <2>4. CASE run.status # "cancelling"
    <3>1. Contract!Cancel BY <2>1, <2>2, <2>4 DEF Contract!Cancel, Terminal
    <3> QED BY <3>1 DEF Contract!Next
  <2> QED BY <2>3, <2>4
<1>2. CASE \/ Maintenance \/ OperatorPause \/ OperatorResume \/ CooldownEnds
           \/ RecoverDeadLock \/ RecoverSlowLock \/ UNCHANGED vars
           \/ SwitchCrawler \/ \E l \in Listings : QueryDisabled(l)
  <2>1. row' = row /\ CountersKept
        /\ (run'.status = run.status \/ /\ run.status \in {"planned", "running", "queued", "blocked"}
                                        /\ run'.status = "paused")
    BY <1>2 DEF Maintenance, MaintainRead, MaintainQueue, OperatorPause, OperatorResume, Command,
                CooldownEnds, RecoverDeadLock, RecoverSlowLock, SwitchCrawler, QueryDisabled, vars
  <2>2. LedgerStill BY <2>1 DEF Ledger, Over, Terminal
  <2> QED BY <2>2, LedgerStutter
<1>3. ASSUME NEW l \in Listings, RetryDue(l) \/ DispatchAges(l)
      PROVE  Contract!Next \/ UNCHANGED Contract!vars
  <2>1. run' = run BY <1>3 DEF RetryDue, DispatchAges
  <2>2. row' = [row EXCEPT ![l].next = "past"] \/ row' = [row EXCEPT ![l].old = TRUE]
    BY <1>3 DEF RetryDue, DispatchAges
  <2>3. row'[l].state = row[l].state /\ \A k \in Listings \ {l} : row'[k] = row[k]
    BY <2>2 DEF RowsOK, RowType
  <2>4. LedgerStill BY <2>1, <2>3, SameLedger
  <2> QED BY <2>4, LedgerStutter
<1> QED BY <1>1, <1>2, <1>3 DEF Operator, Time

(* Every step of a created run is one of its ledger, or none of its. *)
LEMMA LedgerStep ==
  TypeOK /\ TypeOK' /\ TerminalInv /\ RouteInv /\ BalanceInv /\ [Next]_vars
    => [Contract!Next]_(Contract!vars)
<1> SUFFICES ASSUME TypeOK, TypeOK', TerminalInv, RouteInv, BalanceInv, [Next]_vars
             PROVE  Contract!Next \/ UNCHANGED Contract!vars
  OBVIOUS
<1>1. CASE Pump \/ Cancellation BY <1>1, ControlLedger
<1>2. CASE Detail BY <1>2, DetailLedger DEF Detail
<1>3. CASE Faults BY <1>3, ControlLedger, DetailLedger, OutsideLedger DEF Faults
<1>4. CASE RecoverDeadLock \/ Maintenance \/ Operator \/ Time \/ UNCHANGED vars
  BY <1>4, OutsideLedger
<1> QED BY <1>1, <1>2, <1>3, <1>4 DEF Next

(* A created run starts as its ledger does. *)
LEMMA LedgerInit == InitCreated => Contract!Init
<1> SUFFICES ASSUME InitCreated PROVE Contract!Init OBVIOUS
<1>1. PICK S \in SeedSets : run = SeededRun(S) /\ row = SeededRows(S)
  BY DEF InitCreated, Init, CreatedRun
<1>2. S \in SUBSET Listings BY DEF SeedSets, Unparsed, InitCreated, Init
<1>3. Ledger = S BY <1>1, <1>2 DEF Ledger, SeededRows, NewRow, NoRow
<1>4. Cardinality(S) \in Nat /\ Cardinality(Unparsed \ sighted) \in Nat
  BY <1>2, SubsetSize DEF Unparsed
<1>5. /\ run.status = "running" /\ run.succeeded = 0 /\ run.failed = 0 /\ run.cancelled = 0
      /\ run.target \in Nat /\ Cardinality(S) <= run.target
      /\ run.unavailable = run.target - Cardinality(S)
  BY <1>1, <1>4 DEF SeededRun
<1> QED BY <1>2, <1>3, <1>5, SameSize DEF Contract!Init, Terminal

(* A created run keeps the promise of BackfillLedger: however its pumps,   *)
(* detail jobs, blocks, pauses and failures interleave, a target is        *)
(* accounted for once and never comes back, a run ends by itself only with *)
(* nothing pending, and a cancellation is final.                           *)
THEOREM BackfillKeepsLedger == SpecCreated => ImplementsLedger
<1>1. TypeOK /\ TerminalInv /\ RouteInv /\ BalanceInv
        /\ (TypeOK /\ TerminalInv /\ RouteInv /\ BalanceInv)' /\ [Next]_vars
        => [Contract!Next]_(Contract!vars)
  BY LedgerStep
<1> QED BY <1>1, LedgerInit, CreatedInvariant, PTL DEF SpecCreated, ImplementsLedger, Contract!Spec

-----------------------------------------------------------------------------
(* The batch: only the pump dispatches, and it has counted what is         *)
(* dispatched before; everybody else only takes back.                      *)

(* The sizes of the batch. *)
LEMMA BatchSizes ==
  ASSUME TypeOK
  PROVE  /\ IsFiniteSet(Queued) /\ Cardinality(Queued) \in Nat
         /\ IsFiniteSet(ctl.todo) /\ Cardinality(ctl.todo) \in Nat
         /\ ctl.room \in Nat /\ Room \in Nat
<1>1. Queued \in SUBSET Listings BY DEF Queued
<1>2. ctl.todo \in SUBSET Listings /\ ctl.room \in Nat BY DEF TypeOK, ControlOK, ControlType
<1>3. Cardinality(ctl.todo) \in Nat BY <1>2, SubsetSize
<1> QED BY <1>1, <1>2, <1>3, SubsetSize DEF Room

(* A step that dispatches nothing and claims no room keeps the batch. *)
LEMMA BatchStep ==
  ASSUME TypeOK, BatchInv, Queued' \subseteq Queued, Room' \in Nat, Room' <= Room
  PROVE  BatchInv'
<1>1. Cardinality(Queued') <= Cardinality(Queued) /\ Cardinality(Queued') \in Nat
  <2>1. IsFiniteSet(Queued) BY BatchSizes
  <2>2. IsFiniteSet(Queued') BY <2>1, FS_Subset
  <2> QED BY <2>1, <2>2, FS_Subset, FS_CardinalityType
<1> QED BY <1>1, BatchSizes, BackfillConstants DEF BatchInv

(* A target that was not dispatched is not dispatched now. *)
LEMMA NoDispatch ==
  ASSUME \A l \in Listings : row'[l] = row[l] \/ row'[l].state # "queued"
  PROVE  Queued' \subseteq Queued
BY DEF Queued

(* The control queue outside of the dispatching. *)
LEMMA NoRoom ==
  ASSUME TypeOK, BatchInv, ctl'.pc \notin {"select", "claim", "dispatch"},
         \A l \in Listings : row'[l] = row[l] \/ row'[l].state # "queued"
  PROVE  BatchInv'
<1>1. Room' = 0 BY DEF Room
<1> QED BY <1>1, NoDispatch, BatchStep, BatchSizes

(* A step of somebody else. *)
LEMMA OtherRoom ==
  ASSUME TypeOK, BatchInv, ctl' = ctl,
         \A l \in Listings : row'[l] = row[l] \/ row'[l].state # "queued"
  PROVE  BatchInv'
<1>1. Room' = Room BY DEF Room
<1> QED BY <1>1, NoDispatch, BatchStep, BatchSizes

(* A released target is pending. *)
LEMMA ReleasedBatch ==
  ASSUME TypeOK, NEW l \in Listings, row' = Released(l)
  PROVE  \A k \in Listings : row'[k] = row[k] \/ row'[k].state # "queued"
<1>1. CASE row[l].state = "absent" BY <1>1 DEF Released
<1>2. CASE row[l].state # "absent"
  <2>1. row' = [row EXCEPT ![l].state = "pending", ![l].old = FALSE] BY <1>2 DEF Released
  <2>2. row'[l].state = "pending" /\ \A k \in Listings \ {l} : row'[k] = row[k]
    BY <2>1 DEF TypeOK, RowsOK, RowType
  <2> QED BY <2>2
<1> QED BY <1>1, <1>2

(* The pump before it counts, and after it has dispatched. *)
LEMMA PumpBatch ==
  ASSUME TypeOK, BatchInv,
         \/ TakePump \/ Resume \/ PumpRead \/ PumpLedger \/ PumpSeed \/ PumpSeedCommit
         \/ PumpUnblock \/ PumpRecover \/ PumpPrune \/ PumpUndo \/ PumpFinalize
         \/ PumpRequeue \/ PumpDispatchFails \/ ControlFails
         \/ TakeCancel \/ CancelJobs \/ CancelLedger \/ CancelMark
  PROVE  BatchInv'
<1>1. ctl'.pc \notin {"select", "claim", "dispatch"}
  <2> USE IdleRoute DEF Done, Goto, TypeOK, ControlOK, ControlType, ControlJobFails
  <2>1. CASE TakePump BY <2>1 DEF TakePump, IdleControl
  <2>2. CASE Resume BY <2>2 DEF Resume
  <2>3. CASE PumpRead BY <2>3 DEF PumpRead
  <2>4. CASE PumpLedger BY <2>4 DEF PumpLedger
  <2>5. CASE PumpSeed BY <2>5 DEF PumpSeed
  <2>6. CASE PumpSeedCommit BY <2>6 DEF PumpSeedCommit
  <2>7. CASE PumpUnblock BY <2>7 DEF PumpUnblock
  <2>8. CASE PumpRecover BY <2>8 DEF PumpRecover
  <2>9. CASE PumpPrune BY <2>9 DEF PumpPrune
  <2>10. CASE PumpUndo BY <2>10 DEF PumpUndo
  <2>11. CASE PumpFinalize BY <2>11 DEF PumpFinalize
  <2>12. CASE PumpRequeue BY <2>12 DEF PumpRequeue
  <2>13. CASE PumpDispatchFails BY <2>13 DEF PumpDispatchFails
  <2>14. CASE ControlFails BY <2>14 DEF ControlFails
  <2>15. CASE TakeCancel BY <2>15 DEF TakeCancel, IdleControl
  <2>16. CASE CancelJobs
    <3>1. Done \/ Goto("cancelLedger") BY <2>16 DEF CancelJobs
    <3> QED BY <3>1
  <2>17. CASE CancelLedger BY <2>17 DEF CancelLedger
  <2>18. CASE CancelMark BY <2>18 DEF CancelMark
  <2> QED BY <2>1, <2>2, <2>3, <2>4, <2>5, <2>6, <2>7, <2>8, <2>9, <2>10, <2>11, <2>12,
             <2>13, <2>14, <2>15, <2>16, <2>17, <2>18
<1>2. \A l \in Listings : row'[l] = row[l] \/ row'[l].state # "queued"
  <2>1. CASE PumpUndo
    BY <2>1, ReleasedBatch DEF PumpUndo, TypeOK, ControlOK
  <2>2. CASE PumpSeedCommit
    BY <2>2 DEF PumpSeedCommit, SeededRows, NewRow, NoRow
  <2>3. CASE Resume \/ PumpPrune \/ CancelLedger
    BY <2>3 DEF Resume, PumpPrune, CancelLedger, NoRow
  <2>4. CASE PumpRecover
    <3>1. \A l \in Listings : l \notin Queued => row'[l] = row[l] BY <2>4 DEF PumpRecover
    <3>2. \A l \in Queued : row'[l] = row[l] \/ row'[l].state = "pending"
      BY <2>4 DEF PumpRecover, Queued, TypeOK, RowsOK, RowType
    <3> QED BY <3>1, <3>2
  <2>5. CASE \/ TakePump \/ PumpRead \/ PumpLedger \/ PumpSeed \/ PumpUnblock \/ PumpFinalize
             \/ PumpRequeue \/ PumpDispatchFails \/ ControlFails
             \/ TakeCancel \/ CancelJobs \/ CancelMark
    <3>1. row' = row
      BY <2>5 DEF TakePump, PumpRead, PumpLedger, PumpSeed, PumpUnblock, PumpFinalize,
                  PumpRequeue, PumpDispatchFails, ControlFails, TakeCancel, CancelJobs, CancelMark
    <3> QED BY <3>1
  <2> QED BY <2>1, <2>2, <2>3, <2>4, <2>5
<1> QED BY <1>1, <1>2, NoRoom

(* The room is what the dispatched targets leave of the batch. *)
LEMMA PumpCountBatch ==
  ASSUME TypeOK, BatchInv, PumpCount
  PROVE  BatchInv'
<1> DEFINE room == Capacity(Cardinality(Queued), ctl.probe)
<1>1. row' = row BY DEF PumpCount
<1>2. Queued' = Queued BY <1>1 DEF Queued
<1>3. room \in Nat /\ Cardinality(Queued) + room <= BatchSize
  <2>1. Cardinality(Queued) \in Nat /\ Cardinality(Queued) <= BatchSize
    BY BatchSizes, BackfillConstants DEF BatchInv
  <2>2. room \in {IF Cardinality(Queued) < BatchSize THEN BatchSize - Cardinality(Queued) ELSE 0, 1}
        /\ room <= (IF Cardinality(Queued) < BatchSize THEN BatchSize - Cardinality(Queued) ELSE 0)
    BY <2>1, BackfillConstants DEF Capacity
  <2> HIDE DEF room
  <2> QED BY <2>1, <2>2, BackfillConstants
<1>4. \/ ctl'.pc \notin {"select", "claim", "dispatch"}
      \/ ctl'.pc = "select" /\ ctl'.room = room
  BY IdleRoute DEF PumpCount, Done, Goto, TypeOK, ControlOK, ControlType
<1> HIDE DEF room
<1>5. Room' = 0 \/ Room' = room BY <1>4 DEF Room
<1> QED BY <1>2, <1>3, <1>5, BatchSizes, BackfillConstants DEF BatchInv

(* The pump selects no more than its room. *)
LEMMA PumpSelectBatch ==
  ASSUME TypeOK, BatchInv, PumpSelect
  PROVE  BatchInv'
<1>1. row' = row BY DEF PumpSelect
<1>2. \/ ctl'.pc \notin {"select", "claim", "dispatch"}
      \/ \E S \in SUBSET Listings :
           /\ Cardinality(S) <= ctl.room
           /\ ctl' = [ctl EXCEPT !.pc = "claim", !.todo = S, !.room = 0]
  <2> DEFINE due == {l \in Ledger \cap sighted : row[l].state = "pending" /\ row[l].next # "future"}
  <2>1. due \in SUBSET Listings BY DEF Ledger
  <2>2. \/ Goto("requeue") \/ Done
        \/ \E S \in SUBSET due :
             /\ Cardinality(S) = IF Cardinality(due) < ctl.room THEN Cardinality(due) ELSE ctl.room
             /\ ctl' = [ctl EXCEPT !.pc = "claim", !.todo = S, !.room = 0]
    BY DEF PumpSelect
  <2>3. Cardinality(due) \in Nat /\ ctl.room \in Nat BY <2>1, SubsetSize, BatchSizes
  <2> HIDE DEF due
  <2>4. CASE Goto("requeue") \/ Done
    BY <2>4, IdleRoute DEF Goto, Done, TypeOK, ControlOK, ControlType
  <2>5. ASSUME NEW S \in SUBSET due,
               Cardinality(S) = IF Cardinality(due) < ctl.room THEN Cardinality(due) ELSE ctl.room,
               ctl' = [ctl EXCEPT !.pc = "claim", !.todo = S, !.room = 0]
        PROVE  \E T \in SUBSET Listings :
                 /\ Cardinality(T) <= ctl.room
                 /\ ctl' = [ctl EXCEPT !.pc = "claim", !.todo = T, !.room = 0]
    <3>1. S \in SUBSET Listings BY <2>1
    <3>2. Cardinality(S) <= ctl.room BY <2>3, <2>5
    <3> QED BY <2>5, <3>1, <3>2
  <2> QED BY <2>2, <2>4, <2>5
<1>3. ctl.pc = "select" /\ Room = ctl.room BY DEF PumpSelect, Room
<1>4. CASE ctl'.pc \notin {"select", "claim", "dispatch"} BY <1>1, <1>4, NoRoom
<1>5. ASSUME NEW S \in SUBSET Listings, Cardinality(S) <= ctl.room,
             ctl' = [ctl EXCEPT !.pc = "claim", !.todo = S, !.room = 0]
      PROVE  BatchInv'
  <2>1. ctl'.pc = "claim" /\ ctl'.todo = S BY <1>5 DEF TypeOK, ControlOK, ControlType
  <2>2. Room' = Cardinality(S) BY <2>1 DEF Room
  <2>3. Cardinality(S) \in Nat BY SubsetSize
  <2> QED BY <1>1, <1>3, <1>5, <2>2, <2>3, NoDispatch, BatchStep
<1> QED BY <1>2, <1>4, <1>5

(* A claim takes its target out of what is to be claimed. *)
LEMMA PumpClaimBatch ==
  ASSUME TypeOK, BatchInv, NEW l \in Listings, PumpClaim(l)
  PROVE  BatchInv'
<1> USE DEF PumpClaim
<1>1. Room = Cardinality(ctl.todo) /\ l \in ctl.todo BY DEF Room
<1>2. Cardinality(ctl.todo \ {l}) = Cardinality(ctl.todo) - 1
      /\ Cardinality(ctl.todo \ {l}) \in Nat
  <2>1. IsFiniteSet(ctl.todo) BY BatchSizes
  <2>2. IsFiniteSet(ctl.todo \ {l}) BY <2>1, FS_RemoveElement
  <2> QED BY ONLY <1>1, <2>1, <2>2, FS_RemoveElement, FS_CardinalityType
<1>3. CASE row[l].state = "pending" /\ run.status = "running"
  <2>1. row' = [row EXCEPT ![l].state = "queued", ![l].old = FALSE] BY <1>3
  <2>2. row'[l].state = "queued" /\ \A k \in Listings \ {l} : row'[k] = row[k]
    BY <2>1 DEF TypeOK, RowsOK, RowType
  <2>3. Queued' = Queued \cup {l} BY <2>2 DEF Queued
  <2>4. Cardinality(Queued') = Cardinality(Queued) + 1
    <3>1. l \notin Queued BY <1>3 DEF Queued
    <3>2. IsFiniteSet(Queued) BY BatchSizes
    <3>3. Cardinality(Queued \cup {l}) = Cardinality(Queued) + 1 BY ONLY <3>1, <3>2, FS_AddElement
    <3> QED BY <2>3, <3>3
  <2>5. ctl' = [ctl EXCEPT !.pc = "dispatch", !.cur = l, !.todo = @ \ {l}] BY <1>3
  <2>6. ctl'.pc = "dispatch" /\ ctl'.todo = ctl.todo \ {l}
    BY <2>5 DEF TypeOK, ControlOK, ControlType
  <2>7. Room' = Cardinality(ctl.todo) - 1 BY <1>2, <2>6 DEF Room
  <2> QED BY <1>1, <2>4, <2>7, BatchSizes, BackfillConstants DEF BatchInv
<1>4. CASE ~(row[l].state = "pending" /\ run.status = "running")
  <2>1. row' = row /\ (ctl' = IdleControl \/ ctl' = [ctl EXCEPT !.todo = @ \ {l}]) BY <1>4
  <2>2. CASE ctl' = IdleControl BY <2>1, <2>2, IdleRoute, NoRoom
  <2>3. CASE ctl' = [ctl EXCEPT !.todo = @ \ {l}]
    <3>1. ctl'.pc = "claim" /\ ctl'.todo = ctl.todo \ {l}
      BY <2>3 DEF TypeOK, ControlOK, ControlType
    <3>2. Room' = Cardinality(ctl.todo) - 1 BY <1>2, <3>1 DEF Room
    <3> QED BY <1>1, <1>2, <2>1, <3>2, NoDispatch, BatchStep, BatchSizes
  <2> QED BY <2>1, <2>2, <2>3
<1> QED BY <1>3, <1>4

(* A dispatched target is no longer to be claimed. *)
LEMMA PumpDispatchBatch ==
  ASSUME TypeOK, BatchInv, PumpDispatch
  PROVE  BatchInv'
<1>1. /\ row' = row /\ ctl.pc = "dispatch"
      /\ ctl' = IdleControl \/ ctl' = [ctl EXCEPT !.pc = "claim", !.cur = NoListing]
  BY DEF PumpDispatch
<1>2. CASE ctl' = IdleControl BY <1>1, <1>2, IdleRoute, NoRoom
<1>3. CASE ctl' = [ctl EXCEPT !.pc = "claim", !.cur = NoListing]
  <2>1. ctl'.pc = "claim" /\ ctl'.todo = ctl.todo BY <1>3 DEF TypeOK, ControlOK, ControlType
  <2>2. Room' = Room BY <1>1, <2>1 DEF Room
  <2> QED BY <1>1, <2>2, NoDispatch, BatchStep, BatchSizes
<1> QED BY <1>1, <1>2, <1>3

(* A detail job releases, finishes or blocks. *)
LEMMA DetailBatch ==
  ASSUME TypeOK, BatchInv, NEW w \in Workers, DetailStep(w) \/ DetailFails(w) \/ DetailDies(w)
                                              \/ \E l \in Listings : TakeDetail(w, l)
  PROVE  BatchInv'
<1> USE DEF otherVars, runVars
<1>1. worker[w].pc # "idle" => worker[w].listing \in Listings BY DEF TypeOK, WorkersOK
<1>2. CASE \/ DetailContext(w) \/ RemoveManagedJobs(w) \/ DetailQueuePump(w)
           \/ DetailComplete(w) \/ DetailFails(w) \/ DetailDies(w)
           \/ \E l \in Listings : TakeDetail(w, l)
           \/ \E r \in {"succeeded", "unavailable", "failed", "error", "blocked",
                        "crawler_off"} : DetailFetch(w, r)
  <2>1. ctl' = ctl /\ row' = row
    BY <1>2 DEF DetailContext, RemoveManagedJobs, DetailQueuePump, DetailComplete, DetailFails,
                DetailDies, TakeDetail, DetailFetch
  <2> QED BY <2>1, OtherRoom
<1>3. CASE DetailRelease(w) \/ PauseBackfill(w)
  <2>1. ctl' = ctl /\ row' = Released(worker[w].listing) /\ worker[w].listing \in Listings
    BY <1>1, <1>3 DEF DetailRelease, PauseBackfill
  <2> QED BY <2>1, ReleasedBatch, OtherRoom
<1>4. CASE FinishTarget(w) \/ RetryOrFailTarget(w)
  <2> DEFINE l == worker[w].listing
  <2>1. ctl' = ctl /\ l \in Listings BY <1>1, <1>4 DEF FinishTarget, RetryOrFailTarget
  <2>2. \/ row' = row \/ row' = [row EXCEPT ![l] = NoRow]
        \/ row' = [row EXCEPT ![l] = [state |-> "pending", tries |-> @.tries + 1,
                                      next |-> "future", old |-> FALSE]]
    BY <1>4 DEF FinishTarget, RetryOrFailTarget
  <2>3. \A k \in Listings : row'[k] = row[k] \/ row'[k].state # "queued"
    BY <2>1, <2>2 DEF NoRow, TypeOK, RowsOK
  <2> QED BY <2>1, <2>3, OtherRoom
<1>5. CASE BlockBackfill(w)
  <2>1. ctl' = ctl BY <1>5 DEF BlockBackfill
  <2>2. \A l \in Listings : l \notin Queued => row'[l] = row[l] BY <1>5 DEF BlockBackfill
  <2>3. \A l \in Queued : row'[l].state = "pending"
    BY <1>5 DEF BlockBackfill, Queued, TypeOK, RowsOK, RowType
  <2> QED BY <2>1, <2>2, <2>3, OtherRoom
<1> QED BY <1>2, <1>3, <1>4, <1>5 DEF DetailStep

(* Nobody else touches the ledger, but for its times. *)
LEMMA OutsideBatch ==
  ASSUME TypeOK, BatchInv,
         Maintenance \/ Operator \/ Time \/ RecoverDeadLock \/ RecoverSlowLock \/ UNCHANGED vars
  PROVE  BatchInv'
<1>1. CASE \/ Maintenance \/ Operator \/ CooldownEnds \/ RecoverDeadLock \/ RecoverSlowLock
           \/ UNCHANGED vars
  <2>1. ctl' = ctl /\ row' = row
    BY <1>1 DEF Maintenance, MaintainRead, MaintainQueue, Operator, OperatorPause, OperatorCancel,
                OperatorResume, Command, SwitchCrawler, QueryDisabled, CooldownEnds, RecoverDeadLock,
                RecoverSlowLock, runVars, otherVars, ctlVars, vars
  <2> QED BY <2>1, OtherRoom
<1>2. ASSUME NEW l \in Listings, RetryDue(l) \/ DispatchAges(l) PROVE BatchInv'
  <2>1. ctl' = ctl BY <1>2 DEF RetryDue, DispatchAges, otherVars
  <2>2. \/ row' = [row EXCEPT ![l].next = "past"]
        \/ row' = [row EXCEPT ![l].old = TRUE]
    BY <1>2 DEF RetryDue, DispatchAges
  <2>3. row'[l].state = row[l].state /\ \A k \in Listings \ {l} : row'[k] = row[k]
    BY <2>2 DEF TypeOK, RowsOK, RowType
  <2>4. Queued' = Queued BY <2>3 DEF Queued
  <2>5. Room' = Room BY <2>1 DEF Room
  <2> QED BY <2>4, <2>5, BatchStep, BatchSizes
<1> QED BY <1>1, <1>2 DEF Time

(* Every step keeps the batch. *)
LEMMA NextBatch == TypeOK /\ BatchInv /\ [Next]_vars => BatchInv'
<1> SUFFICES ASSUME TypeOK, BatchInv, [Next]_vars PROVE BatchInv' OBVIOUS
<1>1. CASE Pump
  BY <1>1, PumpBatch, PumpCountBatch, PumpSelectBatch, PumpClaimBatch, PumpDispatchBatch DEF Pump
<1>2. CASE Cancellation BY <1>2, PumpBatch DEF Cancellation
<1>3. CASE Detail BY <1>3, DetailBatch DEF Detail
<1>4. CASE Faults BY <1>4, PumpBatch, DetailBatch, OutsideBatch DEF Faults
<1> QED BY <1>1, <1>2, <1>3, <1>4, OutsideBatch DEF Next

(* Nothing is dispatched when a run starts. *)
LEMMA InitBatch == Init => BatchInv
<1> SUFFICES ASSUME Init PROVE BatchInv OBVIOUS
<1>1. \A l \in Listings : row[l].state # "queued"
  BY DEF Init, CreatedRun, LegacyRun, SeededRows, NewRow, NoRow
<1>2. ctl.pc \notin {"select", "claim", "dispatch"}
  <2>1. CASE CreatedRun
    <3>1. ctl.pc = "read" BY <2>1 DEF CreatedRun, IdleControl
    <3> QED BY <3>1
  <2>2. CASE LegacyRun
    <3>1. ctl.pc = "idle" BY <2>2 DEF LegacyRun, IdleControl
    <3> QED BY <3>1
  <2> QED BY <2>1, <2>2 DEF Init
<1>3. Queued = {} BY <1>1 DEF Queued
<1>4. Cardinality(Queued) = 0 /\ Room = 0 BY <1>2, <1>3, FS_EmptySet DEF Room
<1> QED BY <1>4, BackfillConstants DEF BatchInv

(* No more than DETAIL_BACKFILL_BATCH_SIZE targets are dispatched at any   *)
(* time: claims go by a count that late executions can only lower.         *)
THEOREM BatchIsBound == Spec => []QueuedWithinBatch
<1>1. Init => TypeOK /\ BatchInv BY InitType, InitBatch
<1>2. TypeOK /\ BatchInv /\ [Next]_vars => (TypeOK /\ BatchInv)' BY NextType, NextBatch
<1>3. TypeOK /\ BatchInv => QueuedWithinBatch
  <2> SUFFICES ASSUME TypeOK, BatchInv PROVE QueuedWithinBatch OBVIOUS
  <2> QED BY BatchSizes, BackfillConstants DEF BatchInv, QueuedWithinBatch
<1> QED BY <1>1, <1>2, <1>3, PTL DEF Spec

=============================================================================
