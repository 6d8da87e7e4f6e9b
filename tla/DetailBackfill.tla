--------------------------- MODULE DetailBackfill ---------------------------
(***************************************************************************)
(* One managed detail backfill run of the worker: its row in               *)
(* detail_backfill_runs, its target ledger in detail_backfill_targets, the *)
(* Graphile jobs that drive it and the admin commands that interrupt it.   *)
(*                                                                         *)
(* Four kinds of actors interleave, each database statement or transaction *)
(* being one step:                                                         *)
(*   - the control queue, whose jobs run one at a time: the pump           *)
(*     (pumpDetailBackfill, with resumeDetailBackfill before it) and the   *)
(*     cancellation (cancelDetailBackfill);                                *)
(*   - detail jobs (executeManagedDetailBackfillJob) of the queue          *)
(*     "nettiauto", one at a time unless lock recovery unlocks a slow one; *)
(*   - the five-minute maintenance task;                                   *)
(*   - the operator, whose commands are single transactions of the API.    *)
(*                                                                         *)
(* Time is abstracted: a job may be taken before its run_at, a cooldown or *)
(* a retry delay ends and a dispatch grows stale at any moment.  The       *)
(* counters scheduled_count and attempted_count steer nothing and are left *)
(* out, as are log lines and error texts.                                  *)
(***************************************************************************)
EXTENDS Integers, FiniteSets

CONSTANTS
  Listings,     \* listings a run may select
  Workers,      \* concurrent executions of detail jobs
  BatchSize,    \* DETAIL_BACKFILL_BATCH_SIZE
  TargetLimit,  \* DETAIL_BACKFILL_TARGET_LIMIT, 0 selects the whole backlog
  MaxAttempts,  \* NETTIAUTO_DETAIL_BACKFILL_MAX_ATTEMPTS
  CancelBatch,  \* CANCEL_BATCH_SIZE
  NoListing,    \* the listing of an execution slot that has none
  Free, Gone,   \* the "nettiauto" queue lock: nobody's, or a dead process's
  MaxCommands, MaxFaults, MaxBlocks  \* bounds on the environment

ASSUME BackfillConstants ==
  /\ IsFiniteSet(Listings)
  /\ NoListing \notin Listings
  /\ {Free, Gone} \cap Workers = {}
  /\ Free # Gone
  /\ BatchSize \in Nat \ {0} /\ MaxAttempts \in Nat \ {0}
  /\ TargetLimit \in Nat /\ CancelBatch \in Nat \ {0}
  /\ MaxCommands \in Nat /\ MaxFaults \in Nat /\ MaxBlocks \in Nat

VARIABLES
  run,       \* the detail_backfill_runs row
  row,       \* the detail_backfill_targets row of each listing
  evidence,  \* what the listing's detail records say of it
  sighted,   \* listings with a sighting in an enabled search query
  crawler,   \* CRAWLER_ENABLED and not CRAWLER_PAUSED
  job,       \* the job with the listing's target key
  holder,    \* who holds the lock of the queue "nettiauto"
  worker,    \* the detail job executions
  ctl,       \* the job running in the control queue
  pumpJob,   \* the unlocked job with the run's pump key: its payload
  cancelJob, \* is there an unlocked job with the run's cancel key
  maint,     \* the maintenance task between its read and its add_job
  legacy,    \* are there jobs of the original unbounded implementation
  probing,   \* history: a probe was sent and has not been answered
  asked,     \* history: what the operator last asked of a paused or running run
  spent      \* history: operator commands, faults and blocks so far

vars == <<run, row, evidence, sighted, crawler, job, holder, worker, ctl, pumpJob,
          cancelJob, maint, legacy, probing, asked, spent>>

Terminal == {"completed", "partial", "cancelled"}
Seedable == {"planned", "queued", "blocked", "paused"}
Statuses == Terminal \cup Seedable \cup {"running", "cancelling"}

NoRow == [state |-> "absent", tries |-> 0, next |-> "null", old |-> FALSE]
NewRow == [NoRow EXCEPT !.state = "pending"]
Ledger == {l \in Listings : row[l].state # "absent"}
Queued == {l \in Listings : row[l].state = "queued"}

IdleWorker == [pc |-> "idle", listing |-> NoListing, owns |-> FALSE, result |-> "none"]
IdleControl == [pc |-> "idle", task |-> "none", seen |-> "none", probe |-> FALSE,
                room |-> 0, todo |-> {}, cur |-> NoListing, removed |-> 0]

Settled == run.succeeded + run.unavailable + run.failed + run.cancelled

RowType == [state : {"absent", "pending", "queued"}, tries : 0 .. MaxAttempts - 1,
            next : {"null", "past", "future"}, old : BOOLEAN]
RunType == [status : Statuses, cooling : BOOLEAN, target : Nat, succeeded : Nat,
            unavailable : Nat, failed : Nat, cancelled : Nat]
WorkerType == [pc : {"idle", "context", "release", "fetch", "settle", "removeJobs",
                     "pump", "complete"},
               listing : Listings \cup {NoListing}, owns : BOOLEAN,
               result : {"none", "succeeded", "unavailable", "failed", "error",
                         "blocked", "crawler_off"}]
ControlType == [pc : {"idle", "resume", "read", "ledger", "seed", "seedCommit",
                      "unblock", "recover", "prune", "count", "select", "claim",
                      "dispatch", "undo", "finalize", "requeue", "cancelJobs",
                      "cancelLedger", "cancelMark"},
                task : {"none", "start", "plain", "resume", "rebuild", "cancel"},
                seen : Statuses \cup {"none", "cooling"}, probe : BOOLEAN,
                room : Nat, todo : SUBSET Listings,
                cur : Listings \cup {NoListing}, removed : Nat]

RunOK == run \in RunType
RowsOK == row \in [Listings -> RowType]
JobsOK == /\ job \in [Listings -> {"none", "ready", "locked", "dead"}]
          /\ holder \in Workers \cup {Free, Gone}
WorkersOK ==
  /\ worker \in [Workers -> WorkerType]
  /\ \A w \in Workers : worker[w].pc # "idle" => worker[w].listing \in Listings
ControlOK ==
  /\ ctl \in ControlType
  /\ ctl.pc \in {"dispatch", "undo"} => ctl.cur \in Listings
ControlJobsOK ==
  /\ pumpJob \in {"none", "plain", "resume", "rebuild"}
  /\ cancelJob \in BOOLEAN
  /\ maint \in {"idle", "pump", "cancel"}
EnvironmentOK ==
  /\ evidence \in [Listings -> {"none", "parsed", "unavailable"}]
  /\ sighted \subseteq Listings
  /\ crawler \in BOOLEAN
  /\ legacy \in BOOLEAN
  /\ probing \in BOOLEAN
  /\ asked \in {"none", "pause", "resume", "cancel"}
  /\ spent \in [commands : 0 .. MaxCommands, faults : 0 .. MaxFaults,
                blocks : 0 .. MaxBlocks]

(* Every variable keeps its type: in particular no counter of the run goes *)
(* below zero and a target row is never kept beyond its last attempt.      *)
TypeOK == RunOK /\ RowsOK /\ JobsOK /\ WorkersOK /\ ControlOK /\ ControlJobsOK /\ EnvironmentOK

-----------------------------------------------------------------------------
(* Seeding the ledger.  The cohort ranking decides which listings a capped *)
(* run takes, so any choice within the limit is possible.                  *)

Unparsed == {l \in Listings : evidence[l] # "parsed"}

SeedSets ==
  IF TargetLimit = 0
  THEN {Unparsed \cap sighted}
  ELSE {S \in SUBSET (Unparsed \cap sighted) : Cardinality(S) <= TargetLimit}

SeededRun(S) ==
  LET lost == IF TargetLimit = 0 THEN Cardinality(Unparsed \ sighted) ELSE 0
  IN  [status |-> "running", cooling |-> FALSE, target |-> Cardinality(S) + lost,
       succeeded |-> 0, unavailable |-> lost, failed |-> 0, cancelled |-> 0]

SeededRows(S) == [l \in Listings |-> IF l \in S THEN NewRow ELSE NoRow]

(* A run starts either freshly created and seeded by its first scheduler   *)
(* job, or left "queued" with no ledger by the unbounded implementation.   *)
CreatedRun ==
  /\ \E S \in SeedSets : run = SeededRun(S) /\ row = SeededRows(S)
  /\ ctl = [IdleControl EXCEPT !.pc = "read", !.task = "start"]
  /\ legacy = FALSE

LegacyRun ==
  /\ run = [status |-> "queued", cooling |-> FALSE, target |-> Cardinality(Listings),
            succeeded |-> 0, unavailable |-> 0, failed |-> 0, cancelled |-> 0]
  /\ row = [l \in Listings |-> NoRow]
  /\ ctl = IdleControl
  /\ legacy \in BOOLEAN

Init ==
  /\ evidence = [l \in Listings |-> "none"]
  /\ sighted = Listings /\ crawler = TRUE
  /\ CreatedRun \/ LegacyRun
  /\ job = [l \in Listings |-> "none"]
  /\ holder = Free
  /\ worker = [w \in Workers |-> IdleWorker]
  /\ pumpJob = "none" /\ cancelJob = FALSE
  /\ maint = "idle"
  /\ probing = FALSE /\ asked = "none"
  /\ spent = [commands |-> 0, faults |-> 0, blocks |-> 0]

-----------------------------------------------------------------------------
(* The job table of Graphile Worker, as this code uses it.  A job that is  *)
(* locked keeps its row when its key is replaced or removed, but loses the *)
(* key and every further attempt; an unlocked row is rewritten in place,   *)
(* and whoever executed that row before deletes it on completion.          *)

Disown(S) == [w \in Workers |->
                IF worker[w].listing \in S THEN [worker[w] EXCEPT !.owns = FALSE]
                                           ELSE worker[w]]

AddDetailJob(l) ==
  /\ job' = [job EXCEPT ![l] = "ready"]
  /\ worker' = IF job[l] = "locked" THEN Disown({l}) ELSE worker

\* The job row of w's execution is deleted and its queue lock released.
DeletedJob(w) == IF worker[w].owns THEN [job EXCEPT ![worker[w].listing] = "none"] ELSE job
ReleasedLock(w) == IF holder = w THEN Free ELSE holder

-----------------------------------------------------------------------------
(* The pump, a job of the control queue.                                   *)

ctlVars == <<ctl, pumpJob, cancelJob>>
detailVars == <<job, holder, worker>>
envVars == <<evidence, sighted, crawler, maint, asked, spent>>

Goto(pc) == ctl' = [ctl EXCEPT !.pc = pc]
Done == ctl' = IdleControl

\* With the crawler off the job returns at once, and is consumed.
TakePump ==
  /\ ctl.pc = "idle" /\ pumpJob # "none"
  /\ ctl' = IF crawler
            THEN [IdleControl EXCEPT !.task = pumpJob,
                                     !.pc = IF pumpJob = "plain" THEN "read" ELSE "resume"]
            ELSE IdleControl
  /\ pumpJob' = "none"
  /\ UNCHANGED <<run, row, detailVars, cancelJob, envVars, legacy, probing>>

\* resumeDetailBackfill: rebuilding empties the ledger whatever the status.
Resume ==
  /\ ctl.pc = "resume"
  /\ IF ctl.task = "rebuild"
     THEN /\ row' = [l \in Listings |-> NoRow]
          /\ run' = IF run.status \in Seedable
                    THEN [status |-> "queued", cooling |-> FALSE, target |-> 0,
                          succeeded |-> 0, unavailable |-> 0, failed |-> 0, cancelled |-> 0]
                    ELSE run
     ELSE /\ run' = IF run.status \in Seedable \ {"queued"}
                    THEN [run EXCEPT !.status = "running", !.cooling = FALSE]
                    ELSE run
          /\ UNCHANGED row
  /\ Goto("read")
  /\ UNCHANGED <<detailVars, pumpJob, cancelJob, envVars, legacy, probing>>

PumpRead ==
  /\ ctl.pc = "read"
  /\ IF run.status \in Terminal \cup {"cancelling", "paused"}
     THEN Done
     ELSE ctl' = [ctl EXCEPT !.pc = "ledger",
                             !.seen = IF run.cooling THEN "cooling" ELSE run.status]
  /\ UNCHANGED <<run, row, detailVars, pumpJob, cancelJob, envVars, legacy, probing>>

\* Retire legacy jobs, then look at the ledger with the status read before.
PumpLedger ==
  /\ ctl.pc = "ledger"
  /\ legacy' = FALSE
  /\ ctl' = [ctl EXCEPT !.seen = "none",
                        !.pc = IF legacy THEN "requeue"
                               ELSE IF Ledger = {} /\ ctl.seen = "queued" THEN "seed"
                               ELSE IF ctl.seen = "cooling" THEN "requeue"
                               ELSE IF ctl.seen = "blocked" THEN "unblock"
                               ELSE "recover"]
  /\ UNCHANGED <<run, row, detailVars, pumpJob, cancelJob, envVars, probing>>

\* The transaction checks the status first and reads it again when it
\* updates the run; the operator may change it in between.
PumpSeed ==
  /\ ctl.pc = "seed"
  /\ Goto(IF run.status \in Seedable THEN "seedCommit" ELSE "requeue")
  /\ UNCHANGED <<run, row, detailVars, pumpJob, cancelJob, envVars, legacy, probing>>

PumpSeedCommit ==
  /\ ctl.pc = "seedCommit"
  /\ \E S \in SeedSets :
       /\ row' = SeededRows(S)
       /\ run' = IF run.status \in Seedable THEN SeededRun(S) ELSE run
  /\ Goto("requeue")
  /\ UNCHANGED <<detailVars, pumpJob, cancelJob, envVars, legacy, probing>>

PumpUnblock ==
  /\ ctl.pc = "unblock"
  /\ run' = IF run.status = "blocked"
            THEN [run EXCEPT !.status = "running", !.cooling = FALSE] ELSE run
  /\ probing' = (probing \/ run.status = "blocked")
  /\ ctl' = [ctl EXCEPT !.pc = "recover", !.probe = TRUE]
  /\ UNCHANGED <<row, detailVars, pumpJob, cancelJob, envVars, legacy>>

\* Mutant: a dispatch whose job is gone is never recovered.
PumpRecoverNothing ==
  /\ ctl.pc = "recover"
  /\ Goto("prune")
  /\ UNCHANGED <<run, row, detailVars, pumpJob, cancelJob, envVars, legacy, probing>>

\* stale_dispatch_recovered
PumpRecover ==
  /\ ctl.pc = "recover"
  /\ row' = [l \in Listings |->
              IF l \in Queued /\ row[l].old /\ job[l] \notin {"ready", "locked"}
              THEN [row[l] EXCEPT !.state = "pending", !.old = FALSE] ELSE row[l]]
  /\ Goto("prune")
  /\ UNCHANGED <<run, detailVars, pumpJob, cancelJob, envVars, legacy, probing>>

PumpPrune ==
  /\ ctl.pc = "prune"
  /\ row' = [l \in Listings |-> IF l \in sighted THEN row[l] ELSE NoRow]
  /\ run' = [run EXCEPT !.unavailable = @ + Cardinality(Ledger \ sighted)]
  /\ Goto("count")
  /\ UNCHANGED <<detailVars, pumpJob, cancelJob, envVars, legacy, probing>>

\* Mutant: the targets already dispatched are not subtracted.
CapacityIgnoringQueued(queued, probe) == IF probe THEN 1 ELSE BatchSize

\* detailBackfillDispatchCapacity
Capacity(queued, probe) ==
  LET free == IF queued < BatchSize THEN BatchSize - queued ELSE 0
  IN  IF probe /\ free > 1 THEN 1 ELSE free

PumpCount ==
  /\ ctl.pc = "count"
  /\ LET room == Capacity(Cardinality(Queued), ctl.probe)
     IN  IF Ledger = {} THEN Goto("finalize")
         ELSE IF room = 0 THEN Done
         ELSE ctl' = [ctl EXCEPT !.pc = "select", !.room = room, !.probe = FALSE]
  /\ UNCHANGED <<run, row, detailVars, pumpJob, cancelJob, envVars, legacy, probing>>

\* No candidate: come back when the earliest retry is due, if none is yet.
PumpSelect ==
  /\ ctl.pc = "select"
  /\ LET due == {l \in Ledger \cap sighted : row[l].state = "pending" /\ row[l].next # "future"}
         waits == {l \in Ledger : row[l].next = "future"}
         past  == {l \in Ledger : row[l].next = "past"}
     IN  IF due = {}
         THEN IF waits # {} /\ past = {} THEN Goto("requeue") ELSE Done
         ELSE \E S \in SUBSET due :
                /\ Cardinality(S) = IF Cardinality(due) < ctl.room
                                    THEN Cardinality(due) ELSE ctl.room
                /\ ctl' = [ctl EXCEPT !.pc = "claim", !.todo = S, !.room = 0]
  /\ UNCHANGED <<run, row, detailVars, pumpJob, cancelJob, envVars, legacy, probing>>

PumpClaim(l) ==
  /\ ctl.pc = "claim" /\ l \in ctl.todo
  /\ IF row[l].state = "pending" /\ run.status = "running"
     THEN /\ row' = [row EXCEPT ![l].state = "queued", ![l].old = FALSE]
          /\ ctl' = [ctl EXCEPT !.pc = "dispatch", !.cur = l, !.todo = @ \ {l}]
     ELSE /\ ctl' = IF ctl.todo = {l} THEN IdleControl
                    ELSE [ctl EXCEPT !.todo = @ \ {l}]
          /\ UNCHANGED row
  /\ UNCHANGED <<run, detailVars, pumpJob, cancelJob, envVars, legacy, probing>>

\* The job of the claimed target; the run's scheduled_count ends the loop.
PumpDispatch ==
  /\ ctl.pc = "dispatch"
  /\ AddDetailJob(ctl.cur)
  /\ ctl' = IF ctl.todo = {} THEN IdleControl
            ELSE [ctl EXCEPT !.pc = "claim", !.cur = NoListing]
  /\ UNCHANGED <<run, row, holder, pumpJob, cancelJob, envVars, legacy, probing>>

\* addJob fails: the target is released and the pump's job fails.
PumpDispatchFails ==
  /\ ctl.pc = "dispatch" /\ spent.faults < MaxFaults
  /\ spent' = [spent EXCEPT !.faults = @ + 1]
  /\ Goto("undo")
  /\ UNCHANGED <<run, row, detailVars, pumpJob, cancelJob, evidence, sighted, crawler, asked,
                 maint, legacy, probing>>

\* releaseTarget looks at no state: whatever row is there becomes pending.
Released(l) ==
  IF row[l].state = "absent" THEN row
  ELSE [row EXCEPT ![l].state = "pending", ![l].old = FALSE]

\* A failed control job keeps its payload and is tried again, unless its
\* attempts are used up or a newer job took its key.  The first scheduler
\* job of a run has another key and swallows the error.
ControlJobFails ==
  /\ Done
  /\ IF ctl.task \in {"plain", "resume", "rebuild"} /\ pumpJob = "none"
     THEN pumpJob' \in {ctl.task, "none"} ELSE pumpJob' = pumpJob
  /\ IF ctl.task = "cancel" /\ ~cancelJob
     THEN cancelJob' \in BOOLEAN ELSE cancelJob' = cancelJob

PumpUndo ==
  /\ ctl.pc = "undo"
  /\ row' = Released(ctl.cur)
  /\ ControlJobFails
  /\ UNCHANGED <<run, detailVars, envVars, legacy, probing>>

\* Mutant: a run with failed targets is completed too.
PumpFinalizeCompleted ==
  /\ ctl.pc = "finalize"
  /\ run' = IF run.status \in {"planned", "running", "blocked"} /\ Ledger = {}
            THEN [run EXCEPT !.status = "completed", !.cooling = FALSE]
            ELSE run
  /\ Done
  /\ UNCHANGED <<row, detailVars, pumpJob, cancelJob, envVars, legacy, probing>>

PumpFinalize ==
  /\ ctl.pc = "finalize"
  /\ run' = IF run.status \in {"planned", "running", "blocked"} /\ Ledger = {}
            THEN [run EXCEPT !.status = IF run.failed = 0 THEN "completed" ELSE "partial",
                             !.cooling = FALSE]
            ELSE run
  /\ Done
  /\ UNCHANGED <<row, detailVars, pumpJob, cancelJob, envVars, legacy, probing>>

PumpRequeue ==
  /\ ctl.pc = "requeue"
  /\ pumpJob' = "plain"
  /\ Done
  /\ UNCHANGED <<run, row, detailVars, cancelJob, envVars, legacy, probing>>

Pump == \/ TakePump \/ Resume \/ PumpRead \/ PumpLedger \/ PumpSeed \/ PumpSeedCommit
        \/ PumpUnblock \/ PumpRecover \/ PumpPrune \/ PumpCount \/ PumpSelect
        \/ (\E l \in Listings : PumpClaim(l))
        \/ PumpDispatch \/ PumpUndo \/ PumpFinalize \/ PumpRequeue

-----------------------------------------------------------------------------
(* The cancellation, a job of the control queue.                           *)

TakeCancel ==
  /\ ctl.pc = "idle" /\ cancelJob
  /\ cancelJob' = FALSE
  /\ ctl' = [IdleControl EXCEPT !.task = "cancel", !.pc = "cancelJobs"]
  /\ UNCHANGED <<run, row, detailVars, pumpJob, envVars, legacy, probing>>

\* removeBackfillJobs(all): one batch of keyed jobs, the pump's included.
\* A full batch queues another cancellation and leaves the ledger alone.
CancelJobs ==
  /\ ctl.pc = "cancelJobs"
  /\ LET keyed == {l \in Listings : job[l] # "none"}
         control == (IF pumpJob = "none" THEN {} ELSE {"pump"})
                    \cup (IF legacy THEN {"legacy"} ELSE {})
     IN  \E S \in SUBSET keyed, C \in SUBSET control :
           /\ LET removed == Cardinality(S) + Cardinality(C)
                  present == Cardinality(keyed) + Cardinality(control)
              IN  /\ removed = IF present < CancelBatch THEN present ELSE CancelBatch
                  /\ IF removed = CancelBatch
                     THEN cancelJob' = TRUE /\ Done
                     ELSE Goto("cancelLedger") /\ UNCHANGED cancelJob
           /\ job' = [l \in Listings |-> IF l \in S THEN "none" ELSE job[l]]
           /\ worker' = Disown(S)
           /\ pumpJob' = IF "pump" \in C THEN "none" ELSE pumpJob
           /\ legacy' = (legacy /\ "legacy" \notin C)
  /\ UNCHANGED <<run, row, holder, envVars, probing>>

CancelLedger ==
  /\ ctl.pc = "cancelLedger"
  /\ row' = [l \in Listings |-> NoRow]
  /\ ctl' = [ctl EXCEPT !.pc = "cancelMark", !.removed = Cardinality(Ledger)]
  /\ UNCHANGED <<run, detailVars, pumpJob, cancelJob, envVars, legacy, probing>>

CancelMark ==
  /\ ctl.pc = "cancelMark"
  /\ run' = IF run.status = "cancelling"
            THEN [run EXCEPT !.status = "cancelled", !.cooling = FALSE,
                             !.cancelled = @ + ctl.removed]
            ELSE run
  /\ Done
  /\ UNCHANGED <<row, detailVars, pumpJob, cancelJob, envVars, legacy, probing>>

Cancellation == TakeCancel \/ CancelJobs \/ CancelLedger \/ CancelMark

\* The process running a control job dies, or a statement of it fails.
ControlFails ==
  /\ ctl.pc # "idle" /\ spent.faults < MaxFaults
  /\ spent' = [spent EXCEPT !.faults = @ + 1]
  /\ ControlJobFails
  /\ UNCHANGED <<run, row, detailVars, evidence, sighted, crawler, asked, maint, legacy, probing>>

-----------------------------------------------------------------------------
(* Detail jobs.  A managed job forces the fetch, so enrichDetailPage never *)
(* answers "skipped" for it.                                               *)

runVars == <<run, row>>
otherVars == <<ctl, pumpJob, cancelJob, maint, legacy, crawler>>

\* The queue lock lets one job run; the job has a single attempt.  It keeps
\* to the configuration it starts with: the result of an execution under a
\* crawler that is off is known before it fetches.
TakeDetail(w, l) ==
  /\ worker[w].pc = "idle" /\ holder = Free /\ job[l] = "ready"
  /\ job' = [job EXCEPT ![l] = "locked"]
  /\ holder' = w
  /\ worker' = [worker EXCEPT ![w] = [pc |-> "context", listing |-> l, owns |-> TRUE,
                                       result |-> IF crawler THEN "none" ELSE "crawler_off"]]
  /\ UNCHANGED <<runVars, otherVars, evidence, sighted, asked, probing, spent>>

WorkerGoto(w, pc) == worker' = [worker EXCEPT ![w].pc = pc, ![w].result = "none"]

DetailContext(w) ==
  /\ worker[w].pc = "context"
  /\ IF worker[w].listing \in Queued /\ run.status = "running"
     THEN worker' = [worker EXCEPT ![w].pc = "fetch"]
     ELSE WorkerGoto(w, IF worker[w].listing \in Queued /\ run.status \in Seedable
                        THEN "release" ELSE "complete")
  /\ UNCHANGED <<runVars, otherVars, job, holder, evidence, sighted, asked, probing, spent>>

DetailRelease(w) ==
  /\ worker[w].pc = "release"
  /\ row' = Released(worker[w].listing)
  /\ WorkerGoto(w, "complete")
  /\ UNCHANGED <<run, otherVars, job, holder, evidence, sighted, asked, probing, spent>>

\* enrichDetailPage, as seen by the backfill: it stores what the page said
\* and answers with an outcome or throws.  "failed" is a page that could
\* not be parsed, or a search query disabled in the meantime.
DetailFetch(w, result) ==
  /\ worker[w].pc = "fetch"
  /\ worker' = [worker EXCEPT ![w].pc = "settle", ![w].result = result]
  /\ \/ result = "succeeded" /\ evidence' = [evidence EXCEPT ![worker[w].listing] = "parsed"]
     \/ result = "unavailable"
        /\ evidence' = [evidence EXCEPT ![worker[w].listing] = IF @ = "parsed" THEN @ ELSE result]
     \/ result \in {"failed", "error", "blocked", "crawler_off"} /\ UNCHANGED evidence
  /\ result = "crawler_off" <=> worker[w].result = "crawler_off"
  /\ result = "blocked" => spent.blocks < MaxBlocks
  /\ spent' = [spent EXCEPT !.blocks = IF result = "blocked" THEN @ + 1 ELSE @]
  /\ UNCHANGED <<runVars, otherVars, job, holder, sighted, asked, probing>>

\* Mutant: the outcome is counted whether or not the row was still there.
FinishTargetUnchecked(w) ==
  /\ worker[w].pc = "settle" /\ worker[w].result \in {"succeeded", "unavailable", "failed"}
  /\ row' = [row EXCEPT ![worker[w].listing] = NoRow]
  /\ run' = [run EXCEPT
       !.succeeded   = IF worker[w].result = "succeeded" THEN @ + 1 ELSE @,
       !.unavailable = IF worker[w].result = "unavailable" THEN @ + 1 ELSE @,
       !.failed      = IF worker[w].result = "failed" THEN @ + 1 ELSE @]
  /\ probing' = FALSE
  /\ WorkerGoto(w, "pump")
  /\ UNCHANGED <<otherVars, job, holder, evidence, sighted, asked, spent>>

\* finishTarget: the row goes and one counter moves, or nothing happens.
FinishTarget(w) ==
  /\ worker[w].pc = "settle" /\ worker[w].result \in {"succeeded", "unavailable", "failed"}
  /\ LET l == worker[w].listing
         field == worker[w].result
     IN  IF row[l].state = "absent" THEN UNCHANGED runVars
         ELSE /\ row' = [row EXCEPT ![l] = NoRow]
              /\ run' = [run EXCEPT
                   !.succeeded   = IF field = "succeeded" THEN @ + 1 ELSE @,
                   !.unavailable = IF field = "unavailable" THEN @ + 1 ELSE @,
                   !.failed      = IF field = "failed" THEN @ + 1 ELSE @]
  /\ probing' = FALSE
  /\ WorkerGoto(w, "pump")
  /\ UNCHANGED <<otherVars, job, holder, evidence, sighted, asked, spent>>

\* Mutant: the row of a failed attempt is written whether or not it was there.
RetryTargetUpserted(w) ==
  /\ worker[w].pc = "settle" /\ worker[w].result = "error"
  /\ LET l == worker[w].listing
     IN  IF row[l].tries + 1 >= MaxAttempts
         THEN row' = [row EXCEPT ![l] = NoRow] /\ run' = [run EXCEPT !.failed = @ + 1]
         ELSE /\ row' = [row EXCEPT ![l] = [state |-> "pending", tries |-> @.tries + 1,
                                            next |-> "future", old |-> FALSE]]
              /\ UNCHANGED run
  /\ probing' = FALSE
  /\ WorkerGoto(w, "pump")
  /\ UNCHANGED <<otherVars, job, holder, evidence, sighted, asked, spent>>

RetryOrFailTarget(w) ==
  /\ worker[w].pc = "settle" /\ worker[w].result = "error"
  /\ LET l == worker[w].listing
     IN  IF row[l].state = "absent" THEN UNCHANGED runVars
         ELSE IF row[l].tries + 1 >= MaxAttempts
         THEN row' = [row EXCEPT ![l] = NoRow] /\ run' = [run EXCEPT !.failed = @ + 1]
         ELSE /\ row' = [row EXCEPT ![l] = [state |-> "pending", tries |-> @.tries + 1,
                                            next |-> "future", old |-> FALSE]]
              /\ UNCHANGED run
  /\ probing' = FALSE
  /\ WorkerGoto(w, "pump")
  /\ UNCHANGED <<otherVars, job, holder, evidence, sighted, asked, spent>>

\* Mutant: the breaker opens whatever the status of the run.
BlockAnyRun(w) ==
  /\ worker[w].pc = "settle" /\ worker[w].result = "blocked"
  /\ row' = [l \in Listings |->
              IF l \in Queued THEN [row[l] EXCEPT !.state = "pending", !.next = "null",
                                                  !.old = FALSE]
              ELSE row[l]]
  /\ run' = [run EXCEPT !.status = "blocked", !.cooling = TRUE]
  /\ probing' = FALSE
  /\ WorkerGoto(w, "removeJobs")
  /\ UNCHANGED <<otherVars, job, holder, evidence, sighted, asked, spent>>

\* The circuit breaker: every dispatched target returns to the ledger, then
\* the jobs are removed, then a pump is queued for the end of the cooldown.
BlockBackfill(w) ==
  /\ worker[w].pc = "settle" /\ worker[w].result = "blocked"
  /\ row' = [l \in Listings |->
              IF l \in Queued THEN [row[l] EXCEPT !.state = "pending", !.next = "null",
                                                  !.old = FALSE]
              ELSE row[l]]
  /\ run' = IF run.status \in Terminal \cup {"cancelling"} THEN run
            ELSE [run EXCEPT !.status = "blocked", !.cooling = TRUE]
  /\ probing' = FALSE
  /\ WorkerGoto(w, "removeJobs")
  /\ UNCHANGED <<otherVars, job, holder, evidence, sighted, asked, spent>>

RemoveManagedJobs(w) ==
  /\ worker[w].pc = "removeJobs"
  /\ job' = [l \in Listings |-> "none"]
  /\ worker' = [Disown(Listings) EXCEPT ![w].pc = "pump"]
  /\ UNCHANGED <<runVars, otherVars, holder, evidence, sighted, asked, probing, spent>>

PauseBackfill(w) ==
  /\ worker[w].pc = "settle" /\ worker[w].result = "crawler_off"
  /\ row' = Released(worker[w].listing)
  /\ run' = IF run.status \in Terminal \cup {"cancelling"} THEN run
            ELSE [run EXCEPT !.status = "paused", !.cooling = FALSE]
  /\ probing' = FALSE /\ asked' = "none"
  /\ WorkerGoto(w, "complete")
  /\ UNCHANGED <<otherVars, job, holder, evidence, sighted, spent>>

DetailQueuePump(w) ==
  /\ worker[w].pc = "pump"
  /\ pumpJob' = "plain"
  /\ WorkerGoto(w, "complete")
  /\ UNCHANGED <<runVars, ctl, cancelJob, maint, legacy, crawler, job, holder, evidence, sighted,
                 asked, probing, spent>>

\* Graphile deletes the job row by its id, whoever holds its lock by now.
DetailComplete(w) ==
  /\ worker[w].pc = "complete"
  /\ job' = DeletedJob(w)
  /\ worker' = [IF worker[w].owns THEN Disown({worker[w].listing}) ELSE worker
                 EXCEPT ![w] = IdleWorker]
  /\ holder' = ReleasedLock(w)
  /\ UNCHANGED <<runVars, otherVars, evidence, sighted, asked, probing, spent>>

DetailStep(w) ==
  \/ DetailContext(w) \/ DetailRelease(w)
  \/ \E r \in {"succeeded", "unavailable", "failed", "error", "blocked", "crawler_off"} :
        DetailFetch(w, r)
  \/ FinishTarget(w) \/ RetryOrFailTarget(w) \/ BlockBackfill(w) \/ PauseBackfill(w)
  \/ RemoveManagedJobs(w) \/ DetailQueuePump(w) \/ DetailComplete(w)

-----------------------------------------------------------------------------
(* Failures of a detail job, and the recovery of the queue lock.           *)

\* A statement fails: Graphile unlocks the job, whose only attempt is used.
DetailFails(w) ==
  /\ worker[w].pc # "idle" /\ spent.faults < MaxFaults
  /\ spent' = [spent EXCEPT !.faults = @ + 1]
  /\ job' = IF worker[w].owns /\ holder = w
            THEN [job EXCEPT ![worker[w].listing] = "dead"] ELSE job
  /\ holder' = ReleasedLock(w)
  /\ worker' = [worker EXCEPT ![w] = IdleWorker]
  /\ UNCHANGED <<runVars, otherVars, evidence, sighted, asked, probing>>

\* The process dies and leaves the job and the queue locked.
DetailDies(w) ==
  /\ worker[w].pc # "idle" /\ spent.faults < MaxFaults
  /\ spent' = [spent EXCEPT !.faults = @ + 1]
  /\ holder' = IF holder = w THEN Gone ELSE holder
  /\ worker' = [worker EXCEPT ![w] = IdleWorker]
  /\ UNCHANGED <<runVars, otherVars, job, evidence, sighted, asked, probing>>

Unlocked == [l \in Listings |-> IF job[l] = "locked" THEN "dead" ELSE job[l]]

\* recoverStaleNettiautoQueueLocks sees only the age of the lock: it also
\* unlocks the job of a process that is alive but slow.
RecoverDeadLock ==
  /\ holder = Gone
  /\ job' = Unlocked /\ holder' = Free
  /\ UNCHANGED <<runVars, otherVars, worker, evidence, sighted, asked, probing, spent>>

RecoverSlowLock ==
  /\ holder \in Workers /\ spent.faults < MaxFaults
  /\ spent' = [spent EXCEPT !.faults = @ + 1]
  /\ job' = Unlocked /\ holder' = Free
  /\ UNCHANGED <<runVars, otherVars, worker, evidence, sighted, asked, probing>>

-----------------------------------------------------------------------------
(* Maintenance, the operator and the passing of time.                      *)

\* Mutant: runs being cancelled are not maintained.
MaintainPumpOnly ==
  /\ maint = "idle"
  /\ run.status \in {"planned", "running", "queued", "blocked"} /\ maint' = "pump"
  /\ UNCHANGED <<runVars, detailVars, ctlVars, evidence, sighted, crawler, asked, legacy,
                 probing, spent>>

\* Mutant: blocked runs are not maintained.
MaintainNotBlocked ==
  /\ maint = "idle"
  /\ \/ run.status \in {"planned", "running", "queued"} /\ maint' = "pump"
     \/ run.status = "cancelling" /\ maint' = "cancel"
  /\ UNCHANGED <<runVars, detailVars, ctlVars, evidence, sighted, crawler, asked, legacy,
                 probing, spent>>

MaintainRead ==
  /\ maint = "idle"
  /\ \/ run.status \in {"planned", "running", "queued", "blocked"} /\ maint' = "pump"
     \/ run.status = "cancelling" /\ maint' = "cancel"
  /\ UNCHANGED <<runVars, detailVars, ctlVars, evidence, sighted, crawler, asked, legacy,
                 probing, spent>>

MaintainQueue ==
  /\ maint # "idle" /\ maint' = "idle"
  /\ IF maint = "pump" THEN pumpJob' = "plain" /\ UNCHANGED cancelJob
                       ELSE cancelJob' = TRUE /\ UNCHANGED pumpJob
  /\ UNCHANGED <<runVars, detailVars, ctl, evidence, sighted, crawler, asked, legacy, probing,
                 spent>>

\* A command of the operator on the latest active run.
Command ==
  /\ run.status \notin Terminal /\ spent.commands < MaxCommands
  /\ spent' = [spent EXCEPT !.commands = @ + 1]
  /\ UNCHANGED <<row, detailVars, ctl, evidence, sighted, crawler, maint, legacy, probing>>

OperatorPause ==
  /\ Command
  /\ run' = IF run.status \in {"planned", "running", "queued", "blocked"}
            THEN [run EXCEPT !.status = "paused", !.cooling = FALSE] ELSE run
  /\ asked' = "pause"
  /\ UNCHANGED <<pumpJob, cancelJob>>

OperatorCancel ==
  /\ Command
  /\ run' = [run EXCEPT !.status = "cancelling", !.cooling = FALSE]
  /\ cancelJob' = TRUE
  /\ asked' = "cancel"
  /\ UNCHANGED pumpJob

OperatorResume ==
  /\ Command
  /\ pumpJob' = IF Ledger = {} /\ run.target > Settled THEN "rebuild" ELSE "resume"
  /\ asked' = IF run.status = "paused" THEN "resume" ELSE asked
  /\ UNCHANGED <<run, cancelJob>>

\* External: the last search query that shows the listing is disabled.
QueryDisabled(l) ==
  /\ l \in sighted /\ spent.commands < MaxCommands
  /\ sighted' = sighted \ {l}
  /\ spent' = [spent EXCEPT !.commands = @ + 1]
  /\ UNCHANGED <<runVars, detailVars, otherVars, evidence, asked, probing>>

\* External: a deployment with other values of CRAWLER_ENABLED and
\* CRAWLER_PAUSED; switching the crawler off counts as a command.
SwitchCrawler ==
  /\ crawler => spent.commands < MaxCommands
  /\ crawler' = ~crawler
  /\ spent' = [spent EXCEPT !.commands = IF crawler THEN @ + 1 ELSE @]
  /\ UNCHANGED <<runVars, detailVars, ctlVars, evidence, sighted, maint, asked, legacy, probing>>

CooldownEnds ==
  /\ run.cooling
  /\ run' = [run EXCEPT !.cooling = FALSE]
  /\ UNCHANGED <<row, detailVars, otherVars, evidence, sighted, asked, probing, spent>>

RetryDue(l) ==
  /\ row[l].next = "future"
  /\ row' = [row EXCEPT ![l].next = "past"]
  /\ UNCHANGED <<run, detailVars, otherVars, evidence, sighted, asked, probing, spent>>

DispatchAges(l) ==
  /\ l \in Queued /\ ~row[l].old
  /\ row' = [row EXCEPT ![l].old = TRUE]
  /\ UNCHANGED <<run, detailVars, otherVars, evidence, sighted, asked, probing, spent>>

Maintenance == MaintainRead \/ MaintainQueue
Operator == OperatorPause \/ OperatorCancel \/ OperatorResume \/ SwitchCrawler
            \/ \E l \in Listings : QueryDisabled(l)
Time == CooldownEnds \/ \E l \in Listings : RetryDue(l) \/ DispatchAges(l)
Faults == PumpDispatchFails \/ ControlFails \/ RecoverSlowLock
          \/ \E w \in Workers : DetailFails(w) \/ DetailDies(w)
Detail == \E w \in Workers : DetailStep(w) \/ \E l \in Listings : TakeDetail(w, l)

Next == Pump \/ Cancellation \/ Detail \/ RecoverDeadLock \/ Maintenance
        \/ Operator \/ Time \/ Faults

Spec == Init /\ [][Next]_vars

\* The runs this version of the worker creates.
InitCreated == Init /\ ~LegacyRun
SpecCreated == InitCreated /\ [][Next]_vars

\* Cron starts the maintenance, Graphile takes every ready job of a free
\* queue, an execution that does not fail goes on, and time passes.
Fairness ==
  /\ WF_vars(Pump \/ Cancellation)
  /\ WF_vars(Maintenance)
  /\ WF_vars(RecoverDeadLock)
  /\ \A w \in Workers : WF_vars(DetailStep(w))
  /\ WF_vars(\E w \in Workers, l \in Listings : TakeDetail(w, l))
  /\ WF_vars(CooldownEnds)
  /\ \A l \in Listings : WF_vars(RetryDue(l)) /\ WF_vars(DispatchAges(l))

FairSpec == Spec /\ Fairness

-----------------------------------------------------------------------------
(* Safety.                                                                 *)

(* Of a created run no target is lost and none is counted twice: until it  *)
(* is cancelled, the outcomes counted and the targets in the ledger are    *)
(* the targets it selected, whatever slow, duplicated or late executions   *)
(* finish (finishTarget, retryOrFailTarget, the pruning of the pump).      *)
TargetsConserved ==
  /\ Settled + Cardinality(Ledger) <= run.target
  /\ run.status \notin {"cancelling", "cancelled"} => Settled + Cardinality(Ledger) = run.target

(* A run that ends by itself has accounted for every selected target.      *)
FinishedRunAccounts == run.status \in {"completed", "partial"} => Settled = run.target

(* A run that is over owns no target, so no late job can change its counts. *)
TerminalLedgerEmpty == run.status \in Terminal => Ledger = {}

(* A run that is over stays as it is: its status, counters and ledger are  *)
(* never touched again by a pump, a late job or a command.                 *)
TerminalFrozen == [][run.status \in Terminal => UNCHANGED <<run, row>>]_vars

(* At most DETAIL_BACKFILL_BATCH_SIZE targets are dispatched at any time.  *)
QueuedWithinBatch == Cardinality(Queued) <= BatchSize

(* A completed run over the full backlog has an answer for every listing   *)
(* that still has an enabled search query (finishTarget, retryOrFailTarget *)
(* and finalizeDetailBackfill).  Created runs keep this; the rebuild of an *)
(* older one can break it.                                                 *)
CompletedIsComplete ==
  run.status = "completed" /\ TargetLimit = 0 => \A l \in sighted : evidence[l] # "none"

(* After a cooldown one probe goes out alone: nothing else is dispatched   *)
(* while it is unanswered.                                                 *)
ProbeAlone == probing /\ run.status = "running" => Cardinality(Queued) <= 1

(* The run keeps the promise of BackfillLedger: no late, repeated or slow  *)
(* execution brings an accounted target back, reopens a run that is being  *)
(* cancelled or is over, or takes an outcome back.                         *)
Contract ==
  INSTANCE BackfillLedger WITH
    Targets <- Listings,
    phase <- IF run.status \in Terminal \cup {"cancelling"} THEN run.status ELSE "open",
    pending <- Ledger,
    tally <- [succeeded |-> run.succeeded, unavailable |-> run.unavailable,
              failed |-> run.failed, cancelled |-> run.cancelled],
    target <- run.target

ImplementsLedger == Contract!Spec

(* Only a resume or a cancellation ends a pause.                           *)
PauseHolds ==
  [][run.status = "paused" /\ run'.status # "paused"
     => ctl.pc = "resume" \/ run'.status = "cancelling"]_vars

-----------------------------------------------------------------------------
(* Liveness, once the operator, the faults and the blocks have stopped.    *)

(* A cancellation completes, whatever control jobs were lost meanwhile and *)
(* whether or not the crawler is on.                                       *)
CancelCompletes == run.status = "cancelling" ~> run.status = "cancelled"

(* Every pump returns without effect while the crawler is off: what pumps  *)
(* have to bring about rests on a crawler that does not stay off.          *)
CrawlerStaysOn == <>[]crawler

(* Unless the crawler stays off the run ends or is left paused: no lost    *)
(* job and no pump consumed meanwhile strands it.                          *)
RunSettles == CrawlerStaysOn => <>[](run.status \in Terminal \cup {"paused"})

(* Unless the crawler stays off a dispatched target does not stay          *)
(* dispatched, even when its job died.                                     *)
DispatchReturns ==
  CrawlerStaysOn =>
    \A l \in Listings : l \in Queued ~> l \notin Queued \/ run.status = "paused"

(* A resume of a paused run takes effect unless another command follows or *)
(* the crawler is off.                                                     *)
ResumeTakesEffect ==
  []crawler =>
    (asked = "resume" /\ run.status = "paused" ~> run.status # "paused" \/ asked # "resume")

-----------------------------------------------------------------------------
(* Inductive invariants, for the proofs.                                   *)

(* A run that is over has no target, none is seeded behind its back and an *)
(* absent row carries nothing.                                             *)
TerminalInv ==
  /\ TerminalLedgerEmpty
  /\ ctl.pc = "seedCommit" => run.status \notin Terminal
  /\ ctl.pc = "cancelMark" => Ledger = {}
  /\ \A l \in Listings : row[l].state = "absent" => row[l] = NoRow
  /\ run.cooling => run.status = "blocked"

BeingCancelled == run.status \in {"cancelling", "cancelled"}

(* A created run is never seeded again, and it is rebuilt or cancelled only *)
(* after the operator asked for its cancellation.                          *)
RouteInv ==
  /\ run.status \notin {"planned", "queued"}
  /\ ctl.pc \notin {"seed", "seedCommit"} /\ ctl.seen # "queued"
  /\ ctl.pc \in {"cancelJobs", "cancelLedger", "cancelMark"} => ctl.task = "cancel"
  /\ cancelJob \/ maint = "cancel" \/ ctl.task = "cancel" => BeingCancelled
  /\ pumpJob = "rebuild" \/ ctl.task = "rebuild" => BeingCancelled

(* The targets on their way from the ledger to cancelled_count are counted *)
(* once.                                                                   *)
Moving == IF ctl.pc = "cancelMark" THEN ctl.removed ELSE 0
BalanceInv ==
  /\ Settled + Cardinality(Ledger) + Moving <= run.target
  /\ ~BeingCancelled => Settled + Cardinality(Ledger) = run.target

(* Until its cancellation, a target of a full backlog that has left the    *)
(* ledger of a run without failures has an answer, or no query shows it;   *)
(* and an outcome is counted by an execution that has stored it.           *)
AnswerInv ==
  /\ \A w \in Workers : worker[w].pc = "settle" =>
       /\ worker[w].result = "succeeded" => evidence[worker[w].listing] = "parsed"
       /\ worker[w].result = "unavailable" => evidence[worker[w].listing] # "none"
  /\ run.status = "completed" => run.failed = 0
  /\ TargetLimit = 0 /\ ~BeingCancelled /\ run.failed = 0 =>
       \A l \in sighted : row[l].state = "absent" => evidence[l] # "none"

(* What the pump may still claim fits into the batch. *)
Room == IF ctl.pc = "select" THEN ctl.room
        ELSE IF ctl.pc \in {"claim", "dispatch"} THEN Cardinality(ctl.todo) ELSE 0
BatchInv == Cardinality(Queued) + Room <= BatchSize

=============================================================================
