-------------------------- MODULE BackfillAdmission --------------------------
(***************************************************************************)
(* How detail backfill runs come to be: the start command of the API, the  *)
(* start job in the control queue, which creates a run, and what happens   *)
(* when that job fails or its process dies.  What a run does once it lives *)
(* is DetailBackfill; here runs are only counted.                          *)
(*                                                                         *)
(* The start command is one transaction at "read committed" under an       *)
(* advisory lock, so that two starts exclude each other, but each of its   *)
(* two questions sees the database of its own moment.  The control queue   *)
(* runs one job at a time, and a job counts its attempt when it is taken.  *)
(***************************************************************************)
EXTENDS Integers

CONSTANTS
  StartAttempts,  \* max_attempts of a control job
  MaxLive         \* bound on the number of live runs

ASSUME AdmissionConstants == StartAttempts \in Nat \ {0} /\ MaxLive \in Nat \ {0}

VARIABLES
  live,       \* number of runs in a status that is not over
  starting,   \* has the open start transaction found no live run
  startJob,   \* the waiting job with the start key
  resumeJob,  \* is a resume of a run waiting
  control,    \* the job the control queue runs
  slipped     \* history: a second start got past the admission, or a start was repeated

admissionVars == <<live, starting, startJob, resumeJob, control, slipped>>

NoStart == [waits |-> FALSE, tries |-> 0]
NoControl == [pc |-> "idle", tries |-> 0]

AdmissionTypeOK ==
  /\ live \in 0 .. MaxLive
  /\ starting \in BOOLEAN
  /\ startJob \in [waits : BOOLEAN, tries : 0 .. StartAttempts - 1]
  /\ resumeJob \in BOOLEAN
  /\ control \in [pc : {"idle", "start", "created", "died", "resume"}, tries : 0 .. StartAttempts]
  /\ slipped \in BOOLEAN

AdmissionInit ==
  /\ live = 0 /\ starting = FALSE /\ startJob = NoStart /\ resumeJob = FALSE
  /\ control = NoControl /\ slipped = FALSE

-----------------------------------------------------------------------------
(* The start command.  A job on its last attempt is not seen by it.        *)

Executing == control.pc \in {"start", "created", "died"}

SchedulerQueued ==
  startJob.waits \/ resumeJob \/ (Executing /\ control.tries < StartAttempts)

StartChecksRuns ==
  /\ ~starting /\ live = 0
  /\ starting' = TRUE
  /\ UNCHANGED <<live, startJob, resumeJob, control, slipped>>

StartAnyway ==
  /\ starting
  /\ starting' = FALSE
  /\ startJob' = [waits |-> TRUE, tries |-> 0]
  /\ slipped' = (slipped \/ live > 0 \/ (Executing /\ control.tries = StartAttempts))
  /\ UNCHANGED <<live, resumeJob, control>>

(* Mutant: the start command asks for live runs only.                      *)
StartUnasked == StartAnyway

StartChecksJobs ==
  \/ ~SchedulerQueued /\ StartAnyway
  \/ /\ starting /\ (SchedulerQueued \/ control.pc = "resume")
     /\ starting' = FALSE
     /\ UNCHANGED <<live, startJob, resumeJob, control, slipped>>

ResumeRun ==
  /\ live > 0
  /\ resumeJob' = TRUE
  /\ UNCHANGED <<live, starting, startJob, control, slipped>>

-----------------------------------------------------------------------------
(* The control queue.                                                      *)

TakeStart ==
  /\ control.pc = "idle" /\ startJob.waits
  /\ control' = [pc |-> "start", tries |-> startJob.tries + 1]
  /\ startJob' = NoStart
  /\ UNCHANGED <<live, starting, resumeJob, slipped>>

TakeResume ==
  /\ control.pc = "idle" /\ resumeJob
  /\ control' = [NoControl EXCEPT !.pc = "resume"]
  /\ resumeJob' = FALSE
  /\ UNCHANGED <<live, starting, startJob, slipped>>

(* The run is created and seeded in one transaction.                       *)
CreateRun ==
  /\ control.pc = "start" /\ live < MaxLive
  /\ live' = live + 1
  /\ control' = [control EXCEPT !.pc = "created"]
  /\ UNCHANGED <<starting, startJob, resumeJob, slipped>>

(* The crawler is off and the start job does nothing; or the first pump of *)
(* a created run is over, whose failure is only logged; or a resume ends.  *)
ControlEnds ==
  /\ control.pc \in {"start", "created", "resume"}
  /\ control' = NoControl
  /\ UNCHANGED <<live, starting, startJob, resumeJob, slipped>>

Retried ==
  startJob' = IF control.tries < StartAttempts
              THEN [waits |-> TRUE, tries |-> control.tries]
              ELSE startJob

CreationFails ==
  /\ control.pc = "start"
  /\ Retried
  /\ control' = NoControl
  /\ UNCHANGED <<live, starting, resumeJob, slipped>>

(* The process of a start job dies, or the job throws although its run is  *)
(* created, as the answer to its commit is lost or its connection fails to *)
(* close.  The run stays, and the job is taken again.                      *)
StarterDies ==
  /\ control.pc \in {"start", "created"}
  /\ control' = [control EXCEPT !.pc = "died"]
  /\ slipped' = (slipped \/ (control.pc = "created" /\ control.tries < StartAttempts))
  /\ UNCHANGED <<live, starting, startJob, resumeJob>>

LockExpires ==
  /\ control.pc = "died"
  /\ Retried
  /\ control' = NoControl
  /\ UNCHANGED <<live, starting, resumeJob, slipped>>

RunEnds ==
  /\ live > 0
  /\ live' = live - 1
  /\ UNCHANGED <<starting, startJob, resumeJob, control, slipped>>

AdmissionNext ==
  \/ StartChecksRuns \/ StartChecksJobs \/ ResumeRun
  \/ TakeStart \/ TakeResume \/ CreateRun \/ ControlEnds
  \/ CreationFails \/ StarterDies \/ LockExpires \/ RunEnds

AdmissionSpec == AdmissionInit /\ [][AdmissionNext]_admissionVars

-----------------------------------------------------------------------------
(* There is at most one live run, whatever starts, failures and retries    *)
(* interleave, but for the ways past the admission that the code leaves    *)
(* open: a start job that dies, or throws, after it has created its run    *)
(* and is tried again, a start while a start job is on its last attempt,   *)
(* and a start that asks for runs before one is created and for jobs after *)
(* its job has ended.                                                      *)
OneLiveRun == slipped \/ live <= 1

(* Why: a job that may still create a run takes the place of a run.        *)
Creators == (IF startJob.waits THEN 1 ELSE 0)
            + (IF control.pc = "start" \/ (control.pc = "died" /\ control.tries < StartAttempts)
               THEN 1 ELSE 0)
AdmissionInv ==
  /\ AdmissionTypeOK
  /\ slipped \/ live + Creators <= 1
=============================================================================
