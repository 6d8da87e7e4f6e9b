--------------------------- MODULE CrawlRunProofs ---------------------------
(***************************************************************************)
(* Theorems about CrawlRun, for any number of runs, schedulers, workers,   *)
(* pages, commands, faults and slow jobs: every variable keeps its type;   *)
(* the crawl runs of a query implement the life cycle of RunLifecycle and  *)
(* one of them runs at a time; until a slow job loses its lock, a complete *)
(* run has fetched all its pages; and while nothing fails, a running run   *)
(* always has a job or a scheduler that is about to add it.                *)
(***************************************************************************)
EXTENDS CrawlRun, TLAPS

RunsTyped == run \in [Runs -> RunType] /\ latest \in Runs \cup {NoRun}

FetchedTyped == fetched \in [Runs -> [Pages -> SUBSET (1 .. MaxAttempts)]]

JobsTyped ==
  /\ job \in [Runs -> [Pages -> JobType]]
  /\ \A r \in Runs, p \in Pages : job[r][p].state = "ready" => job[r][p].tries < MaxAttempts

WorkersTyped ==
  /\ worker \in [Workers -> WorkerType]
  /\ \A w \in Workers :
       /\ worker[w].pc # "idle" => worker[w].run \in Runs /\ worker[w].tries > 0
       /\ worker[w].pc = "persist" => worker[w].result \in Responses

SchedsTyped ==
  /\ sched \in [Schedulers -> SchedulerType]
  /\ \A s \in Schedulers : sched[s].pc \in {"enqueue", "fail"} => sched[s].run \in Runs

QueueTyped == holder \in Workers \cup {Manual, Free, Gone}

ControlTyped ==
  /\ query \in [enabled : BOOLEAN, paused : BOOLEAN]
  /\ crawler \in BOOLEAN
  /\ owed \in BOOLEAN
  /\ spent \in [commands : 0 .. MaxCommands, faults : 0 .. MaxFaults, slow : BOOLEAN]

(* The type invariant, with what makes it inductive: a ready job has tries *)
(* left, an execution is at least its first try, and it has a response     *)
(* when it stores its evidence.                                            *)
TypeInv ==
  /\ RunsTyped /\ FetchedTyped /\ JobsTyped /\ WorkersTyped /\ SchedsTyped
  /\ QueueTyped /\ ControlTyped

\* The strengthened invariant contains the type invariant.
LEMMA TypeInvGivesTypeOK == TypeInv => TypeOK
  BY DEF TypeInv, TypeOK, RunsTyped, FetchedTyped, JobsTyped, WorkersTyped, SchedsTyped,
         QueueTyped, ControlTyped

\* The initial state is typed.
LEMMA TypeInit == Init => TypeInv
<1> SUFFICES ASSUME Init PROVE TypeInv
  OBVIOUS
<1>1. RunsTyped
  BY CrawlRunConstants DEF Init, RunsTyped, RunType, NewRun, Ended
<1>2. FetchedTyped
  BY DEF Init, FetchedTyped
<1>3. JobsTyped
  BY CrawlRunConstants DEF Init, JobsTyped, JobType, NoJob
<1>4. WorkersTyped
  BY CrawlRunConstants DEF Init, WorkersTyped, WorkerType, IdleWorker, Execution, Pages, Responses, Causes
<1>5. SchedsTyped
  BY DEF Init, SchedsTyped, SchedulerType, IdleScheduler
<1>6. QueueTyped
  BY DEF Init, QueueTyped
<1>7. 0 \in 0 .. MaxCommands /\ 0 \in 0 .. MaxFaults
  BY CrawlRunConstants
<1>8. ControlTyped
  BY <1>7, Zenon DEF Init, ControlTyped
<1> QED
  BY <1>1, <1>2, <1>3, <1>4, <1>5, <1>6, <1>8 DEF TypeInv

-----------------------------------------------------------------------------
(* What the building blocks of the actions do to the types.                *)

\* A completion ends a run with one of the statuses of runs that are over.
LEMMA ClassifiedEnds ==
  ASSUME NEW r, NEW cause, NEW covered
  PROVE  Classified(r, cause, covered) \in Ended
  BY DEF Classified, Ended

\* completeCrawlRun keeps the runs typed.
LEMMA CompleteTyped ==
  ASSUME RunsTyped, NEW r \in Runs, NEW cause, Complete(r, cause)
  PROVE  RunsTyped'
<1>1. CASE ~Active(r) \/ (cause = "stale" /\ Live(r))
  BY <1>1 DEF Complete, RunsTyped
<1>2. CASE ~(~Active(r) \/ (cause = "stale" /\ Live(r)))
  <2>1. PICK covered \in BOOLEAN :
          /\ run' = [run EXCEPT ![r].status = Classified(r, cause, covered)]
          /\ latest' = IF Classified(r, cause, covered) = "completed" THEN r ELSE latest
    BY <1>2 DEF Complete
  <2>2. Classified(r, cause, covered) \in Ended
    BY ClassifiedEnds
  <2> QED
    BY <2>1, <2>2 DEF RunsTyped, RunType
<1> QED
  BY <1>1, <1>2

\* A worker that goes on at another place of its job stays typed.
LEMMA GotoTyped ==
  ASSUME WorkersTyped, NEW w \in Workers, worker[w].pc # "idle",
         NEW pc \in {"context", "fetch", "pauseThenEnd", "reserve", "end",
                     "endThenPause", "pause", "next", "catch", "stop", "complete", "fail"},
         Goto(w, pc)
  PROVE  WorkersTyped'
  BY DEF WorkersTyped, WorkerType, Goto

\* A worker may be replaced by a typed one.
LEMMA WorkerTyped ==
  ASSUME WorkersTyped, NEW w \in Workers, NEW new \in WorkerType,
         new.pc # "idle" => new.run \in Runs /\ new.tries > 0,
         new.pc = "persist" => new.result \in Responses,
         worker' = [worker EXCEPT ![w] = new]
  PROVE  WorkersTyped'
  BY DEF WorkersTyped

\* A worker that ends its job is idle.
LEMMA IdleTyped ==
  ASSUME WorkersTyped, NEW w \in Workers, worker' = [worker EXCEPT ![w] = IdleWorker]
  PROVE  WorkersTyped'
  BY CrawlRunConstants DEF WorkersTyped, WorkerType, IdleWorker, Execution, Pages, Responses, Causes

\* Adding a page job keeps jobs and workers typed.
LEMMA AddTyped ==
  ASSUME JobsTyped, NEW r \in Runs, NEW p, NEW workers \in [Workers -> WorkerType],
         \A w \in Workers :
           /\ workers[w].pc # "idle" => workers[w].run \in Runs /\ workers[w].tries > 0
           /\ workers[w].pc = "persist" => workers[w].result \in Responses,
         AddPageJob(r, p, workers)
  PROVE  JobsTyped' /\ WorkersTyped'
<1> DEFINE new == [state |-> "ready", tries |-> 0]
           rows == [job[r] EXCEPT ![p] = new]
<1>1. new \in JobType /\ new.tries < MaxAttempts
  BY CrawlRunConstants DEF JobType
<1>2. job' = [job EXCEPT ![r] = rows]
  BY DEF AddPageJob
<1> HIDE DEF new
<1>3. /\ rows \in [Pages -> JobType]
      /\ \A q \in Pages : rows[q].state = "ready" => rows[q].tries < MaxAttempts
  BY <1>1 DEF JobsTyped
<1> HIDE DEF rows
<1>4. JobsTyped'
  BY <1>2, <1>3 DEF JobsTyped
<1>5. CASE worker' = workers
  BY <1>4, <1>5 DEF WorkersTyped
<1>6. CASE worker' = Disowned(workers, r, p)
  <2>1. \A w \in Workers : worker'[w] = workers[w] \/ worker'[w] = [workers[w] EXCEPT !.owns = FALSE]
    BY <1>6 DEF Disowned
  <2>2. \A w \in Workers :
          /\ worker'[w] \in WorkerType
          /\ worker'[w].pc # "idle" => worker'[w].run \in Runs /\ worker'[w].tries > 0
          /\ worker'[w].pc = "persist" => worker'[w].result \in Responses
    <3> TAKE w \in Workers
    <3>1. CASE worker'[w] = workers[w]
      BY <3>1
    <3>2. CASE worker'[w] = [workers[w] EXCEPT !.owns = FALSE]
      <4>1. /\ workers[w] \in WorkerType
            /\ workers[w].pc # "idle" => workers[w].run \in Runs /\ workers[w].tries > 0
            /\ workers[w].pc = "persist" => workers[w].result \in Responses
        OBVIOUS
      <4> QED
        BY ONLY <3>2, <4>1 DEF WorkerType
    <3> QED
      BY <2>1, <3>1, <3>2
  <2>3. worker' \in [Workers -> WorkerType]
    BY <1>6, <2>2 DEF Disowned
  <2> QED
    BY <1>4, <2>2, <2>3 DEF WorkersTyped
<1> QED
  BY <1>5, <1>6 DEF AddPageJob

\* An unlocked job has tries left or is dead.
LEMMA UnlockedTyped ==
  ASSUME NEW j \in JobType, j.state = "ready" => j.tries < MaxAttempts
  PROVE  /\ Unlocked(j) \in JobType
         /\ Unlocked(j).state = "ready" => Unlocked(j).tries < MaxAttempts
  BY CrawlRunConstants DEF JobType, Unlocked

\* A scheduler that goes on, without a run of its own, stays typed.
LEMMA SchedGotoTyped ==
  ASSUME SchedsTyped, NEW s \in Schedulers,
         NEW pc \in {"idle", "recoverRead", "recover", "read", "create"}, SchedGoto(s, pc)
  PROVE  SchedsTyped'
  BY DEF SchedsTyped, SchedulerType, SchedGoto

\* A scheduler that is done is idle, and no longer holds the queue.
LEMMA SchedDoneTyped ==
  ASSUME SchedsTyped, QueueTyped, NEW s \in Schedulers, SchedDone(s)
  PROVE  SchedsTyped' /\ QueueTyped'
  BY DEF SchedsTyped, SchedulerType, SchedDone, IdleScheduler, QueueTyped, ReleasedLock

\* A fault or an operator command is counted within its bound.
LEMMA CountTyped ==
  ASSUME ControlTyped,
         \/ spent.faults < MaxFaults /\ spent' = [spent EXCEPT !.faults = @ + 1]
         \/ spent.faults < MaxFaults /\ spent' = [spent EXCEPT !.faults = @ + 1, !.slow = TRUE]
         \/ spent.commands < MaxCommands /\ spent' = [spent EXCEPT !.commands = @ + 1]
  PROVE  spent' \in [commands : 0 .. MaxCommands, faults : 0 .. MaxFaults, slow : BOOLEAN]
<1>1. spent.faults \in 0 .. MaxFaults /\ spent.commands \in 0 .. MaxCommands
  BY Zenon DEF ControlTyped
<1>2. spent.faults < MaxFaults => spent.faults + 1 \in 0 .. MaxFaults
  BY <1>1, CrawlRunConstants
<1>3. spent.commands < MaxCommands => spent.commands + 1 \in 0 .. MaxCommands
  BY <1>1, CrawlRunConstants
<1> QED
  BY <1>2, <1>3, Zenon DEF ControlTyped

\* A fault that leaves the query and the crawler alone.
LEMMA FaultTyped ==
  ASSUME ControlTyped, UNCHANGED <<query, crawler, owed>>, spent.faults < MaxFaults,
         \/ spent' = [spent EXCEPT !.faults = @ + 1]
         \/ spent' = [spent EXCEPT !.faults = @ + 1, !.slow = TRUE]
  PROVE  ControlTyped'
  BY CountTyped DEF ControlTyped

-----------------------------------------------------------------------------
(* The steps of the schedulers keep the types.                             *)

\* A schedule job that starts.
LEMMA TakeScheduleTyped ==
  ASSUME TypeInv, NEW s \in Schedulers, TakeSchedule(s)
  PROVE  TypeInv'
<1>1. SchedsTyped'
  BY SchedGotoTyped DEF TypeInv, TakeSchedule
<1>2. QueueTyped'
  BY DEF TypeInv, QueueTyped, TakeSchedule
<1>3. spent'.commands \in 0 .. MaxCommands /\ spent' = [spent EXCEPT !.commands = spent'.commands]
  BY CrawlRunConstants DEF TypeInv, ControlTyped, TakeSchedule
<1>4. ControlTyped'
  BY <1>3, Zenon DEF TypeInv, ControlTyped, TakeSchedule, pageVars
<1>5. RunsTyped' /\ FetchedTyped' /\ JobsTyped' /\ WorkersTyped'
  BY DEF TypeInv, RunsTyped, FetchedTyped, JobsTyped, WorkersTyped, TakeSchedule, pageVars
<1> QED
  BY <1>1, <1>2, <1>3, <1>4, <1>5 DEF TypeInv

\* The stale runs are read, and each of them is completed.
LEMMA RecoverTyped ==
  ASSUME TypeInv, NEW s \in Schedulers, RecoverRead(s) \/ Recover(s)
  PROVE  TypeInv'
<1>1. RunsTyped'
  <2>1. CASE RecoverRead(s)
    BY <2>1 DEF TypeInv, RunsTyped, RecoverRead
  <2>2. CASE Recover(s)
    BY <2>2, CompleteTyped DEF TypeInv, SchedsTyped, SchedulerType, Recover
  <2> QED
    BY <2>1, <2>2
<1>2. SchedsTyped'
  <2>1. CASE RecoverRead(s)
    BY <2>1 DEF TypeInv, SchedsTyped, SchedulerType, RecoverRead
  <2>2. CASE Recover(s)
    <3>1. PICK pc \in {"read", "recover"}, todo \in SUBSET Runs :
            sched' = [sched EXCEPT ![s].pc = pc, ![s].todo = todo]
      <4>1. PICK r \in sched[s].todo :
              sched' = [sched EXCEPT ![s].pc = IF sched[s].todo = {r} THEN "read" ELSE "recover",
                                     ![s].todo = @ \ {r}]
        BY <2>2 DEF Recover
      <4>2. sched[s].todo \ {r} \in SUBSET Runs
        BY DEF TypeInv, SchedsTyped, SchedulerType
      <4>3. sched' = [sched EXCEPT ![s].pc = IF sched[s].todo = {r} THEN "read" ELSE "recover",
                                   ![s].todo = sched[s].todo \ {r}]
        BY <4>1, Zenon DEF TypeInv, SchedsTyped
      <4> QED
        BY <4>2, <4>3
    <3> QED
      BY <3>1 DEF TypeInv, SchedsTyped, SchedulerType
  <2> QED
    BY <2>1, <2>2
<1>3. FetchedTyped' /\ JobsTyped' /\ WorkersTyped' /\ QueueTyped' /\ ControlTyped'
  BY DEF TypeInv, FetchedTyped, JobsTyped, WorkersTyped, QueueTyped, ControlTyped, RecoverRead, Recover, pageVars
<1> QED
  BY <1>1, <1>2, <1>3 DEF TypeInv

\* A query that may be scheduled.
LEMMA ReadScheduleTyped ==
  ASSUME TypeInv, NEW s \in Schedulers, ReadSchedulable(s)
  PROVE  TypeInv'
<1>1. SchedsTyped' /\ QueueTyped'
  <2>1. CASE SchedGoto(s, "create") /\ UNCHANGED holder
    BY <2>1, SchedGotoTyped DEF TypeInv, QueueTyped
  <2>2. CASE SchedDone(s)
    BY <2>2, SchedDoneTyped DEF TypeInv
  <2> QED
    BY <2>1, <2>2 DEF ReadSchedulable
<1>2. RunsTyped' /\ FetchedTyped' /\ JobsTyped' /\ WorkersTyped' /\ ControlTyped'
  BY DEF TypeInv, RunsTyped, FetchedTyped, JobsTyped, WorkersTyped, ControlTyped, ReadSchedulable, pageVars
<1> QED
  BY <1>1, <1>2 DEF TypeInv

\* A new run.
LEMMA CreateRunTyped ==
  ASSUME TypeInv, NEW s \in Schedulers, CreateRun(s)
  PROVE  TypeInv'
<1>1. RunsTyped' /\ SchedsTyped' /\ QueueTyped'
  <2>1. CASE SchedDone(s) /\ UNCHANGED run
    BY <2>1, SchedDoneTyped DEF TypeInv, RunsTyped, CreateRun
  <2>2. CASE /\ \E r \in Runs :
                  /\ run' = [run EXCEPT ![r].status = "running"]
                  /\ sched' = [sched EXCEPT ![s].pc = "enqueue", ![s].run = r]
             /\ UNCHANGED holder
    <3>1. PICK r \in Runs :
            /\ run' = [run EXCEPT ![r].status = "running"]
            /\ sched' = [sched EXCEPT ![s].pc = "enqueue", ![s].run = r]
      BY <2>2
    <3>2. RunsTyped'
      BY <3>1 DEF TypeInv, RunsTyped, RunType, CreateRun
    <3>3. SchedsTyped'
      BY <3>1 DEF TypeInv, SchedsTyped, SchedulerType
    <3> QED
      BY <2>2, <3>2, <3>3 DEF TypeInv, QueueTyped
  <2> QED
    BY <2>1, <2>2 DEF CreateRun
<1>2. FetchedTyped' /\ JobsTyped' /\ WorkersTyped' /\ ControlTyped'
  BY DEF TypeInv, FetchedTyped, JobsTyped, WorkersTyped, ControlTyped, CreateRun, pageVars
<1> QED
  BY <1>1, <1>2 DEF TypeInv

\* The first page of a run is enqueued, or fails to be.
LEMMA EnqueueFirstTyped ==
  ASSUME TypeInv, NEW s \in Schedulers, EnqueueFirst(s) \/ EnqueueFirstFails(s)
  PROVE  TypeInv'
<1>1. sched[s].run \in Runs
  BY DEF TypeInv, SchedsTyped, EnqueueFirst, EnqueueFirstFails
<1>2. JobsTyped' /\ WorkersTyped'
  <2>1. CASE EnqueueFirst(s)
    BY <1>1, <2>1, AddTyped DEF TypeInv, WorkersTyped, EnqueueFirst
  <2>2. CASE EnqueueFirstFails(s)
    BY <2>2 DEF TypeInv, JobsTyped, WorkersTyped, EnqueueFirstFails
  <2> QED
    BY <2>1, <2>2
<1>3. SchedsTyped' /\ QueueTyped'
  <2>1. CASE EnqueueFirst(s)
    BY <2>1, SchedDoneTyped DEF TypeInv, EnqueueFirst
  <2>2. CASE EnqueueFirstFails(s)
    BY <1>1, <2>2 DEF TypeInv, SchedsTyped, SchedulerType, QueueTyped, EnqueueFirstFails, SchedGoto
  <2> QED
    BY <2>1, <2>2
<1>4. ControlTyped'
  <2>1. CASE EnqueueFirst(s)
    BY <2>1 DEF TypeInv, ControlTyped, EnqueueFirst, pageVars
  <2>2. CASE EnqueueFirstFails(s)
    BY <2>2, FaultTyped DEF TypeInv, EnqueueFirstFails, ControlTyped, pageVars
  <2> QED
    BY <2>1, <2>2
<1>5. RunsTyped' /\ FetchedTyped'
  BY DEF TypeInv, RunsTyped, FetchedTyped, EnqueueFirst, EnqueueFirstFails, pageVars
<1> QED
  BY <1>1, <1>2, <1>3, <1>4, <1>5 DEF TypeInv

\* The run whose first page could not be enqueued ends.
LEMMA EndUnscheduledTyped ==
  ASSUME TypeInv, NEW s \in Schedulers, EndUnscheduled(s)
  PROVE  TypeInv'
<1>1. RunsTyped'
  BY CompleteTyped DEF TypeInv, SchedsTyped, EndUnscheduled
<1>2. SchedsTyped' /\ QueueTyped'
  BY SchedDoneTyped DEF TypeInv, EndUnscheduled
<1>3. FetchedTyped' /\ JobsTyped' /\ WorkersTyped' /\ ControlTyped'
  BY DEF TypeInv, FetchedTyped, JobsTyped, WorkersTyped, ControlTyped, EndUnscheduled, pageVars
<1> QED
  BY <1>1, <1>2, <1>3 DEF TypeInv

\* A scheduler that fails or dies.
LEMMA ScheduleFailsTyped ==
  ASSUME TypeInv, NEW s \in Schedulers, ScheduleFails(s)
  PROVE  TypeInv'
<1>1. SchedsTyped'
  BY DEF TypeInv, SchedsTyped, SchedulerType, IdleScheduler, ScheduleFails
<1>2. QueueTyped'
  BY DEF TypeInv, QueueTyped, ScheduleFails
<1>3. ControlTyped'
  BY FaultTyped DEF TypeInv, ScheduleFails, pageVars
<1>4. RunsTyped' /\ FetchedTyped' /\ JobsTyped' /\ WorkersTyped'
  BY DEF TypeInv, RunsTyped, FetchedTyped, JobsTyped, WorkersTyped, ScheduleFails, pageVars
<1> QED
  BY <1>1, <1>2, <1>3, <1>4 DEF TypeInv

-----------------------------------------------------------------------------
(* The steps of the page jobs keep the types.                              *)

\* A ready page job starts, which uses one of its tries.
LEMMA TakePageTyped ==
  ASSUME TypeInv, NEW w \in Workers, NEW r \in Runs, NEW p \in Pages, TakePage(w, r, p)
  PROVE  TypeInv'
<1>1. job[r][p].tries + 1 \in 1 .. MaxAttempts
  BY CrawlRunConstants DEF TypeInv, JobsTyped, JobType, TakePage
<1>2. JobsTyped'
  <2>1. job' = [job EXCEPT ![r][p] = [state |-> "locked", tries |-> job[r][p].tries + 1]]
    BY DEF TypeInv, JobsTyped, TakePage
  <2> QED
    BY <1>1, <2>1, CrawlRunConstants DEF TypeInv, JobsTyped, JobType
<1>3. WorkersTyped'
  <2>1. PICK pc \in {"context", "stop"}, n \in 1 .. MaxAttempts :
          worker' = [worker EXCEPT ![w] = Execution(pc, r, p, n, TRUE)]
    BY <1>1, Zenon DEF TakePage
  <2>2. 0 \in 0 .. MaxPage /\ n \in 0 .. MaxAttempts /\ n > 0
    BY CrawlRunConstants
  <2>3. Execution(pc, r, p, n, TRUE) \in WorkerType
    BY <2>2, Zenon DEF WorkerType, Causes, Execution
  <2>4. /\ Execution(pc, r, p, n, TRUE).run = r /\ Execution(pc, r, p, n, TRUE).tries = n
        /\ Execution(pc, r, p, n, TRUE).pc # "persist"
    BY DEF Execution
  <2> QED
    BY <2>1, <2>2, <2>3, <2>4, WorkerTyped DEF TypeInv
<1>4. QueueTyped'
  BY DEF TypeInv, QueueTyped, TakePage
<1>5. RunsTyped' /\ FetchedTyped' /\ SchedsTyped' /\ ControlTyped'
  BY DEF TypeInv, RunsTyped, FetchedTyped, SchedsTyped, ControlTyped, TakePage, restVars
<1> QED
  BY <1>1, <1>2, <1>3, <1>4, <1>5 DEF TypeInv

\* An execution that is not idle has a run and has been tried.
LEMMA BusyTyped ==
  ASSUME TypeInv, NEW w \in Workers, worker[w].pc # "idle"
  PROVE  worker[w].run \in Runs /\ worker[w].tries \in 1 .. MaxAttempts
<1>1. worker[w].tries \in 0 .. MaxAttempts /\ worker[w].tries > 0 /\ worker[w].run \in Runs
  BY DEF TypeInv, WorkersTyped, WorkerType
<1> QED
  BY <1>1, CrawlRunConstants

\* The steps that end the run and go on.
LEMMA EndsTyped ==
  ASSUME TypeInv, NEW w \in Workers, StopRun(w) \/ EndPage(w) \/ EndUnusual(w) \/ PageCatch(w)
  PROVE  TypeInv'
<1>1. worker[w].pc # "idle"
  BY DEF StopRun, EndPage, EndUnusual, PageCatch
<1>2. RunsTyped'
  <2>1. ASSUME NEW cause, Complete(worker[w].run, cause)
        PROVE  RunsTyped'
    BY <1>1, <2>1, BusyTyped, CompleteTyped DEF TypeInv
  <2>2. CASE UNCHANGED <<run, latest>>
    BY <2>2 DEF TypeInv, RunsTyped
  <2> QED
    BY <2>1, <2>2 DEF StopRun, EndPage, EndUnusual, PageCatch
<1>3. WorkersTyped'
  <2>1. \E pc \in {"complete", "pause", "fail"} : Goto(w, pc)
    BY DEF StopRun, EndPage, EndUnusual, PageCatch
  <2> QED
    BY <1>1, <2>1, GotoTyped DEF TypeInv
<1>4. ControlTyped'
  <2>1. UNCHANGED <<query, crawler, spent>> /\ (owed' = owed \/ owed' = TRUE)
    BY DEF StopRun, EndPage, EndUnusual, PageCatch, restVars
  <2> QED
    BY <2>1, Zenon DEF TypeInv, ControlTyped
<1>5. FetchedTyped' /\ JobsTyped' /\ SchedsTyped' /\ QueueTyped'
  BY DEF TypeInv, FetchedTyped, JobsTyped, SchedsTyped, QueueTyped, StopRun, EndPage, EndUnusual, PageCatch, queueVars, restVars
<1> QED
  BY <1>1, <1>2, <1>3, <1>4, <1>5 DEF TypeInv

\* The page reads its context.
LEMMA PageContextTyped ==
  ASSUME TypeInv, NEW w \in Workers, PageContext(w)
  PROVE  TypeInv'
<1>1. WorkersTyped'
  <2>1. worker[w].pc # "idle" /\ \E pc \in {"complete", "stop", "fetch"} : Goto(w, pc)
    BY DEF PageContext
  <2> QED
    BY <2>1, GotoTyped DEF TypeInv
<1>2. RunsTyped' /\ FetchedTyped' /\ JobsTyped' /\ SchedsTyped' /\ QueueTyped' /\ ControlTyped'
  BY DEF TypeInv, RunsTyped, FetchedTyped, JobsTyped, SchedsTyped, QueueTyped, ControlTyped, PageContext, queueVars, restVars
<1> QED
  BY <1>1, <1>2 DEF TypeInv

\* The request of the page.
LEMMA PageFetchTyped ==
  ASSUME TypeInv, NEW w \in Workers, PageFetch(w)
  PROVE  TypeInv'
<1>1. WorkersTyped'
  <2>1. PICK result \in Responses, total \in 0 .. MaxPage :
          worker' = [worker EXCEPT ![w].pc = "persist", ![w].result = result, ![w].total = total]
    BY DEF PageFetch
  <2> QED
    <3> DEFINE new == [worker[w] EXCEPT !.pc = "persist", !.result = result, !.total = total]
    <3>1. /\ worker[w] \in WorkerType /\ worker[w].pc # "idle"
          /\ worker[w].run \in Runs /\ worker[w].tries > 0
      BY DEF TypeInv, WorkersTyped, PageFetch
    <3>2. new \in WorkerType /\ new.pc = "persist" /\ new.result \in Responses
          /\ new.run \in Runs /\ new.tries > 0
      BY ONLY <3>1, result \in Responses, total \in 0 .. MaxPage DEF WorkerType
    <3>3. worker' = [worker EXCEPT ![w] = new]
      BY <2>1 DEF TypeInv, WorkersTyped
    <3> HIDE DEF new
    <3> QED
      BY <3>2, <3>3, WorkerTyped DEF TypeInv
<1>2. RunsTyped' /\ FetchedTyped' /\ JobsTyped' /\ SchedsTyped' /\ QueueTyped' /\ ControlTyped'
  BY DEF TypeInv, RunsTyped, FetchedTyped, JobsTyped, SchedsTyped, QueueTyped, ControlTyped, PageFetch, queueVars, restVars
<1> QED
  BY <1>1, <1>2 DEF TypeInv

\* The evidence of a page.
LEMMA PagePersistTyped ==
  ASSUME TypeInv, NEW w \in Workers, PagePersist(w)
  PROVE  TypeInv'
<1>1. worker[w].run \in Runs /\ worker[w].tries \in 1 .. MaxAttempts
  BY BusyTyped DEF PagePersist
<1>2. worker[w].total \in 0 .. MaxPage /\ worker[w].page \in Pages /\ worker[w].result \in Responses \cup {"none"}
  BY DEF TypeInv, WorkersTyped, WorkerType
<1>3. RunsTyped'
  <2>1. PICK n \in 0 .. MaxPage :
          run' = [run EXCEPT ![worker[w].run].aged = FALSE, ![worker[w].run].expected = n]
    <3>1. CASE worker[w].total = 0
      <4>1. run' = [run EXCEPT ![worker[w].run].aged = FALSE,
                               ![worker[w].run].expected = run[worker[w].run].expected]
        BY <1>1, <3>1 DEF TypeInv, RunsTyped, RunType, PagePersist
      <4>2. run[worker[w].run].expected \in 0 .. MaxPage
        BY <1>1 DEF TypeInv, RunsTyped, RunType
      <4> QED
        BY <4>1, <4>2
    <3>2. CASE worker[w].total # 0
      BY <1>2, <3>2 DEF PagePersist
    <3> QED
      BY <3>1, <3>2
  <2> QED
    <3> DEFINE r == worker[w].run
               new == [run[r] EXCEPT !.aged = FALSE, !.expected = n]
    <3>1. run[r] \in RunType /\ n \in 0 .. MaxPage
      BY <1>1, <2>1 DEF TypeInv, RunsTyped
    <3>2. new \in RunType
      BY ONLY <3>1 DEF RunType
    <3>3. run' = [run EXCEPT ![r] = new]
      BY <1>1, <2>1 DEF TypeInv, RunsTyped
    <3> HIDE DEF new
    <3> QED
      BY <1>1, <3>2, <3>3 DEF TypeInv, RunsTyped, PagePersist
<1>4. FetchedTyped'
  <2>1. PICK attempts \in SUBSET (1 .. MaxAttempts) :
          fetched' = [fetched EXCEPT ![worker[w].run][worker[w].page] = attempts]
    <3>1. fetched[worker[w].run][worker[w].page] \in SUBSET (1 .. MaxAttempts)
      BY <1>1, <1>2 DEF TypeInv, FetchedTyped
    <3>2. \/ fetched' = [fetched EXCEPT ![worker[w].run][worker[w].page] =
                            fetched[worker[w].run][worker[w].page] \cup {worker[w].tries}]
          \/ fetched' = [fetched EXCEPT ![worker[w].run][worker[w].page] =
                            fetched[worker[w].run][worker[w].page] \ {worker[w].tries}]
      BY <1>1, <1>2, Zenon DEF TypeInv, FetchedTyped, PagePersist
    <3> QED
      BY <1>1, <3>1, <3>2
  <2> QED
    BY <1>1, <1>2, <2>1 DEF TypeInv, FetchedTyped
<1>5. WorkersTyped'
  <2>1. PICK pc \in {"reserve", "pauseThenEnd", "endThenPause", "end", "catch"},
             result \in Responses \cup {"none"} :
          worker' = [worker EXCEPT ![w].pc = pc, ![w].result = result]
    <3>1. worker' \in { [worker EXCEPT ![w].pc = AfterPersist(worker[w].result)],
                        [worker EXCEPT ![w].pc = AfterPersist(worker[w].result), ![w].result = "none"] }
      BY DEF TypeInv, WorkersTyped, WorkerType, PagePersist
    <3>2. AfterPersist(worker[w].result) \in {"reserve", "pauseThenEnd", "endThenPause", "end", "catch"}
      BY DEF AfterPersist, TypeInv, WorkersTyped, PagePersist, Responses
    <3>3. [worker EXCEPT ![w].pc = AfterPersist(worker[w].result)]
            = [worker EXCEPT ![w].pc = AfterPersist(worker[w].result), ![w].result = worker[w].result]
      BY DEF TypeInv, WorkersTyped, WorkerType
    <3> QED
      BY <1>2, <3>1, <3>2, <3>3
  <2> QED
    <3> DEFINE new == [worker[w] EXCEPT !.pc = pc, !.result = result]
    <3>1. /\ worker[w] \in WorkerType
          /\ worker[w].run \in Runs /\ worker[w].tries > 0
      BY <1>1 DEF TypeInv, WorkersTyped, PagePersist
    <3>2. new \in WorkerType /\ new.pc # "persist" /\ new.run \in Runs /\ new.tries > 0
      BY <3>1, Zenon DEF WorkerType
    <3>3. worker' = [worker EXCEPT ![w] = new]
      BY <2>1 DEF TypeInv, WorkersTyped
    <3> HIDE DEF new
    <3> QED
      BY <3>2, <3>3, WorkerTyped DEF TypeInv
<1>6. JobsTyped' /\ SchedsTyped' /\ QueueTyped' /\ ControlTyped'
  BY DEF TypeInv, JobsTyped, SchedsTyped, QueueTyped, ControlTyped, PagePersist, queueVars, restVars
<1> QED
  BY <1>1, <1>2, <1>3, <1>4, <1>5, <1>6 DEF TypeInv

\* The query is paused.
LEMMA PausePageTyped ==
  ASSUME TypeInv, NEW w \in Workers, PauseBlocked(w) \/ PauseUnusual(w)
  PROVE  TypeInv'
<1>1. WorkersTyped'
  <2>1. worker[w].pc # "idle" /\ \E pc \in {"end", "complete"} : Goto(w, pc)
    BY DEF PauseBlocked, PauseUnusual, PausePage
  <2> QED
    BY <2>1, GotoTyped DEF TypeInv
<1>2. ControlTyped'
  <2>1. /\ query' = [query EXCEPT !.paused = TRUE] /\ UNCHANGED <<crawler, spent>>
        /\ owed' = owed \/ owed' = FALSE
    BY DEF PauseBlocked, PauseUnusual, PausePage
  <2> QED
    BY <2>1, Zenon DEF TypeInv, ControlTyped
<1>3. RunsTyped' /\ FetchedTyped' /\ JobsTyped' /\ SchedsTyped' /\ QueueTyped'
  BY DEF TypeInv, RunsTyped, FetchedTyped, JobsTyped, SchedsTyped, QueueTyped, PauseBlocked, PauseUnusual, PausePage, queueVars
<1> QED
  BY <1>1, <1>2, <1>3 DEF TypeInv

\* The cause of the end of a crawl is one of the causes.
LEMMA EndsRunCause ==
  ASSUME NEW w
  PROVE  EndsRun(w) = "none" \/ EndsRun(w) \in Causes
  BY DEF EndsRun, Causes

\* A reservation stays within the limit.
LEMMA ReservedBounded ==
  ASSUME NEW reserved \in 0 .. DetailLimit, NEW requested \in Nat
  PROVE  reserved + Reserved(reserved, requested) \in 0 .. DetailLimit
  BY CrawlRunConstants DEF Reserved

\* Detail jobs are reserved, and the page goes on or ends the crawl.
LEMMA PageReserveTyped ==
  ASSUME TypeInv, NEW w \in Workers, PageReserve(w)
  PROVE  TypeInv'
<1>1. worker[w].run \in Runs /\ worker[w].pc # "idle" /\ worker[w].tries \in 1 .. MaxAttempts
  BY BusyTyped DEF PageReserve
<1>2. RunsTyped'
  <2> DEFINE r == worker[w].run
  <2>1. PICK requested \in {0, Candidates} :
          run' = IF requested > 0 /\ DetailLimit > 0 /\ Active(r)
                 THEN [run EXCEPT ![r].reserved = @ + Reserved(@, requested), ![r].aged = FALSE]
                 ELSE run
    BY DEF PageReserve
  <2>2. CASE run' = run
    BY <2>2 DEF TypeInv, RunsTyped, PageReserve
  <2>3. CASE run' = [run EXCEPT ![r].reserved = @ + Reserved(@, requested), ![r].aged = FALSE]
    <3> DEFINE n == run[r].reserved + Reserved(run[r].reserved, requested)
               new == [run[r] EXCEPT !.reserved = n, !.aged = FALSE]
    <3>1. run[r] \in RunType /\ run[r].reserved \in 0 .. DetailLimit
      BY <1>1 DEF TypeInv, RunsTyped, RunType
    <3>2. n \in 0 .. DetailLimit
      BY <3>1, ReservedBounded, CrawlRunConstants
    <3>3. run' = [run EXCEPT ![r] = new]
      BY <1>1, <2>3 DEF TypeInv, RunsTyped
    <3> HIDE DEF n
    <3>4. new \in RunType
      BY ONLY <3>1, <3>2 DEF RunType
    <3> HIDE DEF new
    <3> QED
      BY <1>1, <3>3, <3>4 DEF TypeInv, RunsTyped, PageReserve
  <2> QED
    BY <2>1, <2>2, <2>3
<1>3. WorkersTyped'
  <2>1. PICK pc \in {"next", "end"}, cause \in Causes :
          worker' = [worker EXCEPT ![w] = [worker[w] EXCEPT !.result = "none", !.total = 0,
                                                            !.pc = pc, !.cause = cause]]
    <3> DEFINE goes == [worker EXCEPT ![w] = [worker[w] EXCEPT !.result = "none", !.total = 0]]
    <3>1. worker \in [Workers -> WorkerType] /\ worker[w].cause \in Causes
      BY DEF TypeInv, WorkersTyped, WorkerType
    <3>2. CASE EndsRun(w) = "none"
      <4>1. worker' = [goes EXCEPT ![w].pc = "next"]
        BY <3>2 DEF PageReserve
      <4>2. worker' = [worker EXCEPT ![w] = [worker[w] EXCEPT !.result = "none", !.total = 0,
                                                  !.pc = "next", !.cause = worker[w].cause]]
        BY <3>1, <4>1 DEF WorkerType
      <4> QED
        BY <3>1, <4>2
    <3>3. CASE EndsRun(w) # "none"
      <4>1. worker' = [goes EXCEPT ![w].pc = "end", ![w].cause = EndsRun(w)]
        BY <3>3 DEF PageReserve
      <4>2. worker' = [worker EXCEPT ![w] = [worker[w] EXCEPT !.result = "none", !.total = 0,
                                                  !.pc = "end", !.cause = EndsRun(w)]]
        BY <3>1, <4>1 DEF WorkerType
      <4> QED
        BY <3>3, <4>2, EndsRunCause
    <3> QED
      BY <3>2, <3>3
  <2> DEFINE new == [worker[w] EXCEPT !.result = "none", !.total = 0, !.pc = pc, !.cause = cause]
  <2>2. worker[w] \in WorkerType /\ 0 \in 0 .. MaxPage
    BY CrawlRunConstants DEF TypeInv, WorkersTyped
  <2>3. new \in WorkerType /\ new.pc # "persist"
    BY <2>2, Zenon DEF WorkerType
  <2>4. new.run = worker[w].run /\ new.tries = worker[w].tries
    BY ONLY <2>2 DEF WorkerType
  <2>5. worker[w].tries > 0
    BY <1>1
  <2> HIDE DEF new
  <2> QED
    BY <1>1, <2>1, <2>3, <2>4, <2>5, WorkerTyped DEF TypeInv, new
<1>4. FetchedTyped' /\ JobsTyped' /\ SchedsTyped' /\ QueueTyped' /\ ControlTyped'
  BY DEF TypeInv, FetchedTyped, JobsTyped, SchedsTyped, QueueTyped, ControlTyped, PageReserve, queueVars, restVars
<1> QED
  BY <1>1, <1>2, <1>3, <1>4 DEF TypeInv

\* The next page is enqueued.
LEMMA NextPageTyped ==
  ASSUME TypeInv, NEW w \in Workers, NextPage(w)
  PROVE  TypeInv'
<1>1. worker[w].run \in Runs /\ worker[w].pc # "idle"
  BY BusyTyped DEF NextPage
<1>2. JobsTyped' /\ WorkersTyped'
  <2> DEFINE gone == [worker EXCEPT ![w].pc = "complete"]
  <2>1. /\ gone \in [Workers -> WorkerType]
        /\ \A v \in Workers :
             /\ gone[v].pc # "idle" => gone[v].run \in Runs /\ gone[v].tries > 0
             /\ gone[v].pc = "persist" => gone[v].result \in Responses
    BY <1>1 DEF TypeInv, WorkersTyped, WorkerType
  <2> HIDE DEF gone
  <2>2. AddPageJob(worker[w].run, worker[w].page + 1, gone)
    BY DEF NextPage, gone
  <2> QED
    BY <1>1, <2>1, <2>2, AddTyped DEF TypeInv
<1>3. RunsTyped' /\ FetchedTyped' /\ SchedsTyped' /\ QueueTyped' /\ ControlTyped'
  BY DEF TypeInv, RunsTyped, FetchedTyped, SchedsTyped, QueueTyped, ControlTyped, NextPage, restVars
<1> QED
  BY <1>1, <1>2, <1>3 DEF TypeInv

\* A page job fails and may be tried again.
LEMMA JobFailsTyped ==
  ASSUME TypeInv, NEW w \in Workers, JobFails(w)
  PROVE  TypeInv'
<1>1. worker[w].run \in Runs
  BY BusyTyped DEF JobFails
<1>2. JobsTyped'
  <2>1. CASE job' = job
    BY <2>1 DEF TypeInv, JobsTyped
  <2>2. CASE job' = [job EXCEPT ![worker[w].run][worker[w].page] =
                       Unlocked(job[worker[w].run][worker[w].page])]
    <3> DEFINE r == worker[w].run
               p == worker[w].page
               new == Unlocked(job[r][p])
    <3>1. r \in Runs /\ p \in Pages
      BY <1>1 DEF TypeInv, WorkersTyped, WorkerType
    <3>2. new \in JobType /\ (new.state = "ready" => new.tries < MaxAttempts)
      BY <3>1, UnlockedTyped DEF TypeInv, JobsTyped
    <3>3. job' = [job EXCEPT ![r][p] = new]
      BY <2>2
    <3> HIDE DEF r, p, new
    <3> QED
      BY <3>1, <3>2, <3>3 DEF TypeInv, JobsTyped
  <2> QED
    BY <1>1, <2>1, <2>2, Zenon DEF JobFails, TypeInv, JobsTyped
<1>3. WorkersTyped'
  BY IdleTyped DEF TypeInv, JobFails
<1>4. QueueTyped'
  BY DEF TypeInv, QueueTyped, ReleasedLock, JobFails
<1>5. RunsTyped' /\ FetchedTyped' /\ SchedsTyped' /\ ControlTyped'
  BY DEF TypeInv, RunsTyped, FetchedTyped, SchedsTyped, ControlTyped, JobFails, restVars
<1> QED
  BY <1>1, <1>2, <1>3, <1>4, <1>5 DEF TypeInv

\* A page job is done.
LEMMA JobCompletesTyped ==
  ASSUME TypeInv, NEW w \in Workers, JobCompletes(w)
  PROVE  TypeInv'
<1>1. worker[w].run \in Runs /\ worker[w].page \in Pages
  BY BusyTyped DEF JobCompletes, TypeInv, WorkersTyped, WorkerType
<1>2. JobsTyped'
  <2>1. CASE job' = job
    BY <2>1 DEF TypeInv, JobsTyped
  <2>2. CASE job' = [job EXCEPT ![worker[w].run][worker[w].page] = NoJob]
    BY <1>1, <2>2, CrawlRunConstants DEF TypeInv, JobsTyped, JobType, NoJob
  <2> QED
    BY <2>1, <2>2 DEF JobCompletes
<1>3. WorkersTyped'
  <2> DEFINE r == worker[w].run
             p == worker[w].page
  <2>1. CASE worker' = [worker EXCEPT ![w] = IdleWorker]
    BY <2>1, IdleTyped DEF TypeInv
  <2>2. CASE worker' = [Disowned(worker, r, p) EXCEPT ![w] = IdleWorker]
    <3>1. \A v \in Workers :
            worker'[v] = IdleWorker \/ worker'[v] = worker[v]
              \/ worker'[v] = [worker[v] EXCEPT !.owns = FALSE]
      BY <2>2 DEF Disowned
    <3>2. /\ IdleWorker \in WorkerType /\ IdleWorker.pc = "idle"
      BY CrawlRunConstants DEF WorkerType, IdleWorker, Execution, Pages, Responses, Causes
    <3>3. \A v \in Workers :
            /\ worker'[v] \in WorkerType
            /\ worker'[v].pc # "idle" => worker'[v].run \in Runs /\ worker'[v].tries > 0
            /\ worker'[v].pc = "persist" => worker'[v].result \in Responses
      <4> TAKE v \in Workers
      <4>1. /\ worker[v] \in WorkerType
            /\ worker[v].pc # "idle" => worker[v].run \in Runs /\ worker[v].tries > 0
            /\ worker[v].pc = "persist" => worker[v].result \in Responses
        BY DEF TypeInv, WorkersTyped
      <4>2. CASE worker'[v] = IdleWorker
        BY <3>2, <4>2
      <4>3. CASE worker'[v] = worker[v]
        BY <4>1, <4>3
      <4>4. CASE worker'[v] = [worker[v] EXCEPT !.owns = FALSE]
        BY ONLY <4>1, <4>4 DEF WorkerType
      <4> QED
        BY <3>1, <4>2, <4>3, <4>4
    <3>4. worker' \in [Workers -> WorkerType]
      BY <2>2, <3>3 DEF Disowned
    <3> QED
      BY <3>3, <3>4 DEF WorkersTyped
  <2> QED
    BY <2>1, <2>2 DEF JobCompletes
<1>4. QueueTyped'
  BY DEF TypeInv, QueueTyped, ReleasedLock, JobCompletes
<1>5. RunsTyped' /\ FetchedTyped' /\ SchedsTyped' /\ ControlTyped'
  BY DEF TypeInv, RunsTyped, FetchedTyped, SchedsTyped, ControlTyped, JobCompletes, restVars
<1> QED
  BY <1>1, <1>2, <1>3, <1>4, <1>5 DEF TypeInv

-----------------------------------------------------------------------------
(* Failures, lock recovery, the operator and the clock keep the types.     *)

\* A statement of a page job fails.
LEMMA StatementFailsTyped ==
  ASSUME TypeInv, NEW w \in Workers, StatementFails(w)
  PROVE  TypeInv'
<1>1. WorkersTyped'
  <2>1. worker[w].pc # "idle" /\ \E pc \in {"fail", "catch"} : Goto(w, pc)
    BY DEF StatementFails
  <2> QED
    BY <2>1, GotoTyped DEF TypeInv
<1>2. ControlTyped'
  BY FaultTyped DEF TypeInv, StatementFails, Fault, faultVars
<1>3. RunsTyped' /\ FetchedTyped' /\ JobsTyped' /\ SchedsTyped' /\ QueueTyped'
  BY DEF TypeInv, RunsTyped, FetchedTyped, JobsTyped, SchedsTyped, QueueTyped, StatementFails, faultVars, queueVars
<1> QED
  BY <1>1, <1>2, <1>3 DEF TypeInv

\* The process of a page job dies.
LEMMA PageDiesTyped ==
  ASSUME TypeInv, NEW w \in Workers, PageDies(w)
  PROVE  TypeInv'
<1>1. WorkersTyped'
  BY IdleTyped DEF TypeInv, PageDies
<1>2. QueueTyped'
  BY DEF TypeInv, QueueTyped, PageDies
<1>3. ControlTyped'
  BY FaultTyped DEF TypeInv, PageDies, Fault, faultVars
<1>4. RunsTyped' /\ FetchedTyped' /\ JobsTyped' /\ SchedsTyped'
  BY DEF TypeInv, RunsTyped, FetchedTyped, JobsTyped, SchedsTyped, PageDies, faultVars
<1> QED
  BY <1>1, <1>2, <1>3, <1>4 DEF TypeInv

\* The lock of the queue is recovered.
LEMMA RecoverLockTyped ==
  ASSUME TypeInv, RecoverDeadLock \/ RecoverSlowLock
  PROVE  TypeInv'
<1>1. UnlockQueue
  BY DEF RecoverDeadLock, RecoverSlowLock
<1>2. JobsTyped'
  <2>1. \A r \in Runs, p \in Pages :
          /\ Unlocked(job[r][p]) \in JobType
          /\ Unlocked(job[r][p]).state = "ready" => Unlocked(job[r][p]).tries < MaxAttempts
    BY UnlockedTyped DEF TypeInv, JobsTyped
  <2>2. job' = [r \in Runs |-> [p \in Pages |-> Unlocked(job[r][p])]]
    BY <1>1 DEF UnlockQueue
  <2> QED
    BY <2>1, <2>2 DEF JobsTyped
<1>3. QueueTyped'
  BY <1>1 DEF TypeInv, QueueTyped, UnlockQueue
<1>4. ControlTyped'
  <2>1. CASE RecoverDeadLock
    BY <1>1, <2>1 DEF TypeInv, ControlTyped, RecoverDeadLock, UnlockQueue, faultVars
  <2>2. CASE RecoverSlowLock
    BY <1>1, <2>2, FaultTyped DEF TypeInv, RecoverSlowLock, UnlockQueue, faultVars
  <2> QED
    BY <2>1, <2>2
<1>5. RunsTyped' /\ FetchedTyped' /\ WorkersTyped' /\ SchedsTyped'
  BY <1>1 DEF TypeInv, RunsTyped, FetchedTyped, WorkersTyped, SchedsTyped, RecoverDeadLock, RecoverSlowLock, UnlockQueue, faultVars
<1> QED
  BY <1>1, <1>2, <1>3, <1>4, <1>5 DEF TypeInv

\* A command, or the end of a pause.
LEMMA OperatorTyped ==
  ASSUME TypeInv, Operator \/ PauseEnds
  PROVE  TypeInv'
<1>1. UNCHANGED controlVars
  BY DEF Operator, PauseEnds, PauseQuery, ResumeQuery, EnableQuery, SwitchCrawler
<1>2. spent' \in [commands : 0 .. MaxCommands, faults : 0 .. MaxFaults, slow : BOOLEAN]
  <2>1. CASE Command
    BY <2>1, CountTyped DEF TypeInv, Command
  <2>2. CASE UNCHANGED spent
    BY <2>2 DEF TypeInv, ControlTyped
  <2> QED
    BY <2>1, <2>2 DEF Operator, PauseEnds, PauseQuery, ResumeQuery, EnableQuery, SwitchCrawler
<1>3. query' \in [enabled : BOOLEAN, paused : BOOLEAN] /\ crawler' \in BOOLEAN
  <2>1. query \in [enabled : BOOLEAN, paused : BOOLEAN] /\ crawler \in BOOLEAN
    BY Zenon DEF TypeInv, ControlTyped
  <2>2. \/ query' = query \/ query' = [query EXCEPT !.paused = TRUE]
        \/ query' = [query EXCEPT !.paused = FALSE] \/ query' = [query EXCEPT !.enabled = ~@]
    BY Zenon DEF Operator, PauseEnds, PauseQuery, ResumeQuery, EnableQuery, SwitchCrawler
  <2>3. crawler' = crawler \/ crawler' = ~crawler
    BY Zenon DEF Operator, PauseEnds, PauseQuery, ResumeQuery, EnableQuery, SwitchCrawler
  <2> QED
    BY <2>1, <2>2, <2>3, Zenon
<1>4. ControlTyped'
  BY <1>1, <1>2, <1>3, Zenon DEF TypeInv, ControlTyped, controlVars
<1>5. RunsTyped' /\ FetchedTyped' /\ JobsTyped' /\ WorkersTyped' /\ SchedsTyped' /\ QueueTyped'
  BY <1>1 DEF TypeInv, RunsTyped, FetchedTyped, JobsTyped, WorkersTyped, SchedsTyped, QueueTyped,
              controlVars
<1> QED
  BY <1>1, <1>2, <1>3, <1>4, <1>5 DEF TypeInv

\* A run grows old.
LEMMA AgesTyped ==
  ASSUME TypeInv, NEW r \in Runs, Ages(r)
  PROVE  TypeInv'
<1>1. RunsTyped'
  BY DEF TypeInv, RunsTyped, RunType, Ages
<1>2. FetchedTyped' /\ JobsTyped' /\ WorkersTyped' /\ SchedsTyped' /\ QueueTyped' /\ ControlTyped'
  BY DEF TypeInv, FetchedTyped, JobsTyped, WorkersTyped, SchedsTyped, QueueTyped, ControlTyped, Ages
<1> QED
  BY <1>1, <1>2 DEF TypeInv

-----------------------------------------------------------------------------
\* Every step keeps the types.
LEMMA TypeStep == TypeInv /\ [Next]_vars => TypeInv'
<1> SUFFICES ASSUME TypeInv, [Next]_vars PROVE TypeInv'
  OBVIOUS
<1>1. CASE UNCHANGED vars
  BY <1>1 DEF TypeInv, RunsTyped, FetchedTyped, JobsTyped, WorkersTyped, SchedsTyped, QueueTyped,
              ControlTyped, vars
<1>2. ASSUME NEW s \in Schedulers, Schedule(s) \/ EnqueueFirstFails(s) \/ ScheduleFails(s)
      PROVE  TypeInv'
  BY <1>2, TakeScheduleTyped, RecoverTyped, ReadScheduleTyped, CreateRunTyped, EnqueueFirstTyped,
     EndUnscheduledTyped, ScheduleFailsTyped DEF Schedule
<1>3. CASE Take
  BY <1>3, TakePageTyped DEF Take
<1>4. ASSUME NEW w \in Workers, PageStep(w) \/ StatementFails(w) \/ PageDies(w)
      PROVE  TypeInv'
  BY <1>4, EndsTyped, PageContextTyped, PageFetchTyped, PagePersistTyped, PausePageTyped,
     PageReserveTyped, NextPageTyped, JobFailsTyped, JobCompletesTyped, StatementFailsTyped,
     PageDiesTyped DEF PageStep
<1>5. CASE RecoverDeadLock \/ RecoverSlowLock
  BY <1>5, RecoverLockTyped
<1>6. CASE Operator \/ PauseEnds
  BY <1>6, OperatorTyped
<1>7. ASSUME NEW r \in Runs, Ages(r)
      PROVE  TypeInv'
  BY <1>7, AgesTyped
<1> QED
  BY <1>1, <1>2, <1>3, <1>4, <1>5, <1>6, <1>7 DEF Next

\* The type invariant is inductive.
LEMMA TypeInvariant == Spec => []TypeInv
  BY TypeInit, TypeStep, PTL DEF Spec

(* Every variable keeps its type, whatever fails: in particular the detail *)
(* jobs reserved for a run (reserveCrawlRunDetailJobs) stay within the     *)
(* limit, and no page job is tried more often than it may be.              *)
THEOREM CrawlTypeCorrect == Spec => []TypeOK
  BY TypeInvariant, TypeInvGivesTypeOK, PTL

-----------------------------------------------------------------------------
(* The refinement of RunLifecycle.                                         *)

\* The states of the life cycle that a step leaves alone.
LEMMA LifecycleStutter ==
  ASSUME UNCHANGED <<run, latest>>
  PROVE  UNCHANGED Lifecycle!vars
  BY DEF Lifecycle!vars

\* A change of a run other than of its status leaves the life cycle alone.
LEMMA SameStatus ==
  ASSUME UNCHANGED latest, \A q \in Runs : run'[q].status = run[q].status
  PROVE  UNCHANGED Lifecycle!vars
  BY DEF Lifecycle!vars

\* completeCrawlRun ends a running run, or does nothing.
LEMMA CompleteFinishes ==
  ASSUME RunsTyped, NEW r \in Runs, NEW cause, Complete(r, cause)
  PROVE  Lifecycle!Finish(r) \/ UNCHANGED Lifecycle!vars
<1>1. CASE UNCHANGED <<run, latest>>
  BY <1>1, LifecycleStutter
<1>2. CASE ~UNCHANGED <<run, latest>>
  <2>1. PICK covered \in BOOLEAN :
          /\ run' = [run EXCEPT ![r].status = Classified(r, cause, covered)]
          /\ latest' = IF Classified(r, cause, covered) = "completed" THEN r ELSE latest
    BY <1>2 DEF Complete
  <2>2. run[r].status = "running"
    BY <1>2 DEF Complete, Active
  <2> DEFINE s == Classified(r, cause, covered)
  <2>3. s \in Lifecycle!Ended
    BY ClassifiedEnds DEF Ended, Lifecycle!Ended
  <2> HIDE DEF s
  <2>4. [q \in Runs |-> run'[q].status] = [[q \in Runs |-> run[q].status] EXCEPT ![r] = s]
    BY <2>1 DEF RunsTyped, RunType, s
  <2> QED
    BY <2>1, <2>2, <2>3, <2>4 DEF Lifecycle!Finish, s
<1> QED
  BY <1>1, <1>2

\* Every step is a step of the life cycle or leaves it alone.
LEMMA LifecycleStep ==
  TypeInv /\ [Next]_vars => [Lifecycle!Next]_(Lifecycle!vars)
<1> SUFFICES ASSUME TypeInv, [Next]_vars
             PROVE  Lifecycle!Next \/ UNCHANGED Lifecycle!vars
  OBVIOUS
<1> USE DEF Lifecycle!Next
<1>1. ASSUME NEW r \in Runs, NEW cause, Complete(r, cause)
      PROVE  Lifecycle!Next \/ UNCHANGED Lifecycle!vars
  BY <1>1, CompleteFinishes DEF TypeInv
<1>2. CASE UNCHANGED <<run, latest>>
  BY <1>2, LifecycleStutter
<1>3. ASSUME NEW s \in Schedulers, Schedule(s)
      PROVE  Lifecycle!Next \/ UNCHANGED Lifecycle!vars
  <2>1. CASE CreateRun(s)
    <3>1. CASE UNCHANGED run
      BY <3>1, <2>1, LifecycleStutter DEF CreateRun
    <3>2. CASE ~UNCHANGED run
      <4>1. PICK r \in Runs :
              run[r].status = "absent" /\ run' = [run EXCEPT ![r].status = "running"]
        BY <2>1, <3>2 DEF CreateRun
      <4>2. UNCHANGED latest /\ \A q \in Runs : run[q].status # "running"
        BY <2>1, <3>2 DEF CreateRun, Active
      <4>3. [q \in Runs |-> run'[q].status]
              = [[q \in Runs |-> run[q].status] EXCEPT ![r] = "running"]
        BY <4>1 DEF TypeInv, RunsTyped, RunType
      <4>4. Lifecycle!Create(r)
        BY <4>1, <4>2, <4>3 DEF Lifecycle!Create
      <4> QED
        BY <4>4
    <3> QED
      BY <3>1, <3>2
  <2>2. CASE Recover(s)
    BY <2>2, <1>1 DEF Recover, TypeInv, SchedsTyped, SchedulerType
  <2>3. CASE EndUnscheduled(s)
    BY <2>3, <1>1 DEF EndUnscheduled, TypeInv, SchedsTyped
  <2>4. CASE TakeSchedule(s) \/ RecoverRead(s) \/ ReadSchedulable(s) \/ EnqueueFirst(s)
    BY <2>4, <1>2 DEF TakeSchedule, RecoverRead, ReadSchedulable, EnqueueFirst
  <2> QED
    BY <1>3, <2>1, <2>2, <2>3, <2>4 DEF Schedule
<1>4. ASSUME NEW w \in Workers, PageStep(w)
      PROVE  Lifecycle!Next \/ UNCHANGED Lifecycle!vars
  <2>1. CASE StopRun(w) \/ EndPage(w) \/ EndUnusual(w) \/ PageCatch(w)
    <3>1. worker[w].run \in Runs
      BY <2>1, BusyTyped DEF StopRun, EndPage, EndUnusual, PageCatch
    <3> QED
      BY <2>1, <3>1, <1>1, <1>2 DEF StopRun, EndPage, EndUnusual, PageCatch
  <2>2. CASE PagePersist(w)
    <3>1. UNCHANGED latest /\ \A q \in Runs : run'[q].status = run[q].status
      BY <2>2 DEF PagePersist, TypeInv, RunsTyped, RunType
    <3> QED
      BY <3>1, SameStatus
  <2>3. CASE PageReserve(w)
    <3>1. UNCHANGED latest /\ \A q \in Runs : run'[q].status = run[q].status
      BY <2>3 DEF PageReserve, TypeInv, RunsTyped, RunType
    <3> QED
      BY <3>1, SameStatus
  <2>4. CASE PageContext(w) \/ PageFetch(w) \/ PauseBlocked(w) \/ PauseUnusual(w) \/ NextPage(w)
             \/ JobFails(w) \/ JobCompletes(w)
    BY <2>4, <1>2 DEF PageContext, PageFetch, PauseBlocked, PauseUnusual, PausePage, NextPage,
                      JobFails, JobCompletes
  <2> QED
    BY <1>4, <2>1, <2>2, <2>3, <2>4 DEF PageStep
<1>5. ASSUME NEW r \in Runs, Ages(r)
      PROVE  Lifecycle!Next \/ UNCHANGED Lifecycle!vars
  <2>1. UNCHANGED latest /\ \A q \in Runs : run'[q].status = run[q].status
    BY <1>5 DEF Ages, TypeInv, RunsTyped, RunType
  <2> QED
    BY <2>1, SameStatus
<1>6. CASE UNCHANGED vars
  BY <1>6, <1>2 DEF vars
<1>7. ASSUME NEW s \in Schedulers, EnqueueFirstFails(s) \/ ScheduleFails(s)
      PROVE  Lifecycle!Next \/ UNCHANGED Lifecycle!vars
  BY <1>7, <1>2 DEF EnqueueFirstFails, ScheduleFails
<1>8. ASSUME NEW w \in Workers, StatementFails(w) \/ PageDies(w)
      PROVE  Lifecycle!Next \/ UNCHANGED Lifecycle!vars
  BY <1>8, <1>2 DEF StatementFails, PageDies, faultVars
<1>9. CASE Take \/ RecoverDeadLock \/ RecoverSlowLock \/ Operator \/ PauseEnds
  BY <1>9, <1>2 DEF Take, TakePage, RecoverDeadLock, RecoverSlowLock, UnlockQueue, faultVars,
     Operator, PauseEnds, PauseQuery, ResumeQuery, EnableQuery, SwitchCrawler, controlVars
<1> QED
  BY <1>3, <1>4, <1>5, <1>6, <1>7, <1>8, <1>9 DEF Next

(* The crawl runs of a query follow the life cycle of RunLifecycle, in any *)
(* interleaving of schedulers, duplicated pages, failures and recoveries:  *)
(* one run at a time, a run that is over is final, and the query points to *)
(* the last complete one.                                                  *)
THEOREM CrawlImplementsLifecycle == Spec => ImplementsLifecycle
<1>1. Init => Lifecycle!Init
  BY DEF Init, Lifecycle!Init, NewRun
<1> QED
  BY <1>1, TypeInvariant, LifecycleStep, PTL DEF Spec, ImplementsLifecycle, Lifecycle!Spec

-----------------------------------------------------------------------------
(* One running run.                                                        *)

\* A running run is the only one, and stays the only one.
LEMMA OneActiveStep ==
  ASSUME RunsTyped, RunsTyped', OneActiveRun, Lifecycle!Next \/ UNCHANGED Lifecycle!vars
  PROVE  OneActiveRun'
<1>1. CASE UNCHANGED Lifecycle!vars
  <2>1. \A q \in Runs : [r \in Runs |-> run'[r].status][q] = [r \in Runs |-> run[r].status][q]
    BY <1>1 DEF Lifecycle!vars
  <2> QED
    BY <2>1 DEF OneActiveRun, Active
<1>2. ASSUME NEW r \in Runs, Lifecycle!Create(r)
      PROVE  OneActiveRun'
  <2>1. \A q \in Runs : q # r => run'[q].status = run[q].status /\ run[q].status # "running"
    <3>1. \A q \in Runs : q # r => [p \in Runs |-> run'[p].status][q] = [p \in Runs |-> run[p].status][q]
      BY <1>2 DEF Lifecycle!Create
    <3> QED
      BY <1>2, <3>1 DEF Lifecycle!Create
  <2> QED
    BY <2>1 DEF OneActiveRun, Active
<1>3. ASSUME NEW r \in Runs, Lifecycle!Finish(r)
      PROVE  OneActiveRun'
  <2>1. PICK s \in Lifecycle!Ended :
          [p \in Runs |-> run'[p].status] = [[p \in Runs |-> run[p].status] EXCEPT ![r] = s]
    BY <1>3 DEF Lifecycle!Finish
  <2>2. \A q \in Runs : [p \in Runs |-> run'[p].status][q] = IF q = r THEN s ELSE run[q].status
    BY <2>1
  <2>3. s # "running"
    BY DEF Lifecycle!Ended
  <2> QED
    BY <2>2, <2>3 DEF OneActiveRun, Active
<1> QED
  BY <1>1, <1>2, <1>3 DEF Lifecycle!Next

(* A query never has two running runs, however many schedulers race.       *)
THEOREM OneRunPerQuery == Spec => []OneActiveRun
<1>1. Init => OneActiveRun
  BY DEF Init, OneActiveRun, Active, NewRun
<1>2. TypeInv /\ TypeInv' /\ OneActiveRun /\ [Next]_vars => OneActiveRun'
  BY LifecycleStep, OneActiveStep DEF TypeInv
<1> QED
  BY <1>1, <1>2, TypeInvariant, PTL DEF Spec

-----------------------------------------------------------------------------
(* One execution at a time.                                                *)

\* Until the lock of a slow job is recovered, an execution has the lock of
\* the queue.
Serial == \A w \in Workers : worker[w].pc # "idle" => holder = w

SerialInv == ~spent.slow => Serial

\* A row that is taken over changes no more than who owns it.
LEMMA DisownedFields ==
  ASSUME NEW workers \in [Workers -> WorkerType], NEW r, NEW p, NEW v \in Workers
  PROVE  /\ Disowned(workers, r, p)[v].pc = workers[v].pc
         /\ Disowned(workers, r, p)[v].run = workers[v].run
         /\ Disowned(workers, r, p)[v].page = workers[v].page
         /\ Disowned(workers, r, p)[v].tries = workers[v].tries
         /\ Disowned(workers, r, p)[v].cause = workers[v].cause
         /\ ~(workers[v].run = r /\ workers[v].page = p) => Disowned(workers, r, p)[v] = workers[v]
  BY DEF Disowned, WorkerType

\* Only a recovered slow job lets two executions go on at a time.
LEMMA SerialStep == TypeInv /\ SerialInv /\ [Next]_vars => SerialInv'
<1> SUFFICES ASSUME TypeInv, SerialInv, [Next]_vars, ~spent'.slow
             PROVE  Serial'
  BY DEF SerialInv
<1> USE CrawlRunConstants
<1>0. worker \in [Workers -> WorkerType] /\ holder \in Workers \cup {Manual, Free, Gone}
  BY DEF TypeInv, WorkersTyped, QueueTyped
<1>a. ~spent.slow => Serial
  BY DEF SerialInv
<1>b. Free \notin Workers /\ Gone \notin Workers /\ \A s \in Schedulers : s \notin Workers
  OBVIOUS
<1>1. ASSUME NEW s \in Schedulers, Schedule(s) \/ EnqueueFirstFails(s) \/ ScheduleFails(s)
      PROVE  Serial'
  <2>1. spent.slow = FALSE
    BY <1>1 DEF Schedule, TakeSchedule, RecoverRead, Recover, ReadSchedulable, CreateRun, EnqueueFirst,
                EndUnscheduled, EnqueueFirstFails, ScheduleFails, TypeInv, ControlTyped
  <2>2. \A w \in Workers : worker'[w].pc = worker[w].pc
    <3>1. CASE EnqueueFirst(s)
      BY <3>1, <1>0, DisownedFields DEF EnqueueFirst, AddPageJob
    <3>2. CASE UNCHANGED worker
      BY <3>2
    <3> QED
      BY <1>1, <3>1, <3>2 DEF Schedule, TakeSchedule, RecoverRead, Recover, ReadSchedulable, CreateRun,
                              EndUnscheduled, EnqueueFirstFails, ScheduleFails
  <2>3. holder' = holder \/ holder \in {Free, s}
    BY <1>1 DEF Schedule, TakeSchedule, RecoverRead, Recover, ReadSchedulable, CreateRun, EnqueueFirst,
                EndUnscheduled, EnqueueFirstFails, ScheduleFails, SchedDone, ReleasedLock
  <2> QED
    BY <1>a, <1>b, <2>1, <2>2, <2>3 DEF Serial
<1>2. ASSUME NEW w \in Workers, NEW r \in Runs, NEW p \in Pages, TakePage(w, r, p)
      PROVE  Serial'
  <2>1. spent' = spent /\ holder' = w /\ holder = Free
    BY <1>2 DEF TakePage, restVars
  <2>2. \A v \in Workers : v # w => worker'[v] = worker[v]
    BY <1>2, <1>0 DEF TakePage
  <2>3. \A v \in Workers : worker[v].pc = "idle"
    BY <2>1, <1>a, <1>b DEF Serial
  <2> QED
    BY <2>1, <2>2, <2>3 DEF Serial
<1>3. ASSUME NEW w \in Workers, PageStep(w)
      PROVE  Serial'
  <2>1. spent' = spent
    BY <1>3 DEF PageStep, StopRun, PageContext, PageFetch, PagePersist, PauseBlocked, PauseUnusual, PausePage,
                PageReserve, EndPage, EndUnusual, NextPage, PageCatch, JobFails, JobCompletes, restVars
  <2>2. Serial /\ worker[w].pc # "idle"
    BY <2>1, <1>a, <1>3 DEF PageStep, StopRun, PageContext, PageFetch, PagePersist, PauseBlocked, PauseUnusual,
                PageReserve, EndPage, EndUnusual, NextPage, PageCatch, JobFails, JobCompletes
  <2>3. \A v \in Workers : v # w => worker'[v].pc = worker[v].pc
    <3>1. CASE NextPage(w)
      <4> DEFINE ws == [worker EXCEPT ![w].pc = "complete"]
      <4>1. ws \in [Workers -> WorkerType]
        BY <1>0 DEF WorkerType
      <4>2. worker' = ws \/ worker' = Disowned(ws, worker[w].run, worker[w].page + 1)
        BY <3>1 DEF NextPage, AddPageJob
      <4>3. \A v \in Workers : v # w => ws[v] = worker[v]
        BY <1>0
      <4> HIDE DEF ws
      <4> QED
        BY <4>1, <4>2, <4>3, DisownedFields
    <3>2. CASE JobCompletes(w)
      <4> DEFINE ws == Disowned(worker, worker[w].run, worker[w].page)
      <4>1. \A v \in Workers : ws[v].pc = worker[v].pc
        BY <1>0, DisownedFields
      <4>2. ws = [v \in Workers |-> ws[v]]
        BY DEF Disowned
      <4>3. worker' = [worker EXCEPT ![w] = IdleWorker] \/ worker' = [ws EXCEPT ![w] = IdleWorker]
        BY <3>2 DEF JobCompletes
      <4> HIDE DEF ws
      <4> QED
        BY <4>1, <4>2, <4>3, <1>0
    <3>3. CASE ~NextPage(w) /\ ~JobCompletes(w)
      BY <1>3, <3>3, <1>0 DEF PageStep, StopRun, PageContext, PageFetch, PagePersist, PauseBlocked, PauseUnusual,
                PausePage, PageReserve, EndPage, EndUnusual, PageCatch, JobFails, Goto
    <3> QED
      BY <3>1, <3>2, <3>3
  <2>4. holder' = holder
        \/ JobFails(w) \/ JobCompletes(w)
    BY <1>3 DEF PageStep, StopRun, PageContext, PageFetch, PagePersist, PauseBlocked, PauseUnusual, PausePage,
                PageReserve, EndPage, EndUnusual, NextPage, PageCatch, queueVars
  <2>5. CASE JobFails(w) \/ JobCompletes(w)
    <3>1. worker'[w].pc = "idle"
      BY <2>5, <1>0 DEF JobFails, JobCompletes, IdleWorker, Execution, Disowned
    <3> QED
      BY <2>2, <2>3, <3>1 DEF Serial
  <2> QED
    BY <2>2, <2>3, <2>4, <2>5 DEF Serial
<1>4. ASSUME NEW w \in Workers, StatementFails(w) \/ PageDies(w)
      PROVE  Serial'
  <2>1. spent.slow = FALSE
    BY <1>4 DEF StatementFails, PageDies, Fault, TypeInv, ControlTyped
  <2>2. Serial /\ worker[w].pc # "idle"
    BY <2>1, <1>a, <1>4 DEF StatementFails, PageDies
  <2>3. \A v \in Workers : v # w => worker'[v].pc = worker[v].pc
    BY <1>4, <1>0 DEF StatementFails, PageDies, Goto
  <2>4. worker'[w].pc = "idle" \/ holder' = holder
    BY <1>4, <1>0 DEF StatementFails, PageDies, queueVars, IdleWorker, Execution
  <2> QED
    BY <2>2, <2>3, <2>4 DEF Serial
<1>5. CASE RecoverDeadLock
  BY <1>5, <1>a, <1>b DEF RecoverDeadLock, UnlockQueue, faultVars, Serial
<1>6. CASE RecoverSlowLock
  BY <1>6 DEF RecoverSlowLock, TypeInv, ControlTyped
<1>7. CASE UNCHANGED <<worker, holder>> /\ spent'.slow = spent.slow
  BY <1>7, <1>a DEF Serial
<1>8. CASE Operator \/ PauseEnds \/ (\E r \in Runs : Ages(r)) \/ UNCHANGED vars
  BY <1>8, <1>7 DEF Operator, PauseEnds, PauseQuery, ResumeQuery, EnableQuery, SwitchCrawler, Command, Ages,
                    controlVars, vars, TypeInv, ControlTyped
<1> QED
  BY <1>1, <1>2, <1>3, <1>4, <1>5, <1>6, <1>8 DEF Next, Take

\* The lock of the queue tells which execution goes on.
LEMMA SerialInvariant == Spec => []SerialInv
<1>1. Init => SerialInv
  BY DEF Init, SerialInv, Serial, IdleWorker, Execution
<1> QED
  BY <1>1, TypeInvariant, SerialStep, PTL DEF Spec

-----------------------------------------------------------------------------
(* What a complete run has fetched.                                        *)

\* The run of a page that is being fetched or stored is not complete.
Unfinished ==
  \A w \in Workers : worker[w].pc \in {"fetch", "persist"} => run[worker[w].run].status # "completed"

CoverInv == ~spent.slow => Unfinished /\ CompletedCovered

\* A completion finds every page fetched when it calls a run complete.
LEMMA CompleteCovers ==
  ASSUME RunsTyped, NEW r \in Runs, NEW cause, Complete(r, cause)
  PROVE  \A q \in Runs :
           /\ run'[q].expected = run[q].expected
           /\ run'[q].status = "completed" =>
                \/ run[q].status = "completed"
                \/ q = r /\ cause = "exhausted" /\ AllPagesFetched(r)
<1>1. CASE UNCHANGED run
  BY <1>1
<1>2. CASE ~UNCHANGED run
  <2>1. PICK covered \in BOOLEAN :
          run' = [run EXCEPT ![r].status = Classified(r, cause, covered)]
    BY <1>2 DEF Complete
  <2>2. Classified(r, cause, covered) = "completed" => cause = "exhausted" /\ AllPagesFetched(r)
    BY DEF Classified
  <2> DEFINE s == Classified(r, cause, covered)
  <2> HIDE DEF s
  <2>3. \A q \in Runs : /\ run'[q].expected = run[q].expected
                        /\ run'[q].status = IF q = r THEN s ELSE run[q].status
    BY <2>1 DEF RunsTyped, RunType, s
  <2> QED
    BY <2>2, <2>3 DEF s
<1> QED
  BY <1>1, <1>2

\* A step that stores nothing and completes no run keeps complete runs covered.
LEMMA CoverKept ==
  ASSUME CompletedCovered, ~spent.slow, fetched' = fetched,
         \A r \in Runs : /\ run'[r].expected = run[r].expected
                         /\ run'[r].status = "completed" => run[r].status = "completed"
                                                            \/ AllPagesFetched(r)
  PROVE  CompletedCovered'
<1>1. ASSUME NEW r \in Runs, run'[r].status = "completed" PROVE AllPagesFetched(r)'
  <2>1. AllPagesFetched(r)
    BY <1>1 DEF CompletedCovered
  <2> QED
    BY <2>1 DEF AllPagesFetched, OkPages
<1> QED
  BY <1>1 DEF CompletedCovered

\* Nor does such a step complete the run of a page that is being fetched.
LEMMA UnfinishedKept ==
  ASSUME Unfinished,
         \A r \in Runs : run'[r].status = "completed" => run[r].status = "completed",
         \A w \in Workers : worker'[w].pc \in {"fetch", "persist"} =>
           /\ worker'[w].run \in Runs /\ worker'[w].run = worker[w].run
           /\ worker[w].pc \in {"fetch", "persist"}
  PROVE  Unfinished'
  BY DEF Unfinished

\* Nothing makes the recovery of a slow job undone.
LEMMA SlowStays == TypeInv /\ [Next]_vars => (~spent'.slow => ~spent.slow)
<1> SUFFICES ASSUME TypeInv, [Next]_vars, spent.slow PROVE spent'.slow
  OBVIOUS
<1>0. spent \in [commands : 0 .. MaxCommands, faults : 0 .. MaxFaults, slow : BOOLEAN]
  BY DEF TypeInv, ControlTyped
<1>1. CASE UNCHANGED spent
  BY <1>1
<1>2. CASE UNCHANGED vars
  BY <1>2 DEF vars
<1>3. CASE \E s \in Schedulers : Schedule(s) \/ EnqueueFirstFails(s) \/ ScheduleFails(s)
  BY <1>0, <1>3 DEF Schedule, TakeSchedule, RecoverRead, Recover, ReadSchedulable, CreateRun, EnqueueFirst,
                    EndUnscheduled, EnqueueFirstFails, ScheduleFails
<1>4. CASE \E w \in Workers : PageStep(w)
  BY <1>4, <1>1 DEF PageStep, StopRun, PageContext, PageFetch, PagePersist, PauseBlocked, PauseUnusual, PausePage,
              PageReserve, EndPage, EndUnusual, NextPage, PageCatch, JobFails, JobCompletes, restVars
<1>5. CASE \/ \E w \in Workers : StatementFails(w) \/ PageDies(w)
           \/ RecoverDeadLock \/ RecoverSlowLock \/ Operator \/ PauseEnds
  BY <1>0, <1>5 DEF StatementFails, PageDies, Fault, RecoverDeadLock, RecoverSlowLock, Operator, PauseEnds,
                    PauseQuery, ResumeQuery, EnableQuery, SwitchCrawler, Command
<1>6. CASE Take \/ \E r \in Runs : Ages(r)
  BY <1>1, <1>6 DEF Take, TakePage, Ages, restVars
<1> QED
  BY <1>2, <1>3, <1>4, <1>5, <1>6 DEF Next

\* Evidence is stored for a run that is not complete.
LEMMA PersistCovers ==
  ASSUME TypeInv, Unfinished, CompletedCovered, ~spent.slow, NEW w \in Workers, PagePersist(w)
  PROVE  Unfinished' /\ CompletedCovered'
<1> DEFINE r == worker[w].run
           new == [run[r] EXCEPT !.aged = FALSE,
                     !.expected = IF worker[w].total = 0 THEN @ ELSE worker[w].total]
<1>1. r \in Runs /\ run[r].status # "completed"
  BY BusyTyped DEF PagePersist, Unfinished
<1>2. run[r] \in RunType /\ run \in [Runs -> RunType]
  BY <1>1 DEF TypeInv, RunsTyped
<1>3. run' = [run EXCEPT ![r] = new]
  BY <1>1, <1>2 DEF PagePersist, RunType
<1>4. new.status = run[r].status
  BY <1>2 DEF RunType
<1> HIDE DEF new
<1>5. \A q \in Runs : (q # r => run'[q] = run[q]) /\ run'[q].status = run[q].status
  BY <1>1, <1>2, <1>3, <1>4
<1>6. \A q \in Runs : q # r => fetched'[q] = fetched[q]
  BY DEF PagePersist, TypeInv, FetchedTyped
<1>7. \A v \in Workers : v # w => worker'[v] = worker[v]
  BY DEF PagePersist, TypeInv, WorkersTyped
<1>8. worker'[w].pc \notin {"fetch", "persist"}
  <2>1. AfterPersist(worker[w].result) \in {"reserve", "pauseThenEnd", "endThenPause", "end", "catch"}
    BY BusyTyped DEF AfterPersist, PagePersist, TypeInv, WorkersTyped, Responses
  <2> DEFINE n == AfterPersist(worker[w].result)
  <2> HIDE DEF n
  <2>2. worker'[w].pc = n
    BY DEF PagePersist, TypeInv, WorkersTyped, WorkerType, n
  <2> QED
    BY <2>1, <2>2 DEF n
<1>9. ASSUME NEW q \in Runs, run'[q].status = "completed" PROVE AllPagesFetched(q)'
  <2>1. q # r /\ run'[q] = run[q] /\ fetched'[q] = fetched[q] /\ AllPagesFetched(q)
    BY <1>1, <1>5, <1>6, <1>9 DEF CompletedCovered
  <2> QED
    BY <2>1 DEF AllPagesFetched, OkPages
<1>10. Unfinished'
  <2>1. \A v \in Workers : worker[v].pc # "idle" => worker[v].run \in Runs
    BY DEF TypeInv, WorkersTyped
  <2> QED
    BY <1>5, <1>7, <1>8, <2>1 DEF Unfinished
<1> QED
  BY <1>9, <1>10 DEF CompletedCovered

\* Only a run whose last page was reached by the only execution becomes
\* complete, and nothing is stored for it from then on.
LEMMA CoverStep == TypeInv /\ SerialInv /\ CoverInv /\ [Next]_vars => CoverInv'
<1> SUFFICES ASSUME TypeInv, SerialInv, CoverInv, [Next]_vars, ~spent'.slow
             PROVE  Unfinished' /\ CompletedCovered'
  BY DEF CoverInv
<1>0. /\ ~spent.slow /\ Serial /\ Unfinished /\ CompletedCovered
      /\ RunsTyped /\ worker \in [Workers -> WorkerType]
      /\ \A w \in Workers : worker[w].pc # "idle" => worker[w].run \in Runs
  BY SlowStays DEF CoverInv, SerialInv, TypeInv, WorkersTyped
<1>1. ASSUME fetched' = fetched, UNCHANGED worker,
             \A r \in Runs : /\ run'[r].expected = run[r].expected
                             /\ run'[r].status = "completed" => run[r].status = "completed"
      PROVE  Unfinished' /\ CompletedCovered'
  BY <1>0, <1>1, CoverKept, UnfinishedKept
<1>2. ASSUME NEW r \in Runs, NEW cause, Complete(r, cause), cause # "exhausted"
      PROVE  \A q \in Runs : /\ run'[q].expected = run[q].expected
                             /\ run'[q].status = "completed" => run[q].status = "completed"
  BY <1>0, <1>2, CompleteCovers
<1>3. ASSUME NEW s \in Schedulers, Schedule(s) \/ EnqueueFirstFails(s) \/ ScheduleFails(s)
      PROVE  Unfinished' /\ CompletedCovered'
  <2>1. CASE CreateRun(s)
    <3>1. fetched' = fetched /\ UNCHANGED worker
      BY <2>1 DEF CreateRun, pageVars
    <3>2. \A r \in Runs : /\ run'[r].expected = run[r].expected
                          /\ run'[r].status = "completed" => run[r].status = "completed"
      BY <2>1, <1>0 DEF CreateRun, RunsTyped, RunType
    <3> QED
      BY <3>1, <3>2, <1>1
  <2>2. CASE Recover(s)
    <3>1. PICK r \in sched[s].todo : Complete(r, "stale")
      BY <2>2 DEF Recover
    <3>2. r \in Runs
      BY <3>1 DEF TypeInv, SchedsTyped, SchedulerType
    <3> QED
      BY <2>2, <3>1, <3>2, <1>1, <1>2 DEF Recover, pageVars
  <2>3. CASE EndUnscheduled(s)
    BY <2>3, <1>1, <1>2 DEF EndUnscheduled, pageVars, TypeInv, SchedsTyped
  <2>4. CASE EnqueueFirst(s)
    <3>1. fetched' = fetched /\ run' = run
      BY <2>4 DEF EnqueueFirst, pageVars
    <3>2. \A w \in Workers : worker'[w].pc = worker[w].pc /\ worker'[w].run = worker[w].run
      BY <2>4, <1>0, DisownedFields DEF EnqueueFirst, AddPageJob
    <3> QED
      BY <3>1, <3>2, <1>0, CoverKept, UnfinishedKept
  <2>5. CASE TakeSchedule(s) \/ RecoverRead(s) \/ ReadSchedulable(s) \/ EnqueueFirstFails(s) \/ ScheduleFails(s)
    BY <2>5, <1>1 DEF TakeSchedule, RecoverRead, ReadSchedulable, EnqueueFirstFails, ScheduleFails, pageVars
  <2> QED
    BY <1>3, <2>1, <2>2, <2>3, <2>4, <2>5 DEF Schedule
<1>4. ASSUME NEW w \in Workers, fetched' = fetched,
             \A r \in Runs : /\ run'[r].expected = run[r].expected
                             /\ run'[r].status = "completed" => run[r].status = "completed",
             worker'[w].pc \notin {"fetch", "persist"},
             \A v \in Workers : v # w => worker'[v].pc = worker[v].pc /\ worker'[v].run = worker[v].run
      PROVE  Unfinished' /\ CompletedCovered'
  <2>1. \A v \in Workers : worker'[v].pc \in {"fetch", "persist"} =>
           /\ worker'[v].run \in Runs /\ worker'[v].run = worker[v].run
           /\ worker[v].pc \in {"fetch", "persist"}
    BY <1>0, <1>4
  <2> QED
    BY <2>1, <1>0, <1>4, CoverKept, UnfinishedKept
<1>5. ASSUME NEW w \in Workers, PageStep(w)
      PROVE  Unfinished' /\ CompletedCovered'
  <2>1. CASE PagePersist(w)
    BY <2>1, <1>0, PersistCovers
  <2>2. CASE EndPage(w)
    <3>1. worker[w].pc = "end" /\ worker[w].run \in Runs /\ Complete(worker[w].run, worker[w].cause)
          /\ fetched' = fetched /\ worker' = [worker EXCEPT ![w].pc = "complete"]
      BY <2>2, <1>0 DEF EndPage, Goto
    <3>2. \A v \in Workers : worker'[v].pc \notin {"fetch", "persist"}
      <4>1. \A v \in Workers : v # w => worker[v].pc = "idle" /\ worker'[v] = worker[v]
        BY <3>1, <1>0 DEF Serial
      <4>2. worker'[w].pc = "complete"
        BY <3>1, <1>0 DEF WorkerType
      <4> QED
        BY <4>1, <4>2
    <3>3. CompletedCovered'
      BY <3>1, <1>0, CompleteCovers, CoverKept
    <3> QED
      BY <3>2, <3>3 DEF Unfinished
  <2>3. CASE StopRun(w) \/ EndUnusual(w) \/ PageCatch(w)
    <3>1. worker[w].run \in Runs /\ fetched' = fetched
          /\ \/ Complete(worker[w].run, "operator_stop") \/ Complete(worker[w].run, "source_failure")
             \/ UNCHANGED run
      BY <2>3, <1>0 DEF StopRun, EndUnusual, PageCatch
    <3>2. \E pc \in {"complete", "pause", "fail"} : worker' = [worker EXCEPT ![w].pc = pc]
      BY <2>3 DEF StopRun, EndUnusual, PageCatch, Goto
    <3>3. worker'[w].pc \notin {"fetch", "persist"} /\ \A v \in Workers : v # w => worker'[v] = worker[v]
      BY <3>2, <1>0 DEF WorkerType
    <3>4. \A r \in Runs : /\ run'[r].expected = run[r].expected
                          /\ run'[r].status = "completed" => run[r].status = "completed"
      BY <3>1, <1>2
    <3> QED
      BY <3>1, <3>3, <3>4, <1>4
  <2>4. CASE PageReserve(w)
    <3>1. fetched' = fetched
      BY <2>4 DEF PageReserve
    <3>2. \A r \in Runs : /\ run'[r].expected = run[r].expected
                          /\ run'[r].status = "completed" => run[r].status = "completed"
      BY <2>4, <1>0 DEF PageReserve, RunsTyped, RunType
    <3>3. worker'[w].pc \notin {"fetch", "persist"}
      BY <2>4, <1>0 DEF PageReserve, WorkerType
    <3>4. \A v \in Workers : v # w => worker'[v] = worker[v]
      BY <2>4, <1>0 DEF PageReserve
    <3> QED
      BY <3>1, <3>2, <3>3, <3>4, <1>4
  <2>5. CASE PageContext(w)
    <3>1. fetched' = fetched /\ run' = run
      BY <2>5 DEF PageContext
    <3>2. worker[w].run \in Runs /\ \A v \in Workers : worker'[v].run = worker[v].run
      BY <2>5, <1>0 DEF PageContext, Goto, WorkerType
    <3>3. worker'[w].pc = "fetch" => run[worker[w].run].status = "running"
      BY <2>5, <1>0 DEF PageContext, Goto, Active, WorkerType
    <3>4. worker'[w].pc # "persist" /\ \A v \in Workers : v # w => worker'[v] = worker[v]
      BY <2>5, <1>0 DEF PageContext, Goto, WorkerType
    <3>5. Unfinished'
      BY <3>1, <3>2, <3>3, <3>4, <1>0 DEF Unfinished
    <3> QED
      BY <3>1, <3>5, <1>0, CoverKept
  <2>6. CASE PageFetch(w)
    <3>1. fetched' = fetched /\ run' = run /\ worker[w].pc = "fetch"
      BY <2>6 DEF PageFetch
    <3>2. \A v \in Workers : worker'[v].run = worker[v].run /\ (v # w => worker'[v] = worker[v])
      BY <2>6, <1>0 DEF PageFetch, WorkerType
    <3>3. Unfinished'
      BY <3>1, <3>2, <1>0 DEF Unfinished
    <3> QED
      BY <3>1, <3>3, <1>0, CoverKept
  <2>7. CASE PauseBlocked(w) \/ PauseUnusual(w)
    <3>1. fetched' = fetched /\ run' = run
          /\ \E pc \in {"end", "complete"} : worker' = [worker EXCEPT ![w].pc = pc]
      BY <2>7 DEF PauseBlocked, PauseUnusual, PausePage, Goto
    <3>2. worker'[w].pc \notin {"fetch", "persist"} /\ \A v \in Workers : v # w => worker'[v] = worker[v]
      BY <3>1, <1>0 DEF WorkerType
    <3> QED
      BY <3>1, <3>2, <1>4
  <2>8. CASE NextPage(w)
    <3> DEFINE ws == [worker EXCEPT ![w].pc = "complete"]
    <3>1. ws \in [Workers -> WorkerType]
      BY <1>0 DEF WorkerType
    <3>2. worker' = ws \/ worker' = Disowned(ws, worker[w].run, worker[w].page + 1)
      BY <2>8 DEF NextPage, AddPageJob
    <3>3. ws[w].pc = "complete" /\ \A v \in Workers : v # w => ws[v] = worker[v]
      BY <1>0 DEF WorkerType
    <3>4. fetched' = fetched /\ run' = run
      BY <2>8 DEF NextPage
    <3> HIDE DEF ws
    <3>5. \A v \in Workers : worker'[v].pc = ws[v].pc /\ worker'[v].run = ws[v].run
      BY <3>1, <3>2, DisownedFields
    <3> QED
      BY <3>3, <3>4, <3>5, <1>4
  <2>9. CASE JobFails(w)
    <3>1. fetched' = fetched /\ run' = run /\ worker' = [worker EXCEPT ![w] = IdleWorker]
      BY <2>9 DEF JobFails
    <3>2. worker'[w].pc = "idle" /\ \A v \in Workers : v # w => worker'[v] = worker[v]
      BY <3>1, <1>0 DEF IdleWorker, Execution
    <3> QED
      BY <3>1, <3>2, <1>4
  <2>10. CASE JobCompletes(w)
    <3> DEFINE ws == Disowned(worker, worker[w].run, worker[w].page)
    <3>1. \A v \in Workers : ws[v].pc = worker[v].pc /\ ws[v].run = worker[v].run
      BY <1>0, DisownedFields
    <3>2. ws = [v \in Workers |-> ws[v]]
      BY DEF Disowned
    <3>3. worker' = [worker EXCEPT ![w] = IdleWorker] \/ worker' = [ws EXCEPT ![w] = IdleWorker]
      BY <2>10 DEF JobCompletes
    <3>4. fetched' = fetched /\ run' = run
      BY <2>10 DEF JobCompletes
    <3>5. IdleWorker.pc = "idle"
      BY DEF IdleWorker, Execution
    <3> HIDE DEF ws
    <3>6. worker'[w].pc = "idle"
          /\ \A v \in Workers : v # w => worker'[v].pc = worker[v].pc /\ worker'[v].run = worker[v].run
      BY <3>1, <3>2, <3>3, <3>5, <1>0
    <3> QED
      BY <3>4, <3>6, <1>4
  <2> QED
    BY <1>5, <2>1, <2>2, <2>3, <2>4, <2>5, <2>6, <2>7, <2>8, <2>9, <2>10 DEF PageStep
<1>6. ASSUME NEW w \in Workers, StatementFails(w) \/ PageDies(w) \/ \E r \in Runs, p \in Pages : TakePage(w, r, p)
      PROVE  Unfinished' /\ CompletedCovered'
  <2>1. fetched' = fetched /\ run' = run
    BY <1>6 DEF StatementFails, PageDies, TakePage, faultVars
  <2>2. worker'[w].pc \notin {"fetch", "persist"}
    BY <1>6, <1>0 DEF StatementFails, PageDies, TakePage, Goto, IdleWorker, Execution, WorkerType
  <2>3. \A v \in Workers : v # w => worker'[v] = worker[v]
    BY <1>6, <1>0 DEF StatementFails, PageDies, TakePage, Goto
  <2> QED
    BY <2>1, <2>2, <2>3, <1>4
<1>7. ASSUME NEW r \in Runs, Ages(r)
      PROVE  Unfinished' /\ CompletedCovered'
  <2>1. \A q \in Runs : run'[q].expected = run[q].expected /\ run'[q].status = run[q].status
    BY <1>7, <1>0 DEF Ages, RunsTyped, RunType
  <2> QED
    BY <1>7, <2>1, <1>1 DEF Ages
<1>8. CASE RecoverDeadLock \/ RecoverSlowLock \/ Operator \/ PauseEnds \/ UNCHANGED vars
  BY <1>8, <1>1 DEF RecoverDeadLock, RecoverSlowLock, UnlockQueue, faultVars, Operator, PauseEnds, PauseQuery,
                    ResumeQuery, EnableQuery, SwitchCrawler, controlVars, vars
<1> QED
  BY <1>3, <1>5, <1>6, <1>7, <1>8 DEF Next, Take

(* A run that is complete has a successful fetch of every page the source  *)
(* announced, whatever was retried, enqueued twice or failed on the way,   *)
(* until the lock of a slow job is recovered.                              *)
THEOREM CompleteRunsAreCovered == Spec => []CompletedCovered
<1>1. Init => CoverInv
  BY DEF Init, CoverInv, Unfinished, CompletedCovered, IdleWorker, Execution, NewRun
<1>2. CoverInv => CompletedCovered
  BY DEF CoverInv, CompletedCovered
<1> QED
  BY <1>1, <1>2, TypeInvariant, SerialInvariant, CoverStep, PTL DEF Spec

-----------------------------------------------------------------------------
(* Without a fault no running run is stranded.                             *)

\* Nothing was lost, and an execution still has the job it was started for.
Held ==
  /\ holder # Gone /\ ~spent.slow
  /\ \A w \in Workers : worker[w].pc # "idle" =>
       /\ worker[w].owns /\ worker[w].cause # "stale"
       /\ job[worker[w].run][worker[w].page].state = "locked"
       /\ job[worker[w].run][worker[w].page].tries = worker[w].tries

\* A run that was just created has no job yet, and one scheduler that adds it.
Fresh ==
  /\ \A r \in Runs, p \in Pages : run[r].status = "absent" => job[r][p] = NoJob
  /\ \A s \in Schedulers : sched[s].pc # "fail"
  /\ \A s \in Schedulers : sched[s].pc = "enqueue" =>
       /\ run[sched[s].run].status # "absent"
       /\ \A p \in Pages : job[sched[s].run][p] = NoJob
       /\ \A t \in Schedulers : sched[t].pc = "enqueue" /\ sched[t].run = sched[s].run => s = t

ReadyElsewhere(r, p) == \E q \in Pages \ {p} : job[r][q].state = "ready"

\* An execution does not leave a running run without a job to go on with.
Onward ==
  \A w \in Workers :
    /\ worker[w].pc = "next" => worker[w].page < MaxPage
    /\ worker[w].pc = "fail" => ~Active(worker[w].run) \/ worker[w].tries < MaxAttempts
    /\ worker[w].pc = "pause" => ~Active(worker[w].run)
    /\ worker[w].pc = "complete" => \/ ~Active(worker[w].run)
                                    \/ ReadyElsewhere(worker[w].run, worker[w].page)

Enqueued(r) == \E s \in Schedulers : sched[s].pc = "enqueue" /\ sched[s].run = r

\* The runs have jobs, except for the one that was just created.
Carried == \A r \in Runs : Active(r) => Live(r) \/ Enqueued(r)

Calm == Held /\ Fresh /\ Onward /\ Carried
CalmInv == spent.faults = 0 => Calm

\* The initial state is calm.
LEMMA CalmInit == Init => Calm
<1> USE CrawlRunConstants
<1>1. Init => Held
  BY DEF Init, Held, IdleWorker, Execution
<1>2. Init => Fresh
  BY DEF Init, Fresh, IdleScheduler
<1>3. Init => Onward
  BY DEF Init, Onward, IdleWorker, Execution
<1>4. Init => Carried
  BY DEF Init, Carried, Active, NewRun
<1> QED
  BY <1>1, <1>2, <1>3, <1>4 DEF Calm

\* The steps that are left while nothing fails.
LEMMA CalmSteps ==
  ASSUME TypeInv, [Next]_vars, spent'.faults = 0
  PROVE  /\ spent.faults = 0
         /\ \/ \E s \in Schedulers : Schedule(s)
            \/ Take
            \/ \E w \in Workers : PageStep(w)
            \/ RecoverDeadLock \/ Operator \/ PauseEnds
            \/ \E r \in Runs : Ages(r)
            \/ UNCHANGED vars
<1>0. spent \in [commands : Nat, faults : Nat, slow : BOOLEAN]
  BY CrawlRunConstants DEF TypeInv, ControlTyped
<1>1. ~RecoverSlowLock
  <2>1. ASSUME spent' = [spent EXCEPT !.faults = @ + 1, !.slow = TRUE] PROVE spent'.faults = spent.faults + 1
    BY <2>1, <1>0
  <2> QED
    BY <1>0, <2>1 DEF RecoverSlowLock
<1>2. spent' # [spent EXCEPT !.faults = @ + 1]
  <2>1. ASSUME spent' = [spent EXCEPT !.faults = @ + 1] PROVE spent'.faults = spent.faults + 1
    BY <2>1, <1>0
  <2> QED
    BY <1>0, <2>1
<1>3. /\ \A s \in Schedulers : ~EnqueueFirstFails(s) /\ ~ScheduleFails(s)
      /\ \A w \in Workers : ~StatementFails(w) /\ ~PageDies(w)
  BY <1>2 DEF EnqueueFirstFails, ScheduleFails, StatementFails, PageDies, Fault
<1>4. CASE UNCHANGED spent \/ UNCHANGED vars
  BY <1>4, <1>1, <1>3 DEF Next, vars
<1>5. ASSUME NEW s \in Schedulers, Schedule(s) PROVE spent'.faults = spent.faults
  <2>1. UNCHANGED spent \/ spent' = [spent EXCEPT !.commands = @ + 1]
    BY <1>5 DEF Schedule, TakeSchedule, RecoverRead, Recover, ReadSchedulable, CreateRun, EnqueueFirst,
                EndUnscheduled
  <2> QED
    BY <2>1, <1>0
<1>6. ASSUME Operator PROVE spent'.faults = spent.faults
  <2>1. spent' = [spent EXCEPT !.commands = @ + 1]
    BY <1>6 DEF Operator, PauseQuery, ResumeQuery, EnableQuery, SwitchCrawler, Command
  <2> QED
    BY <2>1, <1>0
<1>7. ASSUME \/ Take \/ \E w \in Workers : PageStep(w)
             \/ RecoverDeadLock \/ PauseEnds \/ \E r \in Runs : Ages(r)
      PROVE  UNCHANGED spent
  BY <1>7 DEF Take, TakePage, RecoverDeadLock, PauseEnds, Ages, PageStep, StopRun, PageContext, PageFetch,
              PagePersist, PauseBlocked, PauseUnusual, PausePage, PageReserve, EndPage, EndUnusual, NextPage,
              PageCatch, JobFails, JobCompletes, restVars
<1> QED
  BY <1>1, <1>3, <1>4, <1>5, <1>6, <1>7 DEF Next

\* An execution that goes on and leaves the jobs alone keeps the calm.
LEMMA GoesOnCalm ==
  ASSUME TypeInv, Calm, NEW w \in Workers, worker[w].pc # "idle",
         UNCHANGED <<job, holder, sched, spent>>,
         \A v \in Workers : v # w => worker'[v] = worker[v],
         worker'[w].pc # "idle" /\ worker'[w].run = worker[w].run /\ worker'[w].page = worker[w].page,
         worker'[w].tries = worker[w].tries /\ worker'[w].owns = worker[w].owns,
         worker'[w].cause # "stale",
         \A r \in Runs : /\ run'[r].status = "running" => run[r].status = "running"
                         /\ run'[r].status = "absent" => run[r].status = "absent",
         worker'[w].pc = "next" => worker[w].page < MaxPage,
         worker'[w].pc = "fail" => run'[worker[w].run].status # "running" \/ worker[w].tries < MaxAttempts,
         worker'[w].pc \in {"pause", "complete"} => run'[worker[w].run].status # "running"
  PROVE  Calm'
<1>1. Held'
  BY DEF Calm, Held
<1>2. Fresh'
  <2>1. \A s \in Schedulers : sched[s].pc = "enqueue" => sched[s].run \in Runs
    BY DEF TypeInv, SchedsTyped
  <2> QED
    BY <2>1 DEF Calm, Fresh
<1>3. Onward'
  <2> SUFFICES ASSUME NEW v \in Workers
               PROVE  /\ worker'[v].pc = "next" => worker'[v].page < MaxPage
                      /\ worker'[v].pc = "fail" => ~Active(worker[v].run)' \/ worker'[v].tries < MaxAttempts
                      /\ worker'[v].pc = "pause" => ~Active(worker[v].run)'
                      /\ worker'[v].pc = "complete" => \/ ~Active(worker[v].run)'
                                    \/ ReadyElsewhere(worker[v].run, worker[v].page)'
    BY DEF Onward, Active, ReadyElsewhere
  <2>1. CASE v = w
    BY <2>1 DEF Active
  <2>2. CASE v # w
    <3>1. worker[v].pc # "idle" => worker[v].run \in Runs
      BY DEF TypeInv, WorkersTyped
    <3> QED
      BY <2>2, <3>1 DEF Calm, Onward, Active, ReadyElsewhere
  <2> QED
    BY <2>1, <2>2
<1>4. Carried'
  BY DEF Calm, Carried, Active, Live, Enqueued
<1> QED
  BY <1>1, <1>2, <1>3, <1>4 DEF Calm

\* A step that leaves the jobs, the executions and the new runs alone keeps it.
LEMMA QuietCalm ==
  ASSUME TypeInv, Calm, UNCHANGED <<job, worker>>, ~spent'.slow, holder' # Gone,
         \A s \in Schedulers : /\ sched'[s].pc # "fail"
                               /\ sched'[s].pc = "enqueue" <=> sched[s].pc = "enqueue"
                               /\ sched[s].pc = "enqueue" => sched'[s].run = sched[s].run,
         \A r \in Runs : /\ run'[r].status = "running" => run[r].status = "running"
                         /\ run'[r].status = "absent" => run[r].status = "absent"
  PROVE  Calm'
<1>0. /\ \A s \in Schedulers : sched[s].pc = "enqueue" => sched[s].run \in Runs
      /\ \A w \in Workers : worker[w].pc # "idle" => worker[w].run \in Runs
  BY DEF TypeInv, SchedsTyped, WorkersTyped
<1>1. Held'
  BY DEF Calm, Held
<1>2. Fresh'
  BY <1>0 DEF Calm, Fresh
<1>3. Onward'
  BY <1>0 DEF Calm, Onward, Active, ReadyElsewhere
<1>4. Carried'
  BY DEF Calm, Carried, Active, Live, Enqueued
<1> QED
  BY <1>1, <1>2, <1>3, <1>4 DEF Calm

\* A completion that is not a recovery ends its run, and no completion
\* touches a run that is over or was never created.
LEMMA CompleteEnds ==
  ASSUME RunsTyped, NEW r \in Runs, NEW cause, Complete(r, cause)
  PROVE  /\ cause # "stale" => run'[r].status # "running"
         /\ \A q \in Runs : /\ run'[q].status = "running" => run[q].status = "running"
                            /\ run'[q].status = "absent" => run[q].status = "absent"
<1>1. CASE ~Active(r) \/ (cause = "stale" /\ Live(r))
  BY <1>1 DEF Complete, Active
<1>2. CASE ~(~Active(r) \/ (cause = "stale" /\ Live(r)))
  <2>1. PICK covered \in BOOLEAN :
          run' = [run EXCEPT ![r].status = Classified(r, cause, covered)]
    BY <1>2 DEF Complete
  <2>2. Classified(r, cause, covered) \in Ended
    BY ClassifiedEnds
  <2> DEFINE s == Classified(r, cause, covered)
  <2> HIDE DEF s
  <2>3. \A q \in Runs : run'[q].status = IF q = r THEN s ELSE run[q].status
    BY <2>1 DEF RunsTyped, RunType, s
  <2> QED
    BY <1>2, <2>2, <2>3 DEF s, Ended, Active
<1> QED
  BY <1>1, <1>2

\* An execution has a job.
LEMMA HeldLocked ==
  ASSUME Calm, NEW w \in Workers, worker[w].pc # "idle"
  PROVE  job[worker[w].run][worker[w].page].state = "locked" /\ job[worker[w].run][worker[w].page] # NoJob
<1>1. job[worker[w].run][worker[w].page].state = "locked"
  BY DEF Calm, Held
<1>2. NoJob.state = "none"
  BY DEF NoJob
<1> QED
  BY <1>1, <1>2

\* A scheduler creates one run at a time and adds its first job.
LEMMA CreateCalm ==
  ASSUME TypeInv, Calm, NEW s \in Schedulers, CreateRun(s)
  PROVE  Calm'
<1>0. /\ sched \in [Schedulers -> SchedulerType] /\ run \in [Runs -> RunType]
      /\ \A t \in Schedulers : sched[t].pc = "enqueue" => sched[t].run \in Runs
      /\ \A w \in Workers : worker[w].pc # "idle" => worker[w].run \in Runs
  BY DEF TypeInv, SchedsTyped, WorkersTyped, RunsTyped
<1>1. CASE SchedDone(s) /\ UNCHANGED run
  <2>1. UNCHANGED <<job, worker, spent>> /\ sched[s].pc = "create"
    BY DEF CreateRun
  <2>2. holder' # Gone
    BY <1>1, CrawlRunConstants DEF SchedDone, ReleasedLock, Calm, Held
  <2>3. \A t \in Schedulers : sched'[t] = IF t = s THEN IdleScheduler ELSE sched[t]
    BY <1>1, <1>0 DEF SchedDone
  <2> QED
    BY <1>1, <2>1, <2>2, <2>3, QuietCalm DEF IdleScheduler, Calm, Held, Fresh
<1>2. CASE ~(SchedDone(s) /\ UNCHANGED run)
  <2>1. PICK r \in Runs :
          /\ run[r].status = "absent"
          /\ run' = [run EXCEPT ![r].status = "running"]
          /\ sched' = [sched EXCEPT ![s].pc = "enqueue", ![s].run = r]
    BY <1>2 DEF CreateRun
  <2>2. UNCHANGED <<job, worker, spent, holder>> /\ sched[s].pc = "create"
    BY <1>2 DEF CreateRun
  <2>3. \A q \in Runs : run'[q].status = IF q = r THEN "running" ELSE run[q].status
    BY <2>1, <1>0 DEF RunType
  <2>4. sched'[s].pc = "enqueue" /\ sched'[s].run = r /\ \A t \in Schedulers : t # s => sched'[t] = sched[t]
    BY <2>1, <1>0 DEF SchedulerType
  <2>5. \A p \in Pages : job[r][p] = NoJob
    BY <2>1 DEF Calm, Fresh
  <2>6. \A w \in Workers : worker[w].pc # "idle" => worker[w].run # r
    <3>1. \A w \in Workers : worker[w].page \in Pages
      BY DEF TypeInv, WorkersTyped, WorkerType
    <3> QED
      BY <2>5, <3>1, HeldLocked
  <2>7. Held'
    BY <2>2 DEF Calm, Held
  <2>8. Fresh'
    <3>1. \A t \in Schedulers : sched[t].pc = "enqueue" => sched[t].run # r
      BY <2>1 DEF Calm, Fresh
    <3>2. \A q \in Runs, p \in Pages : run'[q].status = "absent" => job'[q][p] = NoJob
      BY <2>2, <2>3 DEF Calm, Fresh
    <3>3. \A t \in Schedulers : sched'[t].pc # "fail"
      BY <2>4 DEF Calm, Fresh
    <3>4. ASSUME NEW t \in Schedulers, sched'[t].pc = "enqueue"
          PROVE  /\ run'[sched'[t].run].status # "absent"
                 /\ \A p \in Pages : job'[sched'[t].run][p] = NoJob
                 /\ \A u \in Schedulers : sched'[u].pc = "enqueue" /\ sched'[u].run = sched'[t].run => t = u
      <4>1. CASE t = s
        BY <4>1, <2>2, <2>3, <2>4, <2>5, <3>1
      <4>2. CASE t # s
        BY <4>2, <3>4, <1>0, <2>2, <2>3, <2>4, <3>1 DEF Calm, Fresh
      <4> QED
        BY <4>1, <4>2
    <3> QED
      BY <3>2, <3>3, <3>4 DEF Fresh
  <2>9. Onward'
    BY <1>0, <2>2, <2>3, <2>6 DEF Calm, Onward, Active, ReadyElsewhere
  <2>10. Carried'
    <3> SUFFICES ASSUME NEW q \in Runs, run'[q].status = "running"
                 PROVE  Live(q)' \/ Enqueued(q)'
      BY DEF Carried, Active
    <3>1. CASE q = r
      BY <3>1, <2>4 DEF Enqueued
    <3>2. CASE q # r
      <4>1. Live(q) \/ Enqueued(q)
        BY <3>2, <2>3 DEF Calm, Carried, Active
      <4> QED
        BY <4>1, <2>2, <2>4 DEF Live, Enqueued
    <3> QED
      BY <3>1, <3>2
  <2> QED
    BY <2>7, <2>8, <2>9, <2>10 DEF Calm
<1> QED
  BY <1>1, <1>2

\* The first job of a run is added once, before anybody works on the run.
LEMMA EnqueueCalm ==
  ASSUME TypeInv, Calm, NEW s \in Schedulers, EnqueueFirst(s)
  PROVE  Calm'
<1> DEFINE r == sched[s].run
<1>0. /\ sched \in [Schedulers -> SchedulerType] /\ job \in [Runs -> [Pages -> JobType]]
      /\ \A t \in Schedulers : sched[t].pc = "enqueue" => sched[t].run \in Runs
      /\ \A w \in Workers : worker[w].pc # "idle" => worker[w].run \in Runs
      /\ \A w \in Workers : worker[w].page \in Pages
      /\ 1 \in Pages
  BY CrawlRunConstants DEF TypeInv, SchedsTyped, WorkersTyped, WorkerType, JobsTyped, Pages
<1>1. sched[s].pc = "enqueue" /\ r \in Runs /\ UNCHANGED <<run, spent>>
  BY <1>0 DEF EnqueueFirst
<1>2. \A p \in Pages : job[r][p] = NoJob
  BY <1>1 DEF Calm, Fresh
<1>3. UNCHANGED worker
  BY <1>0, <1>2 DEF EnqueueFirst, AddPageJob, NoJob
<1>4. \A q \in Runs, p \in Pages :
        job'[q][p] = IF q = r /\ p = 1 THEN [state |-> "ready", tries |-> 0] ELSE job[q][p]
  <2>1. job' = [job EXCEPT ![r][1] = [state |-> "ready", tries |-> 0]]
    BY DEF EnqueueFirst, AddPageJob
  <2> QED
    BY <1>0, <1>1, <2>1
<1>5. \A t \in Schedulers : sched'[t] = IF t = s THEN IdleScheduler ELSE sched[t]
  BY <1>0 DEF EnqueueFirst, SchedDone
<1>6. \A w \in Workers : worker[w].pc # "idle" => worker[w].run # r
  BY <1>0, <1>2, HeldLocked
<1>7. Held'
  <2>1. holder' # Gone
    BY CrawlRunConstants DEF EnqueueFirst, SchedDone, ReleasedLock, Calm, Held
  <2> QED
    BY <2>1, <1>0, <1>1, <1>3, <1>4, <1>6 DEF Calm, Held
<1>8. Fresh'
  <2>1. IdleScheduler.pc = "idle"
    BY DEF IdleScheduler
  <2>2. \A t \in Schedulers : t # s /\ sched[t].pc = "enqueue" => sched[t].run # r
    BY <1>1 DEF Calm, Fresh
  <2>3. run[r].status # "absent"
    BY <1>1 DEF Calm, Fresh
  <2>4. \A q \in Runs, p \in Pages : run'[q].status = "absent" => job'[q][p] = NoJob
    BY <2>3, <1>1, <1>4 DEF Calm, Fresh
  <2>5. \A t \in Schedulers : sched'[t].pc # "fail"
    BY <2>1, <1>5 DEF Calm, Fresh
  <2>6. ASSUME NEW t \in Schedulers, sched'[t].pc = "enqueue"
        PROVE  /\ run'[sched'[t].run].status # "absent"
               /\ \A p \in Pages : job'[sched'[t].run][p] = NoJob
               /\ \A u \in Schedulers : sched'[u].pc = "enqueue" /\ sched'[u].run = sched'[t].run => t = u
    <3>1. t # s /\ sched'[t] = sched[t] /\ sched[t].run # r /\ sched[t].run \in Runs
      BY <2>6, <2>1, <2>2, <1>0, <1>5
    <3> QED
      BY <3>1, <2>6, <2>1, <1>1, <1>4, <1>5 DEF Calm, Fresh
  <2> QED
    BY <2>4, <2>5, <2>6 DEF Fresh
<1>9. Onward'
  BY <1>0, <1>1, <1>3, <1>4, <1>6 DEF Calm, Onward, Active, ReadyElsewhere
<1>10. Carried'
  <2> SUFFICES ASSUME NEW q \in Runs, run[q].status = "running"
               PROVE  Live(q)' \/ Enqueued(q)'
    BY <1>1 DEF Carried, Active
  <2>1. CASE q = r
    BY <2>1, <1>0, <1>4 DEF Live
  <2>2. CASE q # r
    <3>1. Live(q) \/ Enqueued(q)
      BY DEF Calm, Carried, Active
    <3> QED
      BY <2>2, <3>1, <1>4, <1>5 DEF Live, Enqueued
  <2> QED
    BY <2>1, <2>2
<1> QED
  BY <1>7, <1>8, <1>9, <1>10 DEF Calm

\* A scheduler keeps the calm at each of its steps.
LEMMA ScheduleCalm ==
  ASSUME TypeInv, Calm, NEW s \in Schedulers, Schedule(s)
  PROVE  Calm'
<1>0. /\ sched \in [Schedulers -> SchedulerType] /\ RunsTyped
      /\ \A t \in Schedulers : sched[t].pc # "fail"
      /\ holder # Gone /\ ~spent.slow /\ spent \in [commands : Nat, faults : Nat, slow : BOOLEAN]
  BY CrawlRunConstants DEF TypeInv, SchedsTyped, Calm, Held, Fresh, ControlTyped
<1>1. CASE TakeSchedule(s)
  <2>1. UNCHANGED <<job, worker, run>> /\ sched[s].pc = "idle" /\ sched' = [sched EXCEPT ![s].pc = "recoverRead"]
        /\ holder' # Gone /\ (spent' = spent \/ spent' = [spent EXCEPT !.commands = @ + 1])
    BY <1>1, <1>0, CrawlRunConstants DEF TakeSchedule, SchedGoto
  <2>2. sched'[s].pc = "recoverRead" /\ \A t \in Schedulers : t # s => sched'[t] = sched[t]
    BY <2>1, <1>0 DEF SchedulerType
  <2>3. ~spent'.slow
    BY <2>1, <1>0
  <2> QED
    BY <2>1, <2>2, <2>3, <1>0, QuietCalm
<1>2. CASE RecoverRead(s)
  <2>1. UNCHANGED <<job, worker, run, holder, spent>> /\ sched[s].pc = "recoverRead"
    BY <1>2 DEF RecoverRead
  <2>2. sched'[s].pc \in {"read", "recover"} /\ \A t \in Schedulers : t # s => sched'[t] = sched[t]
    BY <1>2, <1>0 DEF RecoverRead, SchedulerType
  <2> QED
    BY <2>1, <2>2, <1>0, QuietCalm
<1>3. CASE Recover(s)
  <2>1. UNCHANGED <<job, worker, holder, spent>> /\ sched[s].pc = "recover"
    BY <1>3 DEF Recover
  <2>2. PICK r \in sched[s].todo : Complete(r, "stale")
    BY <1>3 DEF Recover
  <2>3. r \in Runs
    BY <2>2, <1>0 DEF SchedulerType
  <2>4. sched'[s].pc \in {"read", "recover"} /\ \A t \in Schedulers : t # s => sched'[t] = sched[t]
    BY <1>3, <1>0 DEF Recover, SchedulerType
  <2> QED
    BY <2>1, <2>2, <2>3, <2>4, <1>0, CompleteEnds, QuietCalm
<1>4. CASE ReadSchedulable(s)
  <2>1. UNCHANGED <<job, worker, run, spent>> /\ sched[s].pc = "read"
    BY <1>4 DEF ReadSchedulable
  <2>2. holder' # Gone
    BY <1>4, <1>0, CrawlRunConstants DEF ReadSchedulable, SchedDone, ReleasedLock
  <2>3. sched'[s].pc \in {"create", "idle"} /\ \A t \in Schedulers : t # s => sched'[t] = sched[t]
    BY <1>4, <1>0 DEF ReadSchedulable, SchedGoto, SchedDone, IdleScheduler, SchedulerType
  <2> QED
    BY <2>1, <2>2, <2>3, <1>0, QuietCalm
<1>5. ~EndUnscheduled(s)
  BY <1>0 DEF EndUnscheduled
<1> QED
  BY <1>1, <1>2, <1>3, <1>4, <1>5, CreateCalm, EnqueueCalm DEF Schedule

\* An execution is started with a ready job, when nobody holds the queue.
LEMMA TakeCalm ==
  ASSUME TypeInv, Serial, Calm, NEW w \in Workers, NEW r \in Runs, NEW p \in Pages, TakePage(w, r, p)
  PROVE  Calm'
<1>0. /\ worker \in [Workers -> WorkerType] /\ job \in [Runs -> [Pages -> JobType]]
      /\ \A v \in Workers : worker[v].pc = "idle"
      /\ \A s \in Schedulers : sched[s].pc = "enqueue" => sched[s].run \in Runs
  BY CrawlRunConstants DEF TypeInv, WorkersTyped, JobsTyped, TakePage, Serial, SchedsTyped
<1>1. UNCHANGED <<run, sched, spent>> /\ holder' = w /\ job[r][p].state = "ready"
  BY DEF TakePage, restVars
<1> DEFINE n == job[r][p].tries + 1
<1>2. \A q \in Runs, x \in Pages :
        job'[q][x] = IF q = r /\ x = p THEN [state |-> "locked", tries |-> n] ELSE job[q][x]
  BY <1>0 DEF TakePage
<1>3. /\ worker'[w].pc \in {"context", "stop"} /\ worker'[w].run = r /\ worker'[w].page = p
      /\ worker'[w].tries = n
      /\ worker'[w].cause = "source_failure"
      /\ \A v \in Workers : v # w => worker'[v] = worker[v]
  BY <1>0 DEF TakePage, Execution
<1>4. worker'[w].owns
  <2> DEFINE pc == IF crawler THEN "context" ELSE "stop"
  <2>1. worker'[w] = Execution(pc, r, p, n, TRUE)
    BY <1>0 DEF TakePage
  <2> HIDE DEF pc
  <2>2. worker'[w].owns = TRUE
    BY <2>1 DEF Execution
  <2> QED
    BY <2>2
<1> HIDE DEF n
<1>5. Held'
  BY <1>0, <1>1, <1>2, <1>3, <1>4, CrawlRunConstants DEF Calm, Held
<1>6. Fresh'
  <2>1. job[r][p] # NoJob
    BY <1>1 DEF NoJob
  <2> QED
    BY <2>1, <1>0, <1>1, <1>2 DEF Calm, Fresh
<1>7. Onward'
  BY <1>0, <1>3 DEF Onward
<1>8. Carried'
  <2> SUFFICES ASSUME NEW q \in Runs, Live(q) \/ Enqueued(q)
               PROVE  Live(q)' \/ Enqueued(q)'
    BY <1>1 DEF Calm, Carried, Active
  <2>1. CASE Live(q)
    BY <2>1, <1>2 DEF Live
  <2>2. CASE Enqueued(q)
    BY <2>2, <1>1 DEF Enqueued
  <2> QED
    BY <2>1, <2>2
<1> QED
  BY <1>5, <1>6, <1>7, <1>8 DEF Calm

\* Why a page ends its run is never that it is stale.
LEMMA EndsRunNotStale ==
  ASSUME NEW w
  PROVE  EndsRun(w) # "stale"
  BY DEF EndsRun

\* A page that does not end its run has a next page.
LEMMA NextPageExists ==
  ASSUME TypeInv, NEW w \in Workers, EndsRun(w) = "none"
  PROVE  worker[w].page < MaxPage
<1>1. worker[w].page \in 1 .. MaxPage /\ worker[w].total \in 0 .. MaxPage
  BY DEF TypeInv, WorkersTyped, WorkerType, Pages
<1> QED
  BY <1>1, CrawlRunConstants DEF EndsRun

\* The steps of an execution that leave the queue alone.
LEMMA PageCalm ==
  ASSUME TypeInv, Calm, NEW w \in Workers,
         \/ StopRun(w) \/ PageContext(w) \/ PageFetch(w) \/ PagePersist(w)
         \/ PauseBlocked(w) \/ PauseUnusual(w) \/ PageReserve(w) \/ EndPage(w) \/ EndUnusual(w)
         \/ PageCatch(w)
  PROVE  Calm'
<1>0. /\ worker \in [Workers -> WorkerType] /\ RunsTyped
      /\ worker[w].pc # "idle" /\ worker[w].run \in Runs
      /\ worker[w].cause # "stale"
  BY BusyTyped DEF TypeInv, WorkersTyped, Calm, Held, StopRun, PageContext, PageFetch, PagePersist, PauseBlocked,
     PauseUnusual, PageReserve, EndPage, EndUnusual, PageCatch
<1>1. UNCHANGED <<job, holder, sched, spent>>
  BY DEF StopRun, PageContext, PageFetch, PagePersist, PauseBlocked, PauseUnusual, PausePage, PageReserve, EndPage,
     EndUnusual, PageCatch, queueVars, restVars
<1>2. ASSUME NEW pc \in {"complete", "stop", "fetch", "end", "pause", "fail"},
             Goto(w, pc),
             \A r \in Runs : /\ run'[r].status = "running" => run[r].status = "running"
                             /\ run'[r].status = "absent" => run[r].status = "absent",
             pc = "fail" => run'[worker[w].run].status # "running" \/ worker[w].tries < MaxAttempts,
             pc \in {"pause", "complete"} => run'[worker[w].run].status # "running"
      PROVE  Calm'
  <2>1. /\ \A v \in Workers : v # w => worker'[v] = worker[v]
        /\ worker'[w] = [worker[w] EXCEPT !.pc = pc]
    BY <1>0, <1>2 DEF Goto
  <2>2. /\ worker'[w].pc = pc
        /\ worker'[w].run = worker[w].run /\ worker'[w].page = worker[w].page
        /\ worker'[w].tries = worker[w].tries
        /\ worker'[w].cause = worker[w].cause
    BY <2>1, <1>0 DEF WorkerType
  <2>3. worker'[w].owns = worker[w].owns
    BY <2>1, <1>0 DEF WorkerType
  <2> QED
    BY <1>0, <1>1, <1>2, <2>1, <2>2, <2>3, GoesOnCalm
<1>3. ASSUME NEW cause, cause # "stale", Complete(worker[w].run, cause)
      PROVE  /\ run'[worker[w].run].status # "running"
             /\ \A r \in Runs : /\ run'[r].status = "running" => run[r].status = "running"
                                /\ run'[r].status = "absent" => run[r].status = "absent"
  BY <1>0, <1>3, CompleteEnds
<1>4. CASE StopRun(w) \/ EndPage(w) \/ EndUnusual(w)
  BY <1>4, <1>0, <1>2, <1>3 DEF StopRun, EndPage, EndUnusual
<1>5. CASE PageCatch(w)
  <2>1. worker[w].tries \in Nat /\ MaxAttempts \in Nat
    BY <1>0, CrawlRunConstants DEF WorkerType
  <2> QED
    BY <1>5, <2>1, <1>2, <1>3 DEF PageCatch
<1>6. CASE PageContext(w)
  BY <1>6, <1>2 DEF PageContext, Active
<1>7. CASE PauseBlocked(w)
  BY <1>7, <1>2 DEF PauseBlocked, PausePage
<1>8. CASE PauseUnusual(w)
  BY <1>8, <1>2 DEF PauseUnusual, PausePage, Calm, Onward, Active
<1>9. CASE PageFetch(w)
  <2>1. UNCHANGED run /\ \A v \in Workers : v # w => worker'[v] = worker[v]
    BY <1>9, <1>0 DEF PageFetch
  <2>2. PICK result, total : worker' = [worker EXCEPT ![w].pc = "persist", ![w].result = result, ![w].total = total]
    BY <1>9 DEF PageFetch
  <2>3. worker'[w] = [worker[w] EXCEPT !.pc = "persist", !.result = result, !.total = total]
    BY <2>2, <1>0
  <2>4. /\ worker'[w].pc = "persist"
        /\ worker'[w].run = worker[w].run /\ worker'[w].page = worker[w].page
        /\ worker'[w].tries = worker[w].tries
        /\ worker'[w].cause = worker[w].cause
    BY <2>3, <1>0 DEF WorkerType
  <2>5. worker'[w].owns = worker[w].owns
    BY <2>3, <1>0 DEF WorkerType
  <2> QED
    BY <1>0, <1>1, <2>1, <2>4, <2>5, GoesOnCalm
<1>10. CASE PagePersist(w)
  <2>1. \A v \in Workers : v # w => worker'[v] = worker[v]
    BY <1>10, <1>0 DEF PagePersist
  <2>2. \A r \in Runs : run'[r].status = run[r].status
    BY <1>10, <1>0 DEF PagePersist, RunsTyped, RunType
  <2> DEFINE n == AfterPersist(worker[w].result)
  <2>3. n \in {"reserve", "pauseThenEnd", "endThenPause", "end", "catch"}
    BY <1>10 DEF AfterPersist, PagePersist, TypeInv, WorkersTyped, Responses
  <2>4. \/ worker' = [worker EXCEPT ![w].pc = n]
        \/ worker' = [[worker EXCEPT ![w].pc = n] EXCEPT ![w].result = "none"]
    BY <1>10 DEF PagePersist
  <2> HIDE DEF n
  <2>5. /\ worker'[w].pc = n
        /\ worker'[w].run = worker[w].run /\ worker'[w].page = worker[w].page
        /\ worker'[w].tries = worker[w].tries /\ worker'[w].owns = worker[w].owns
        /\ worker'[w].cause = worker[w].cause
    BY <2>4, <1>0, Zenon DEF WorkerType
  <2> QED
    BY <1>0, <1>1, <2>1, <2>2, <2>3, <2>5, GoesOnCalm
<1>11. CASE PageReserve(w)
  <2>1. \A v \in Workers : v # w => worker'[v] = worker[v]
    BY <1>11, <1>0 DEF PageReserve
  <2>2. \A r \in Runs : run'[r].status = run[r].status
    BY <1>11, <1>0 DEF PageReserve, RunsTyped, RunType
  <2> DEFINE goes == [worker EXCEPT ![w].result = "none", ![w].total = 0]
  <2>3. \/ EndsRun(w) = "none" /\ worker' = [goes EXCEPT ![w].pc = "next"]
        \/ worker' = [goes EXCEPT ![w].pc = "end", ![w].cause = EndsRun(w)]
    BY <1>11 DEF PageReserve
  <2> DEFINE new == [worker[w] EXCEPT !.result = "none", !.total = 0]
  <2>7. worker[w] \in WorkerType /\ 0 \in 0 .. MaxPage
    BY <1>0, CrawlRunConstants
  <2>8. new \in WorkerType
    BY ONLY <2>7 DEF WorkerType
  <2>4. /\ goes[w].run = worker[w].run /\ goes[w].page = worker[w].page
        /\ goes[w].tries = worker[w].tries
        /\ goes[w].cause = worker[w].cause
    BY <1>0 DEF WorkerType
  <2>9. goes \in [Workers -> WorkerType]
    <3>1. goes = [worker EXCEPT ![w] = new]
      BY <1>0 DEF WorkerType
    <3> HIDE DEF new, goes
    <3> QED
      BY <3>1, <2>8, <1>0
  <2>6. goes[w].owns = worker[w].owns
    BY <1>0 DEF WorkerType
  <2> HIDE DEF goes
  <2>5. /\ worker'[w].run = worker[w].run /\ worker'[w].page = worker[w].page
        /\ worker'[w].tries = worker[w].tries /\ worker'[w].owns = worker[w].owns
        /\ worker'[w].cause \in {worker[w].cause, EndsRun(w)}
        /\ \/ EndsRun(w) = "none" /\ worker'[w].pc = "next"
           \/ worker'[w].pc = "end"
    BY <2>3, <2>4, <2>6, <2>9, Zenon DEF WorkerType
  <2> QED
    BY <1>0, <1>1, <2>1, <2>2, <2>5, EndsRunNotStale, NextPageExists, GoesOnCalm
<1> QED
  BY <1>4, <1>5, <1>6, <1>7, <1>8, <1>9, <1>10, <1>11

\* What holds of the only execution that goes on.
LEMMA OnlyExecution ==
  ASSUME TypeInv, Serial, Calm, NEW w \in Workers, worker[w].pc # "idle"
  PROVE  /\ worker[w].run \in Runs /\ worker[w].page \in Pages
         /\ holder = w /\ worker[w].owns /\ worker[w].cause # "stale"
         /\ job[worker[w].run][worker[w].page].state = "locked"
         /\ job[worker[w].run][worker[w].page].tries = worker[w].tries
         /\ run[worker[w].run].status # "absent"
         /\ \A s \in Schedulers : sched[s].pc = "enqueue" =>
              sched[s].run \in Runs /\ sched[s].run # worker[w].run
         /\ \A v \in Workers : v # w => worker[v].pc = "idle"
<1>1. worker[w].run \in Runs /\ worker[w].page \in Pages
  BY DEF TypeInv, WorkersTyped, WorkerType
<1>2. job[worker[w].run][worker[w].page].state = "locked" /\ job[worker[w].run][worker[w].page] # NoJob
  BY HeldLocked
<1>3. \A s \in Schedulers : sched[s].pc = "enqueue" => sched[s].run \in Runs /\ sched[s].run # worker[w].run
  BY <1>1, <1>2 DEF Calm, Fresh, TypeInv, SchedsTyped
<1>4. worker[w].owns
  BY DEF Calm, Held
<1> QED
  BY <1>1, <1>2, <1>3, <1>4 DEF Calm, Held, Fresh, Serial

\* The chain goes on: the next page has a job before this one's is done.
LEMMA NextPageCalm ==
  ASSUME TypeInv, Serial, Calm, NEW w \in Workers, NextPage(w)
  PROVE  Calm'
<1> DEFINE r == worker[w].run
           p == worker[w].page
           ws == [worker EXCEPT ![w].pc = "complete"]
<1>0. worker[w].pc = "next" /\ worker[w].pc # "idle"
  BY DEF NextPage
<1>1. /\ r \in Runs /\ p \in Pages /\ holder = w /\ worker[w].owns /\ worker[w].cause # "stale"
      /\ job[r][p].state = "locked" /\ job[r][p].tries = worker[w].tries
      /\ run[r].status # "absent"
      /\ \A s \in Schedulers : sched[s].pc = "enqueue" => sched[s].run \in Runs /\ sched[s].run # r
      /\ \A v \in Workers : v # w => worker[v].pc = "idle"
  BY <1>0, OnlyExecution
<1>2. p + 1 \in Pages /\ p + 1 # p
  BY <1>0, <1>1, CrawlRunConstants DEF Calm, Onward, Pages
<1>3. worker \in [Workers -> WorkerType] /\ job \in [Runs -> [Pages -> JobType]]
  BY DEF TypeInv, WorkersTyped, JobsTyped
<1>4. UNCHANGED <<run, sched, holder, spent>>
  BY DEF NextPage, restVars
<1>5. \A q \in Runs, x \in Pages :
        job'[q][x] = IF q = r /\ x = p + 1 THEN [state |-> "ready", tries |-> 0] ELSE job[q][x]
  <2>1. job' = [job EXCEPT ![r][p + 1] = [state |-> "ready", tries |-> 0]]
    BY DEF NextPage, AddPageJob
  <2> QED
    BY <1>1, <1>2, <1>3, <2>1
<1>6. ws \in [Workers -> WorkerType] /\ ws[w] = [worker[w] EXCEPT !.pc = "complete"]
      /\ \A v \in Workers : v # w => ws[v] = worker[v]
  BY <1>3 DEF WorkerType
<1>7. worker' = ws \/ worker' = Disowned(ws, r, p + 1)
  BY DEF NextPage, AddPageJob
<1> HIDE DEF ws
<1>8. ws[w].pc = "complete" /\ ws[w].run = r /\ ws[w].page = p /\ ws[w].tries = worker[w].tries
      /\ ws[w].cause = worker[w].cause
  BY <1>3, <1>6 DEF WorkerType
<1>9. ws[w].owns
  <2>1. ws[w].owns = worker[w].owns
    BY <1>3, <1>6 DEF WorkerType
  <2> QED
    BY <2>1, <1>1
<1>10. worker'[w] = ws[w]
  <2>1. ~(ws[w].run = r /\ ws[w].page = p + 1)
    BY <1>2, <1>8
  <2>2. Disowned(ws, r, p + 1)[w] = ws[w]
    BY <2>1, Zenon DEF Disowned
  <2> QED
    BY <1>7, <2>2
<1>11. \A v \in Workers : v # w => worker'[v].pc = "idle"
  BY <1>1, <1>6, <1>7, DisownedFields
<1>12. Held'
  <2>1. worker'[w].owns
    BY <1>9, <1>10
  <2> QED
    BY <2>1, <1>1, <1>2, <1>4, <1>5, <1>8, <1>10, <1>11 DEF Calm, Held
<1>13. Fresh'
  BY <1>1, <1>4, <1>5 DEF Calm, Fresh
<1>14. Onward'
  <2>1. worker'[w].run = r /\ worker'[w].page = p /\ worker'[w].pc = "complete"
    BY <1>8, <1>10
  <2>2. p + 1 \in Pages \ {p} /\ job'[r][p + 1].state = "ready"
    BY <1>1, <1>2, <1>5
  <2>3. \E q \in Pages \ {worker'[w].page} : job'[worker'[w].run][q].state = "ready"
    BY <2>1, <2>2
  <2> QED
    BY <2>1, <2>3, <1>11 DEF Onward, ReadyElsewhere
<1>15. Carried'
  <2> SUFFICES ASSUME NEW q \in Runs, Live(q) \/ Enqueued(q)
               PROVE  Live(q)' \/ Enqueued(q)'
    BY <1>4 DEF Calm, Carried, Active
  <2>1. CASE Live(q)
    BY <2>1, <1>5 DEF Live
  <2>2. CASE Enqueued(q)
    BY <2>2, <1>4 DEF Enqueued
  <2> QED
    BY <2>1, <2>2
<1> QED
  BY <1>12, <1>13, <1>14, <1>15 DEF Calm

\* A job that ends was not the last one of a running run.
LEMMA JobEndsCalm ==
  ASSUME TypeInv, Serial, Calm, NEW w \in Workers, JobFails(w) \/ JobCompletes(w)
  PROVE  Calm'
<1> DEFINE r == worker[w].run
           p == worker[w].page
           j == job'[r][p]
<1>0. worker[w].pc \in {"fail", "complete"} /\ worker[w].pc # "idle"
  BY DEF JobFails, JobCompletes
<1>1. /\ r \in Runs /\ p \in Pages /\ holder = w /\ worker[w].owns
      /\ job[r][p].state = "locked" /\ job[r][p].tries = worker[w].tries
      /\ run[r].status # "absent"
      /\ \A s \in Schedulers : sched[s].pc = "enqueue" => sched[s].run \in Runs /\ sched[s].run # r
      /\ \A v \in Workers : v # w => worker[v].pc = "idle"
  BY <1>0, OnlyExecution
<1>2. worker \in [Workers -> WorkerType] /\ job \in [Runs -> [Pages -> JobType]]
  BY DEF TypeInv, WorkersTyped, JobsTyped
<1>3. UNCHANGED <<run, sched, spent>> /\ holder' = Free
  BY <1>1 DEF JobFails, JobCompletes, restVars, ReleasedLock
<1>4. \A v \in Workers : worker'[v].pc = "idle"
  <2> DEFINE ws == Disowned(worker, r, p)
  <2>1. \A v \in Workers : v # w => ws[v].pc = "idle"
    BY <1>1, <1>2, DisownedFields
  <2>2. ws = [v \in Workers |-> ws[v]]
    BY DEF Disowned
  <2>3. worker' = [worker EXCEPT ![w] = IdleWorker] \/ worker' = [ws EXCEPT ![w] = IdleWorker]
    BY DEF JobFails, JobCompletes
  <2>4. IdleWorker.pc = "idle"
    BY DEF IdleWorker, Execution
  <2> HIDE DEF ws
  <2> QED
    BY <1>1, <1>2, <2>1, <2>2, <2>3, <2>4
<1>5. /\ \A q \in Runs, x \in Pages : ~(q = r /\ x = p) => job'[q][x] = job[q][x]
      /\ JobFails(w) => j = Unlocked(job[r][p])
  <2>1. CASE JobFails(w)
    <3>1. job' = [job EXCEPT ![r][p] = Unlocked(@)]
      BY <2>1, <1>1 DEF JobFails
    <3> QED
      BY <3>1, <1>1, <1>2
  <2>2. CASE JobCompletes(w)
    <3>1. job' = [job EXCEPT ![r][p] = NoJob]
      BY <2>2, <1>1 DEF JobCompletes
    <3>2. ~JobFails(w)
      BY <2>2 DEF JobFails, JobCompletes
    <3> QED
      BY <3>1, <3>2, <1>1, <1>2
  <2> QED
    BY <2>1, <2>2
<1>6. Held'
  BY <1>3, <1>4, CrawlRunConstants DEF Calm, Held
<1>7. Fresh'
  BY <1>1, <1>3, <1>5 DEF Calm, Fresh
<1>8. Onward'
  BY <1>4 DEF Onward
<1>9. Carried'
  <2> SUFFICES ASSUME NEW q \in Runs, Active(q)
               PROVE  Live(q)' \/ Enqueued(q)'
    BY <1>3 DEF Carried, Active
  <2>1. Live(q) \/ Enqueued(q)
    BY DEF Calm, Carried
  <2>2. CASE q # r
    BY <2>1, <2>2, <1>3, <1>5 DEF Live, Enqueued
  <2>3. CASE q = r /\ JobFails(w)
    <3>1. worker[w].tries < MaxAttempts
      BY <2>3 DEF Calm, Onward, JobFails
    <3>2. j.state = "ready"
      BY <2>3, <3>1, <1>1, <1>2, <1>5 DEF Unlocked, JobType
    <3> QED
      BY <3>2, <2>3, <1>1 DEF Live
  <2>4. CASE q = r /\ JobCompletes(w)
    <3>1. PICK x \in Pages \ {p} : job[r][x].state = "ready"
      BY <2>4 DEF Calm, Onward, JobCompletes, ReadyElsewhere
    <3> QED
      BY <3>1, <2>4, <1>5 DEF Live
  <2> QED
    BY <2>2, <2>3, <2>4
<1> QED
  BY <1>6, <1>7, <1>8, <1>9 DEF Calm

\* While nothing fails, every step keeps the calm.
LEMMA CalmStep == TypeInv /\ SerialInv /\ CalmInv /\ [Next]_vars => CalmInv'
<1> SUFFICES ASSUME TypeInv, SerialInv, CalmInv, [Next]_vars, spent'.faults = 0
             PROVE  Calm'
  BY DEF CalmInv
<1>1. /\ spent.faults = 0
      /\ \/ \E s \in Schedulers : Schedule(s)
         \/ Take
         \/ \E w \in Workers : PageStep(w)
         \/ RecoverDeadLock \/ Operator \/ PauseEnds
         \/ \E r \in Runs : Ages(r)
         \/ UNCHANGED vars
  BY CalmSteps
<1>2. Calm /\ Serial /\ holder # Gone /\ ~spent.slow
  BY <1>1 DEF CalmInv, SerialInv, Calm, Held
<1>3. ASSUME UNCHANGED <<job, worker, holder, sched>>, ~spent'.slow,
             \A r \in Runs : run'[r].status = run[r].status
      PROVE  Calm'
  BY <1>2, <1>3, QuietCalm DEF Calm, Fresh
<1>4. CASE \E s \in Schedulers : Schedule(s)
  BY <1>2, <1>4, ScheduleCalm
<1>5. CASE Take
  BY <1>2, <1>5, TakeCalm DEF Take
<1>6. CASE \E w \in Workers : PageStep(w)
  BY <1>2, <1>6, PageCalm, NextPageCalm, JobEndsCalm DEF PageStep
<1>7. CASE Operator
  <2>1. spent' = [spent EXCEPT !.commands = @ + 1] /\ UNCHANGED <<job, worker, holder, sched, run>>
    BY <1>7 DEF Operator, PauseQuery, ResumeQuery, EnableQuery, SwitchCrawler, Command, controlVars
  <2>2. ~spent'.slow
    BY <2>1, <1>2 DEF TypeInv, ControlTyped
  <2> QED
    BY <2>1, <2>2, <1>3
<1>8. CASE PauseEnds \/ UNCHANGED vars
  BY <1>8, <1>2, <1>3 DEF PauseEnds, controlVars, vars
<1>9. CASE \E r \in Runs : Ages(r)
  <2>1. \A q \in Runs : run'[q].status = run[q].status
    BY <1>9 DEF Ages, TypeInv, RunsTyped, RunType
  <2> QED
    BY <1>9, <1>2, <2>1, <1>3 DEF Ages
<1> QED
  BY <1>1, <1>2, <1>4, <1>5, <1>6, <1>7, <1>8, <1>9 DEF RecoverDeadLock

(* As long as no statement failed and no process died, a running run has a *)
(* job that goes on with it, or a scheduler is about to add its first.     *)
THEOREM NoRunIsStranded == Spec => []NoStrandedRun
<1>1. Init => CalmInv
  BY CalmInit DEF CalmInv
<1>2. CalmInv => NoStrandedRun
  BY DEF CalmInv, Calm, Carried, NoStrandedRun, Enqueued, Attended
<1> QED
  BY <1>1, <1>2, TypeInvariant, SerialInvariant, CalmStep, PTL DEF Spec

=============================================================================
