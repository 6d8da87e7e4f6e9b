------------------------------ MODULE CrawlRun ------------------------------
(***************************************************************************)
(* The crawl runs of one source search query: the scheduler that creates   *)
(* them, the search page jobs that fetch them page by page, the completion *)
(* that classifies them and the recovery of runs that were left behind.    *)
(*                                                                         *)
(* A step is one database statement or transaction, one request, or one    *)
(* step of the job queue.  Schedulers (the daily cron job and the admin's  *)
(* manual job, which waits in the queue "nettiauto" like the pages), page  *)
(* jobs and operators interleave.                                          *)
(*                                                                         *)
(* Abstractions: time is a choice (a cadence is due, two hours pass, a     *)
(* pause ends at any moment, but no step lasts two hours); the coverage of *)
(* the source's total by the listings a run saw is a choice made when the  *)
(* run completes; a total of no pages is a total of one page.  Detail and  *)
(* hero jobs are only counted where the code counts them.                  *)
(***************************************************************************)
EXTENDS Integers, FiniteSets

CONSTANTS
  Runs, NoRun,  \* crawl runs, and the absence of one
  Schedulers,   \* executions of schedule_nettiauto_crawl
  Manual,       \* the one of them that runs in the queue "nettiauto"
  Workers,      \* concurrent executions of search page jobs
  MaxPage,      \* pages the source may report
  PageLimit,    \* CRAWLER_MAX_PAGES_PER_RUN, 0 crawls all pages
  MaxAttempts,  \* NETTIAUTO_SEARCH_MAX_ATTEMPTS
  DetailLimit,  \* CRAWLER_DETAIL_MAX_PER_RUN
  Candidates,   \* detail candidates a page may have
  Free, Gone,   \* the queue lock: nobody's, or a dead process's
  MaxCommands, MaxFaults  \* bounds on the environment

ASSUME CrawlRunConstants ==
  /\ IsFiniteSet(Runs) /\ NoRun \notin Runs
  /\ Manual \in Schedulers
  /\ Schedulers \cap Workers = {}
  /\ {Free, Gone} \cap (Workers \cup {Manual}) = {} /\ Free # Gone
  /\ MaxPage \in Nat \ {0} /\ PageLimit \in 0 .. MaxPage
  /\ MaxAttempts \in Nat \ {0}
  /\ DetailLimit \in Nat /\ Candidates \in Nat
  /\ MaxCommands \in Nat /\ MaxFaults \in Nat

VARIABLES
  run,      \* the crawl_runs rows
  fetched,  \* per run and page, the attempts recorded as a successful fetch
  latest,   \* source_search_queries.last_complete_crawl_run_id
  query,    \* is the query enabled, is it paused now
  crawler,  \* CRAWLER_ENABLED and not CRAWLER_PAUSED
  job,      \* the job with the key of a run's page
  holder,   \* who holds the lock of the queue "nettiauto"
  worker,   \* the page job executions
  sched,    \* the scheduler executions
  owed,     \* history: a run ended because of an unusual body, its query is to be paused
  spent     \* history: operator commands, faults, was a slow job unlocked

vars == <<run, fetched, latest, query, crawler, job, holder, worker, sched, owed, spent>>

Pages == 1 .. MaxPage
Ended == {"completed", "partial", "failed", "cancelled"}
Responses == {"page", "invalid_json", "transient", "fatal", "blocked", "unusual"}
Causes == {"exhausted", "page_limit", "source_failure", "operator_stop", "stale"}

NewRun == [status |-> "absent", expected |-> 0, reserved |-> 0, aged |-> FALSE]
NoJob == [state |-> "none", tries |-> 0]
Execution(pc, r, p, tries, owns) ==
  [pc |-> pc, run |-> r, page |-> p, tries |-> tries, owns |-> owns,
   result |-> "none", total |-> 0, cause |-> "source_failure"]
IdleWorker == Execution("idle", NoRun, 1, 0, FALSE)
IdleScheduler == [pc |-> "idle", todo |-> {}, run |-> NoRun]

RunType == [status : Ended \cup {"absent", "running"}, expected : 0 .. MaxPage,
            reserved : 0 .. DetailLimit, aged : BOOLEAN]
JobType == [state : {"none", "ready", "locked", "dead"}, tries : 0 .. MaxAttempts]
WorkerType == [pc : {"idle", "context", "fetch", "persist", "pauseThenEnd", "reserve", "end",
                     "endThenPause", "pause", "next", "catch", "stop", "complete", "fail"},
               run : Runs \cup {NoRun}, page : Pages, tries : 0 .. MaxAttempts,
               owns : BOOLEAN, result : Responses \cup {"none"}, total : 0 .. MaxPage,
               cause : Causes]
SchedulerType == [pc : {"idle", "recoverRead", "recover", "read", "create", "enqueue", "fail"},
                  todo : SUBSET Runs, run : Runs \cup {NoRun}]

(* Every variable keeps its type: the detail jobs reserved for a run stay  *)
(* within its limit and no job is tried more often than it may be.         *)
TypeOK ==
  /\ run \in [Runs -> RunType]
  /\ fetched \in [Runs -> [Pages -> SUBSET (1 .. MaxAttempts)]]
  /\ latest \in Runs \cup {NoRun}
  /\ query \in [enabled : BOOLEAN, paused : BOOLEAN]
  /\ crawler \in BOOLEAN
  /\ job \in [Runs -> [Pages -> JobType]]
  /\ holder \in Workers \cup {Manual, Free, Gone}
  /\ worker \in [Workers -> WorkerType]
  /\ \A w \in Workers : worker[w].pc # "idle" => worker[w].run \in Runs
  /\ sched \in [Schedulers -> SchedulerType]
  /\ \A s \in Schedulers : sched[s].pc \in {"enqueue", "fail"} => sched[s].run \in Runs
  /\ owed \in BOOLEAN
  /\ spent \in [commands : 0 .. MaxCommands, faults : 0 .. MaxFaults, slow : BOOLEAN]

Init ==
  /\ run = [r \in Runs |-> NewRun]
  /\ fetched = [r \in Runs |-> [p \in Pages |-> {}]]
  /\ latest = NoRun
  /\ query = [enabled |-> TRUE, paused |-> FALSE] /\ crawler = TRUE
  /\ job = [r \in Runs |-> [p \in Pages |-> NoJob]]
  /\ holder = Free
  /\ worker = [w \in Workers |-> IdleWorker]
  /\ sched = [s \in Schedulers |-> IdleScheduler]
  /\ owed = FALSE
  /\ spent = [commands |-> 0, faults |-> 0, slow |-> FALSE]

-----------------------------------------------------------------------------
(* The job queue: see DetailBackfill for the meaning of a locked row whose *)
(* key is taken over.                                                      *)

Disowned(workers, r, p) ==
  [w \in Workers |-> IF workers[w].run = r /\ workers[w].page = p
                     THEN [workers[w] EXCEPT !.owns = FALSE] ELSE workers[w]]

AddPageJob(r, p, workers) ==
  /\ job' = [job EXCEPT ![r][p] = [state |-> "ready", tries |-> 0]]
  /\ worker' = IF job[r][p].state = "locked" THEN Disowned(workers, r, p) ELSE workers

ReleasedLock(w) == IF holder = w THEN Free ELSE holder

\* A job can still run, or is running.
Live(r) == \E p \in Pages : job[r][p].state \in {"ready", "locked"}

-----------------------------------------------------------------------------
(* Completion of a run: one transaction that locks the run and its query.  *)

Active(r) == run[r].status = "running"

OkPages(r) == {p \in Pages : fetched[r][p] # {}}

\* evaluateCrawlRunCompletionQuality, without the coverage of the total.
AllPagesFetched(r) ==
  /\ run[r].expected # 0
  /\ OkPages(r) = 1 .. run[r].expected

\* Mutant: a crawl that reached the last page is complete whatever it fetched.
ClassifiedUnchecked(r, cause, covered) ==
  IF cause = "operator_stop" THEN "cancelled"
  ELSE IF cause = "exhausted" THEN "completed"
  ELSE IF OkPages(r) # {} THEN "partial" ELSE "failed"

\* classifyCrawlRunCompletion
Classified(r, cause, covered) ==
  IF cause = "operator_stop" THEN "cancelled"
  ELSE IF cause = "exhausted" /\ AllPagesFetched(r) /\ covered THEN "completed"
  ELSE IF OkPages(r) # {} THEN "partial" ELSE "failed"

\* Mutant: a run that is over is classified again.
CompleteAgain(r, cause) ==
  \E covered \in BOOLEAN :
    LET status == Classified(r, cause, covered)
    IN  /\ run' = [run EXCEPT ![r].status = status]
        /\ latest' = IF status = "completed" THEN r ELSE latest

\* completeCrawlRun: a run that is over is left alone.
Complete(r, cause) ==
  IF ~Active(r) \/ (cause = "stale" /\ Live(r))
  THEN UNCHANGED <<run, latest>>
  ELSE \E covered \in BOOLEAN :
         LET status == Classified(r, cause, covered)
         IN  /\ run' = [run EXCEPT ![r].status = status]
             /\ latest' = IF status = "completed" THEN r ELSE latest

-----------------------------------------------------------------------------
(* The scheduler.  It ignores the other queries of its loop.               *)

pageVars == <<fetched, query, crawler, owed>>
SchedGoto(s, pc) == sched' = [sched EXCEPT ![s].pc = pc]
SchedDone(s) == /\ sched' = [sched EXCEPT ![s] = IdleScheduler]
                /\ holder' = ReleasedLock(s)

\* The configuration is read when the job starts.
TakeSchedule(s) ==
  /\ sched[s].pc = "idle" /\ crawler
  /\ IF s = Manual
     THEN /\ holder = Free /\ holder' = s
          /\ spent.commands < MaxCommands
          /\ spent' = [spent EXCEPT !.commands = @ + 1]
     ELSE UNCHANGED <<holder, spent>>
  /\ SchedGoto(s, "recoverRead")
  /\ UNCHANGED <<run, latest, job, worker, pageVars>>

\* Mutant: no run is recovered.
RecoverNone(s) ==
  /\ sched[s].pc = "recoverRead"
  /\ sched' = [sched EXCEPT ![s].pc = "read"]
  /\ UNCHANGED <<run, latest, job, holder, worker, pageVars, spent>>

\* recoverStaleCrawlRuns reads the stale runs, then completes each.
RecoverRead(s) ==
  /\ sched[s].pc = "recoverRead"
  /\ LET stale == {r \in Runs : Active(r) /\ run[r].aged /\ ~Live(r)}
     IN  sched' = [sched EXCEPT ![s].pc = IF stale = {} THEN "read" ELSE "recover",
                                ![s].todo = stale]
  /\ UNCHANGED <<run, latest, job, holder, worker, pageVars, spent>>

Recover(s) ==
  /\ sched[s].pc = "recover"
  /\ \E r \in sched[s].todo :
       /\ Complete(r, "stale")
       /\ sched' = [sched EXCEPT ![s].pc = IF sched[s].todo = {r} THEN "read" ELSE "recover",
                                 ![s].todo = @ \ {r}]
  /\ UNCHANGED <<job, holder, worker, pageVars, spent>>

\* getSchedulableSourceSearchQueries: the query may be due, or is forced.
ReadSchedulable(s) ==
  /\ sched[s].pc = "read"
  /\ \/ /\ query.enabled /\ ~query.paused /\ \A r \in Runs : ~Active(r)
        /\ SchedGoto(s, "create") /\ UNCHANGED holder
     \/ SchedDone(s)
  /\ UNCHANGED <<run, latest, job, worker, pageVars, spent>>

\* createCrawlRunForSourceQuery, under the lock of the query's row.
\* Runs bounds the crawl runs of a behaviour.
CreateRun(s) ==
  /\ sched[s].pc = "create"
  /\ IF (\E r \in Runs : Active(r)) \/ (\A r \in Runs : run[r].status # "absent")
     THEN SchedDone(s) /\ UNCHANGED run
     ELSE /\ \E r \in Runs :
               /\ run[r].status = "absent"
               /\ run' = [run EXCEPT ![r].status = "running"]
               /\ sched' = [sched EXCEPT ![s].pc = "enqueue", ![s].run = r]
          /\ UNCHANGED holder
  /\ UNCHANGED <<latest, job, worker, pageVars, spent>>

EnqueueFirst(s) ==
  /\ sched[s].pc = "enqueue"
  /\ AddPageJob(sched[s].run, 1, worker)
  /\ SchedDone(s)
  /\ UNCHANGED <<run, latest, pageVars, spent>>

EnqueueFirstFails(s) ==
  /\ sched[s].pc = "enqueue" /\ spent.faults < MaxFaults
  /\ spent' = [spent EXCEPT !.faults = @ + 1]
  /\ SchedGoto(s, "fail")
  /\ UNCHANGED <<run, latest, job, holder, worker, pageVars>>

EndUnscheduled(s) ==
  /\ sched[s].pc = "fail"
  /\ Complete(sched[s].run, "source_failure")
  /\ SchedDone(s)
  /\ UNCHANGED <<job, worker, pageVars, spent>>

\* The process dies, or a statement fails outside the try.
ScheduleFails(s) ==
  /\ sched[s].pc # "idle" /\ spent.faults < MaxFaults
  /\ spent' = [spent EXCEPT !.faults = @ + 1]
  /\ sched' = [sched EXCEPT ![s] = IdleScheduler]
  /\ holder' \in (IF holder = s THEN {Free, Gone} ELSE {holder})
  /\ UNCHANGED <<run, latest, job, worker, pageVars>>

Schedule(s) ==
  \/ TakeSchedule(s) \/ RecoverRead(s) \/ Recover(s) \/ ReadSchedulable(s)
  \/ CreateRun(s) \/ EnqueueFirst(s) \/ EndUnscheduled(s)

-----------------------------------------------------------------------------
(* collectSearchResultPage, the job of one page of a run.                  *)

queueVars == <<job, holder>>
restVars == <<query, crawler, sched, spent>>
Goto(w, pc) == worker' = [worker EXCEPT ![w].pc = pc]

TakePage(w, r, p) ==
  /\ worker[w].pc = "idle" /\ holder = Free
  /\ job[r][p].state = "ready"
  /\ job' = [job EXCEPT ![r][p] = [state |-> "locked", tries |-> @.tries + 1]]
  /\ holder' = w
  /\ worker' = [worker EXCEPT ![w] =
       Execution(IF crawler THEN "context" ELSE "stop", r, p, job[r][p].tries + 1, TRUE)]
  /\ UNCHANGED <<run, fetched, latest, owed, restVars>>

\* The crawler is off, or the query is disabled or paused.
StopRun(w) ==
  /\ worker[w].pc = "stop"
  /\ Complete(worker[w].run, "operator_stop")
  /\ Goto(w, "complete")
  /\ UNCHANGED <<fetched, owed, queueVars, restVars>>

PageContext(w) ==
  /\ worker[w].pc = "context"
  /\ Goto(w, IF ~Active(worker[w].run) THEN "complete"
             ELSE IF ~query.enabled \/ query.paused THEN "stop" ELSE "fetch")
  /\ UNCHANGED <<run, fetched, latest, owed, queueVars, restVars>>

\* A parsed page may or may not tell the total.
PageFetch(w) ==
  /\ worker[w].pc = "fetch"
  /\ \E result \in Responses, total \in 0 .. MaxPage :
       /\ result # "page" => total = 0
       /\ worker' = [worker EXCEPT ![w].pc = "persist", ![w].result = result,
                                   ![w].total = total]
  /\ UNCHANGED <<run, fetched, latest, owed, queueVars, restVars>>

\* A request that ends before a response counts as transient.
\* Where the page goes on once its evidence is stored.
AfterPersist(result) ==
  CASE result \in {"page", "invalid_json"} -> "reserve"
    [] result = "blocked" -> "pauseThenEnd"
    [] result = "unusual" -> "endThenPause"
    [] result = "fatal" -> "end"
    [] result = "transient" -> "catch"

\* persistSearchResultPage: the row of (run, page, attempt) is written over,
\* and the run is updated whatever its status.
PagePersist(w) ==
  /\ worker[w].pc = "persist"
  /\ LET r == worker[w].run
         p == worker[w].page
         n == worker[w].tries
         ok == worker[w].result \in {"page", "invalid_json"}
         goes == [worker EXCEPT ![w].pc = AfterPersist(worker[w].result)]
     IN  /\ fetched' = [fetched EXCEPT ![r][p] = IF ok THEN @ \cup {n} ELSE @ \ {n}]
         /\ run' = [run EXCEPT ![r].aged = FALSE,
                               ![r].expected = IF worker[w].total = 0 THEN @ ELSE worker[w].total]
         /\ worker' = IF ok THEN goes ELSE [goes EXCEPT ![w].result = "none"]
  /\ UNCHANGED <<latest, owed, queueVars, restVars>>

PausePage(w, after) ==
  /\ query' = [query EXCEPT !.paused = TRUE]
  /\ Goto(w, after)
  /\ UNCHANGED <<run, fetched, latest, queueVars, crawler, sched, spent>>

PauseBlocked(w) == worker[w].pc = "pauseThenEnd" /\ PausePage(w, "end") /\ UNCHANGED owed
PauseUnusual(w) == worker[w].pc = "pause" /\ PausePage(w, "complete") /\ owed' = FALSE

\* reserveCrawlRunDetailJobs
Reserved(reserved, requested) ==
  LET left == DetailLimit - reserved IN IF requested < left THEN requested ELSE left

\* Why a parsed page ends the run, or "none" if it goes on to the next page.
EndsRun(w) ==
  IF worker[w].result = "invalid_json" THEN "source_failure"
  ELSE IF PageLimit = 0 /\ worker[w].total = 0 THEN "source_failure"
  ELSE IF worker[w].total # 0 /\ worker[w].page >= worker[w].total THEN "exhausted"
  ELSE IF PageLimit # 0 /\ worker[w].page >= PageLimit THEN "page_limit"
  ELSE "none"

PageReserve(w) ==
  /\ worker[w].pc = "reserve"
  /\ \E requested \in {0, Candidates} :
       run' = IF requested > 0 /\ DetailLimit > 0 /\ Active(worker[w].run)
              THEN [run EXCEPT ![worker[w].run].reserved = @ + Reserved(@, requested),
                               ![worker[w].run].aged = FALSE]
              ELSE run
  /\ LET goes == [worker EXCEPT ![w].result = "none", ![w].total = 0]
     IN  worker' = IF EndsRun(w) = "none" THEN [goes EXCEPT ![w].pc = "next"]
                   ELSE [goes EXCEPT ![w].pc = "end", ![w].cause = EndsRun(w)]
  /\ UNCHANGED <<fetched, latest, owed, queueVars, restVars>>

EndPage(w) ==
  /\ worker[w].pc = "end"
  /\ Complete(worker[w].run, worker[w].cause)
  /\ Goto(w, "complete")
  /\ UNCHANGED <<fetched, owed, queueVars, restVars>>

\* An unusual body ends the run first and pauses its query afterwards.
EndUnusual(w) ==
  /\ worker[w].pc = "endThenPause"
  /\ Complete(worker[w].run, "source_failure")
  /\ owed' = TRUE
  /\ Goto(w, "pause")
  /\ UNCHANGED <<fetched, queueVars, restVars>>

NextPage(w) ==
  /\ worker[w].pc = "next"
  /\ AddPageJob(worker[w].run, worker[w].page + 1, [worker EXCEPT ![w].pc = "complete"])
  /\ UNCHANGED <<run, fetched, latest, holder, owed, restVars>>

\* Mutant: the last try is not recognised as the last.
PageCatchLate(w) ==
  /\ worker[w].pc = "catch"
  /\ IF worker[w].tries > MaxAttempts
     THEN Complete(worker[w].run, "source_failure") ELSE UNCHANGED <<run, latest>>
  /\ Goto(w, "fail")
  /\ UNCHANGED <<fetched, owed, queueVars, restVars>>

PageCatch(w) ==
  /\ worker[w].pc = "catch"
  /\ IF worker[w].tries >= MaxAttempts
     THEN Complete(worker[w].run, "source_failure") ELSE UNCHANGED <<run, latest>>
  /\ Goto(w, "fail")
  /\ UNCHANGED <<fetched, owed, queueVars, restVars>>

-----------------------------------------------------------------------------
(* The end of a page job in the queue, its failures and the recovery of    *)
(* the queue lock.                                                         *)

Unlocked(j) ==
  IF j.state # "locked" THEN j
  ELSE [j EXCEPT !.state = IF j.tries < MaxAttempts THEN "ready" ELSE "dead"]

\* Graphile tries a failed job again, later, as often as it may.
JobFails(w) ==
  /\ worker[w].pc = "fail"
  /\ job' = IF worker[w].owns /\ holder = w
            THEN [job EXCEPT ![worker[w].run][worker[w].page] = Unlocked(@)] ELSE job
  /\ holder' = ReleasedLock(w)
  /\ worker' = [worker EXCEPT ![w] = IdleWorker]
  /\ UNCHANGED <<run, fetched, latest, owed, restVars>>

\* It deletes the row of a job that is done, whoever holds its lock by now.
JobCompletes(w) ==
  /\ worker[w].pc = "complete"
  /\ LET r == worker[w].run
         p == worker[w].page
     IN  IF worker[w].owns
         THEN /\ job' = [job EXCEPT ![r][p] = NoJob]
              /\ worker' = [Disowned(worker, r, p) EXCEPT ![w] = IdleWorker]
         ELSE worker' = [worker EXCEPT ![w] = IdleWorker] /\ UNCHANGED job
  /\ holder' = ReleasedLock(w)
  /\ UNCHANGED <<run, fetched, latest, owed, restVars>>

PageStep(w) ==
  \/ StopRun(w) \/ PageContext(w) \/ PageFetch(w) \/ PagePersist(w)
  \/ PauseBlocked(w) \/ PauseUnusual(w) \/ PageReserve(w) \/ EndPage(w) \/ EndUnusual(w)
  \/ NextPage(w) \/ PageCatch(w) \/ JobFails(w) \/ JobCompletes(w)

faultVars == <<run, fetched, latest, owed, query, crawler, sched>>

Fault == /\ spent.faults < MaxFaults
         /\ spent' = [spent EXCEPT !.faults = @ + 1]

\* A statement fails: inside the try it is caught.
StatementFails(w) ==
  /\ worker[w].pc \notin {"idle", "fetch", "complete", "fail"} /\ Fault
  /\ Goto(w, IF worker[w].pc \in {"catch", "stop"} THEN "fail" ELSE "catch")
  /\ UNCHANGED <<faultVars, queueVars>>

\* The process dies and leaves the job and the queue locked.
PageDies(w) ==
  /\ worker[w].pc # "idle" /\ Fault
  /\ holder' = IF holder = w THEN Gone ELSE holder
  /\ worker' = [worker EXCEPT ![w] = IdleWorker]
  /\ UNCHANGED <<faultVars, job>>

UnlockQueue ==
  /\ job' = [r \in Runs |-> [p \in Pages |-> Unlocked(job[r][p])]]
  /\ holder' = Free
  /\ UNCHANGED <<faultVars, worker>>

\* recoverStaleNettiautoQueueLocks sees only the age of the lock: it also
\* unlocks the job of a process that is alive but slow.
RecoverDeadLock == holder = Gone /\ UnlockQueue /\ UNCHANGED spent
RecoverSlowLock ==
  /\ holder \in Workers \cup {Manual} /\ UnlockQueue
  /\ spent.faults < MaxFaults
  /\ spent' = [spent EXCEPT !.faults = @ + 1, !.slow = TRUE]

-----------------------------------------------------------------------------
(* The operator and the clock.                                             *)

controlVars == <<run, fetched, latest, job, holder, worker, sched, owed>>

Command == /\ spent.commands < MaxCommands
           /\ spent' = [spent EXCEPT !.commands = @ + 1]

\* setSourceSearchQueriesPaused
PauseQuery ==
  /\ Command
  /\ query' = [query EXCEPT !.paused = TRUE]
  /\ UNCHANGED <<controlVars, crawler>>

ResumeQuery ==
  /\ Command /\ query.paused
  /\ query' = [query EXCEPT !.paused = FALSE]
  /\ UNCHANGED <<controlVars, crawler>>

EnableQuery ==
  /\ Command
  /\ query' = [query EXCEPT !.enabled = ~@]
  /\ UNCHANGED <<controlVars, crawler>>

\* A deployment with other values of CRAWLER_ENABLED and CRAWLER_PAUSED.
SwitchCrawler ==
  /\ Command
  /\ crawler' = ~crawler
  /\ UNCHANGED <<controlVars, query>>

Operator == PauseQuery \/ ResumeQuery \/ EnableQuery \/ SwitchCrawler

\* now() passes paused_until.
PauseEnds ==
  /\ query.paused
  /\ query' = [query EXCEPT !.paused = FALSE]
  /\ UNCHANGED <<controlVars, crawler, spent>>

\* Somebody is about to work on the run.
Attended(r) ==
  \/ \E s \in Schedulers : sched[s].pc \in {"enqueue", "fail"} /\ sched[s].run = r
  \/ \E w \in Workers : worker[w].pc # "idle" /\ worker[w].run = r

\* Two hours pass without an update of the run.
Ages(r) ==
  /\ Active(r) /\ ~run[r].aged /\ ~Attended(r)
  /\ run' = [run EXCEPT ![r].aged = TRUE]
  /\ UNCHANGED <<fetched, latest, query, crawler, job, holder, worker, sched, owed, spent>>

-----------------------------------------------------------------------------
Take == \E w \in Workers, r \in Runs, p \in Pages : TakePage(w, r, p)

Next ==
  \/ \E s \in Schedulers : Schedule(s) \/ EnqueueFirstFails(s) \/ ScheduleFails(s)
  \/ Take
  \/ \E w \in Workers : PageStep(w) \/ StatementFails(w) \/ PageDies(w)
  \/ RecoverDeadLock \/ RecoverSlowLock
  \/ Operator \/ PauseEnds
  \/ \E r \in Runs : Ages(r)

Spec == Init /\ [][Next]_vars

(* Cron starts the scheduler and the lock recovery again and again, and    *)
(* Graphile runs ready jobs; no request or statement hangs.                *)
Fairness ==
  /\ \A s \in Schedulers : WF_vars(Schedule(s))
  /\ WF_vars(Take)
  /\ \A w \in Workers : WF_vars(PageStep(w))
  /\ WF_vars(RecoverDeadLock)
  /\ \A r \in Runs : WF_vars(Ages(r))

FairSpec == Spec /\ Fairness

-----------------------------------------------------------------------------
(* Properties.                                                             *)

(* A query never has two running runs, whichever of its schedulers raced   *)
(* each other and whatever they read before: see createCrawlRunForSource-  *)
(* Query.                                                                  *)
OneActiveRun == \A r, q \in Runs : Active(r) /\ Active(q) => r = q

(* A run that is complete has a successful fetch of every page the source  *)
(* announced, also when pages were retried, enqueued twice or changed      *)
(* their total in between (completeCrawlRun and persistSearchResultPage).  *)
(* A slow worker whose lock was taken may still write to it afterwards.    *)
CompletedCovered ==
  ~spent.slow => \A r \in Runs : run[r].status = "completed" => AllPagesFetched(r)

(* As long as no statement failed and no process died, a running run has a *)
(* job that goes on with it or somebody who is about to (the retries and   *)
(* the page chain of collectSearchResultPage).                             *)
NoStrandedRun ==
  spent.faults = 0 =>
    \A r \in Runs : Active(r) => Live(r) \/ Attended(r)

(* The crawl runs of a query follow the abstract life cycle: one at a      *)
(* time, a run that is over stays as it is, and the query points to the    *)
(* last one that completed.                                                *)
Lifecycle ==
  INSTANCE RunLifecycle WITH status <- [r \in Runs |-> run[r].status], latest <- latest

ImplementsLifecycle == Lifecycle!Spec

(* Every run ends as long as the crawler is on: a run whose job or process *)
(* was lost is recovered by recoverStaleCrawlRuns.                         *)
RunEnds == \A r \in Runs : Active(r) ~> (~Active(r) \/ ~crawler)

(* A query whose run was ended by an unusual response body is paused       *)
(* afterwards (exec: completeCrawlRun, then pauseSourceSearchQuery).       *)
BlockPauses == owed ~> ~owed

=============================================================================
