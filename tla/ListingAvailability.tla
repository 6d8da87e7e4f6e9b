------------------------ MODULE ListingAvailability ------------------------
(***************************************************************************)
(* The availability of listings: what search pages confirm about them and  *)
(* what complete crawl runs of the current listings infer from missing     *)
(* them.  The source has two search queries, one of current and one of     *)
(* sold listings (DEFAULT_NETTIAUTO_SOURCE_QUERIES).                       *)
(*                                                                         *)
(* A page is persisted in one transaction, atomic when it commits, whose   *)
(* time is taken when it begins.  The completion of a run is split at the  *)
(* snapshots its statements take (PostgreSQL's read committed): candidates *)
(* are read, and each is looked at again when its row is updated.  The     *)
(* locks the transactions hold are guards.                                 *)
(*                                                                         *)
(* Abstractions: a page shows any listings; whether a run ends complete is *)
(* a choice (CrawlRun tells when it does); one clock stamps everything.    *)
(***************************************************************************)
EXTENDS Integers

CONSTANTS
  Runs, NoRun,  \* crawl runs, and the absence of one
  Listings,
  Workers,      \* concurrent executions of search page jobs
  MaxTime       \* bounds the clock

ASSUME AvailabilityConstants == NoRun \notin Runs /\ MaxTime \in Nat \ {0}

VARIABLES
  now,       \* the clock
  run,       \* the crawl_runs rows: query, status, started_at
  avail,     \* listings.current_availability, "absent" without a row
  confirmed, \* listings.availability_last_confirmed_at
  sighted,   \* per run, the listings with a listing_sightings row
  marked,    \* per listing and run, event_at of its marked_stale event
  worker,    \* the page job executions
  slow       \* history: the lock of a job that still runs was recovered

vars == <<now, run, avail, confirmed, sighted, marked, worker, slow>>

Times == 1 .. MaxTime
Never == 0
Queries == {"current", "sold"}
Labels == {"active", "sold", "unknown"}

NewRun == [query |-> "current", status |-> "absent", started |-> Never]
Nothing == [l \in Listings |-> "none"]
Execution(pc, r) == [pc |-> pc, run |-> r, at |-> Never, shown |-> Nothing,
                     candidates |-> {}, removing |-> {}]
Idle == Execution("idle", NoRun)

RunType == [query : Queries, status : {"absent", "running", "completed", "ended"},
            started : Times \cup {Never}]
WorkerType == [pc : {"idle", "request", "persist", "end", "remove", "stale"},
               run : Runs \cup {NoRun}, at : Times \cup {Never},
               shown : [Listings -> Labels \cup {"none"}],
               candidates : SUBSET Listings, removing : SUBSET Listings]

(* Every variable keeps its type; an execution that works on a run has     *)
(* one, and the row of a listing always has a time of confirmation.        *)
TypeOK ==
  /\ now \in Times
  /\ run \in [Runs -> RunType]
  /\ avail \in [Listings -> Labels \cup {"absent", "stale", "removed"}]
  /\ confirmed \in [Listings -> Times \cup {Never}]
  /\ sighted \in [Runs -> SUBSET Listings]
  /\ marked \in [Listings -> [Runs -> Times \cup {Never}]]
  /\ worker \in [Workers -> WorkerType]
  /\ \A w \in Workers : worker[w].pc # "idle" => worker[w].run \in Runs
  /\ \A l \in Listings : avail[l] = "absent" <=> confirmed[l] = Never
  /\ slow \in BOOLEAN

Init ==
  /\ now = 1
  /\ run = [r \in Runs |-> NewRun]
  /\ avail = [l \in Listings |-> "absent"]
  /\ confirmed = [l \in Listings |-> Never]
  /\ sighted = [r \in Runs |-> {}]
  /\ marked = [l \in Listings |-> [r \in Runs |-> Never]]
  /\ worker = [w \in Workers |-> Idle]
  /\ slow = FALSE

\* Time may pass before a stamp is taken.
Stamp == now' \in {now, now + 1} \cap Times

listingVars == <<avail, confirmed, marked>>

-----------------------------------------------------------------------------
(* Runs, as far as CrawlRun does not end them complete.                    *)

Closing(r) == \E w \in Workers : worker[w].run = r /\ worker[w].pc \in {"remove", "stale"}

\* createCrawlRunForSourceQuery
StartRun(r, q) ==
  /\ run[r].status = "absent"
  /\ \A other \in Runs : run[other].query = q => run[other].status # "running"
  /\ Stamp
  /\ run' = [run EXCEPT ![r] = [query |-> q, status |-> "running", started |-> now']]
  /\ UNCHANGED <<listingVars, sighted, worker, slow>>

\* The listing was sighted by a run of the query before r, and not by r.
Missed(r, l) ==
  /\ confirmed[l] < run[r].started
  /\ \E prior \in Runs \ {r} : run[prior].query = run[r].query /\ l \in sighted[prior]
  /\ l \notin sighted[r]

\* Mutant: every run that ends infers what is missing.
EndAndInfer(r) ==
  /\ run[r].status = "running" /\ ~Closing(r)
  /\ run' = [run EXCEPT ![r].status = "ended"]
  /\ avail' = [l \in Listings |-> IF avail[l] = "active" /\ Missed(r, l) THEN "stale" ELSE avail[l]]
  /\ UNCHANGED <<now, confirmed, marked, sighted, worker, slow>>

\* completeCrawlRun with any other status than completed, by anybody.
EndIncomplete(r) ==
  /\ run[r].status = "running" /\ ~Closing(r)
  /\ run' = [run EXCEPT ![r].status = "ended"]
  /\ UNCHANGED <<now, listingVars, sighted, worker, slow>>

-----------------------------------------------------------------------------
(* A page of a run.  The queue "nettiauto" has one job at a time, unless   *)
(* the lock of a slow one was recovered.                                   *)

TakePage(w, r) ==
  /\ worker[w].pc = "idle"
  /\ \A v \in Workers : worker[v].pc # "idle" => slow
  /\ run[r].status = "running"
  /\ worker' = [worker EXCEPT ![w] = Execution("request", r)]
  /\ UNCHANGED <<now, run, listingVars, sighted, slow>>

RecoverSlowLock ==
  /\ ~slow /\ \E w \in Workers : worker[w].pc # "idle"
  /\ slow' = TRUE
  /\ UNCHANGED <<now, run, listingVars, sighted, worker>>

\* normalizeAvailability: each query knows only its own status label.
LabelsOf(q) == {"unknown", IF q = "current" THEN "active" ELSE "sold"}

\* The response is there and the time of its persistence is taken.
BeginPersist(w) ==
  /\ worker[w].pc = "request"
  /\ Stamp
  /\ \E shown \in [Listings -> LabelsOf(run[worker[w].run].query) \cup {"none"}] :
       worker' = [worker EXCEPT ![w].pc = "persist", ![w].at = now', ![w].shown = shown]
  /\ UNCHANGED <<run, listingVars, sighted, slow>>

Shown(w) == {l \in Listings : worker[w].shown[l] # "none"}

\* Mutant: whichever page commits last decides.
Unordered(w, l) == TRUE

\* The page is at least as recent as what is known about the listing.
Newer(w, l) == avail[l] = "absent" \/ worker[w].at >= confirmed[l]

\* Mutant: only another availability confirms it.
ConfirmedOnChange(w, l) ==
  IF avail[l] # worker[w].shown[l] /\ worker[w].at > confirmed[l]
  THEN worker[w].at ELSE confirmed[l]

\* greatest(availability_last_confirmed_at, fetchedAt)
Confirmed(w, l) == IF worker[w].at > confirmed[l] THEN worker[w].at ELSE confirmed[l]

\* persistListingCard for every card: it waits for the rows of a completion.
PersistPage(w) ==
  /\ worker[w].pc = "persist"
  /\ \A v \in Workers : worker[v].pc = "stale" => worker[v].removing \cap Shown(w) = {}
  /\ ~Closing(worker[w].run)
  /\ avail' = [l \in Listings |-> IF l \in Shown(w) /\ Newer(w, l)
                                   THEN worker[w].shown[l] ELSE avail[l]]
  /\ confirmed' = [l \in Listings |-> IF l \in Shown(w) THEN Confirmed(w, l) ELSE confirmed[l]]
  /\ sighted' = [sighted EXCEPT ![worker[w].run] = @ \cup Shown(w)]
  /\ worker' = [worker EXCEPT ![w] = Execution("end", worker[w].run)]
  /\ UNCHANGED <<now, run, marked, slow>>

\* There is a next page, or the execution fails or dies: a transaction that
\* was open is rolled back.
Leave(w) ==
  /\ worker[w].pc # "idle"
  /\ worker' = [worker EXCEPT ![w] = Idle]
  /\ UNCHANGED <<now, run, listingVars, sighted, slow>>

-----------------------------------------------------------------------------
(* completeCrawlRun with the status completed, and                         *)
(* reconcileMissingCurrentListings.  worker.at is now() of its transaction.*)

\* Another complete run marked it stale after it was last confirmed.
Removable(r) ==
  {l \in Listings :
     /\ avail[l] = "stale" /\ Missed(r, l)
     /\ \E other \in Runs \ {r} :
          /\ marked[l][other] > confirmed[l]
          /\ run[other].query = run[r].query /\ run[other].status = "completed"}

BeginComplete(w) ==
  LET r == worker[w].run
  IN  /\ worker[w].pc = "end"
      /\ run[r].status = "running" /\ ~Closing(r)
      /\ Stamp
      /\ IF run[r].query = "current"
         THEN /\ worker' = [worker EXCEPT ![w].pc = "remove", ![w].at = now',
                                          ![w].candidates = Removable(r)]
              /\ UNCHANGED run
         ELSE /\ run' = [run EXCEPT ![r].status = "completed"]
              /\ worker' = [worker EXCEPT ![w] = Idle]
  /\ UNCHANGED <<listingVars, sighted, slow>>

\* The rows are removed when the transaction commits, and locked until then.
MarkRemoved(w) ==
  /\ worker[w].pc = "remove"
  /\ worker' = [worker EXCEPT ![w].pc = "stale",
                  ![w].removing = {l \in worker[w].candidates : avail[l] = "stale"},
                  ![w].candidates = {l \in Listings : avail[l] = "active"
                                                      /\ Missed(worker[w].run, l)}]
  /\ UNCHANGED <<now, run, listingVars, sighted, slow>>

\* Mutant: the update trusts the candidates.
Trusted(w) == worker[w].candidates

\* The update looks only at the availability again.
Marking(w) == {l \in worker[w].candidates : avail[l] = "active"}

\* Mutant: the marked_stale event is not inserted.
MarkUnrecorded(w) ==
  /\ worker[w].pc = "stale"
  /\ avail' = [l \in Listings |-> IF l \in worker[w].removing THEN "removed"
                                   ELSE IF l \in Marking(w) THEN "stale" ELSE avail[l]]
  /\ run' = [run EXCEPT ![worker[w].run].status = "completed"]
  /\ worker' = [worker EXCEPT ![w] = Idle]
  /\ UNCHANGED <<now, confirmed, marked, sighted, slow>>

MarkStaleAndCommit(w) ==
  /\ worker[w].pc = "stale"
  /\ avail' = [l \in Listings |-> IF l \in worker[w].removing THEN "removed"
                                   ELSE IF l \in Marking(w) THEN "stale" ELSE avail[l]]
  /\ marked' = [l \in Listings |->
       IF l \in Marking(w) THEN [marked[l] EXCEPT ![worker[w].run] = worker[w].at]
       ELSE marked[l]]
  /\ run' = [run EXCEPT ![worker[w].run].status = "completed"]
  /\ worker' = [worker EXCEPT ![w] = Idle]
  /\ UNCHANGED <<now, confirmed, sighted, slow>>

-----------------------------------------------------------------------------
Next ==
  \/ \E r \in Runs : EndIncomplete(r) \/ \E q \in Queries : StartRun(r, q)
  \/ \E w \in Workers :
       \/ \E r \in Runs : TakePage(w, r)
       \/ BeginPersist(w) \/ PersistPage(w) \/ Leave(w)
       \/ BeginComplete(w) \/ MarkRemoved(w) \/ MarkStaleAndCommit(w)
  \/ RecoverSlowLock

Spec == Init /\ [][Next]_vars

-----------------------------------------------------------------------------
(* Properties.                                                             *)

\* The complete runs of the current listings that began after the listing was
\* last confirmed and did not see it.
MissedBy(l) ==
  {r \in Runs : /\ run[r].query = "current" /\ run[r].status = "completed"
                /\ confirmed[l] < run[r].started /\ l \notin sighted[r]}

(* While jobs run one at a time the availability of a listing that was     *)
(* last seen for sale says exactly how many complete runs have missed it   *)
(* since: none when active, one when stale, two or more when removed.  The *)
(* code keeps no such count: it follows from reconcileMissingCurrent-      *)
(* Listings, the sightings, the events and the order of their times.       *)
EvidenceDecides ==
  ~slow => \A l \in Listings :
    /\ avail[l] = "active" => MissedBy(l) = {}
    /\ avail[l] = "stale" => \E r \in Runs : MissedBy(l) = {r}
    /\ avail[l] = "removed" => \E r, other \in MissedBy(l) : r # other

(* What a run has sighted was confirmed after the run began, however late  *)
(* and out of order its pages are persisted: a listing that is older than  *)
(* the run was not sighted by it (the two conditions of reconcileMissing-  *)
(* CurrentListings say the same as long as there is one clock).            *)
SightingsConfirm ==
  \A r \in Runs : \A l \in sighted[r] : confirmed[l] >= run[r].started

(* A listing becomes stale or removed only in the step that completes a    *)
(* run of the current listings, and removed only if another complete run   *)
(* has marked it before (docs/adr/0005: partial crawls infer nothing).     *)
OnlyCompleteRunsInfer ==
  [][\A l \in Listings : avail'[l] # avail[l] /\ avail'[l] \in {"stale", "removed"} =>
       \E r \in Runs :
         /\ run[r].query = "current"
         /\ run[r].status = "running" /\ run'[r].status = "completed"
         /\ avail'[l] = "removed" =>
              \E other \in Runs \ {r} : run[other].status = "completed"
                                        /\ marked[l][other] > confirmed[l]]_vars

(* Sold is confirmed by the source: what a run of the current listings has *)
(* missed never takes it back, also when the sold page is persisted while  *)
(* that run is being completed (reconcileMissingCurrentListings).          *)
SoldStands ==
  [][\A l \in Listings : avail[l] = "sold" => avail'[l] \in Labels]_vars

(* Pages that are persisted out of order, after the lock of a slow one was *)
(* recovered, leave the availability that was observed last: one that was  *)
(* taken earlier changes nothing (the conflict clause of persistListing-   *)
(* Card).                                                                  *)
LatestObservationWins ==
  [][\A w \in Workers, l \in Listings :
       worker[w].pc = "persist" /\ worker'[w].pc = "end" /\ l \in Shown(w) =>
         /\ confirmed'[l] >= confirmed[l] /\ confirmed'[l] >= worker[w].at
         /\ worker[w].at < confirmed[l] => avail'[l] = avail[l]
         /\ worker[w].at > confirmed[l] => avail'[l] = worker[w].shown[l]]_vars

=============================================================================
