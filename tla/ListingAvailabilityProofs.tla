--------------------- MODULE ListingAvailabilityProofs ---------------------
(***************************************************************************)
(* Theorems about ListingAvailability, for any number of runs, listings    *)
(* and workers.  The invariant has four parts: types, the order of the     *)
(* stamps, the transaction that completes a run, and, while jobs run one   *)
(* at a time, the evidence behind every availability.                      *)
(***************************************************************************)
EXTENDS ListingAvailability, TLAPS

RunsTyped == now \in Times /\ run \in [Runs -> RunType]

ListingsTyped ==
  /\ avail \in [Listings -> Labels \cup {"absent", "stale", "removed"}]
  /\ confirmed \in [Listings -> Times \cup {Never}]
  /\ sighted \in [Runs -> SUBSET Listings]
  /\ marked \in [Listings -> [Runs -> Times \cup {Never}]]
  /\ \A l \in Listings : avail[l] = "absent" <=> confirmed[l] = Never

WorkersTyped ==
  /\ worker \in [Workers -> WorkerType]
  /\ \A w \in Workers : worker[w].pc # "idle" => worker[w].run \in Runs
  /\ \A w \in Workers : worker[w].pc \in {"persist", "remove", "stale"} => worker[w].at \in Times

\* What is removed has a row.
RemovalsKnown ==
  \A w \in Workers : worker[w].pc = "stale" =>
    \A l \in worker[w].removing : confirmed[l] # Never

TypeInv ==
  RunsTyped /\ ListingsTyped /\ WorkersTyped /\ RemovalsKnown /\ slow \in BOOLEAN

(* What has been stamped is not later than the clock, a run that has not   *)
(* begun has no sightings, and a page is stamped after its run began.      *)
RunsOrdered ==
  \A r \in Runs : run[r].started <= now /\ (run[r].status = "absent" => sighted[r] = {})

ListingsOrdered == \A l \in Listings : confirmed[l] <= now

WorkersOrdered ==
  \A w \in Workers : worker[w].pc # "idle" =>
    LET r == worker[w].run
    IN  /\ run[r].status # "absent"
        /\ worker[w].pc \in {"persist", "remove", "stale"} =>
             run[r].started <= worker[w].at /\ worker[w].at <= now

OrderInv == RunsOrdered /\ ListingsOrdered /\ WorkersOrdered /\ SightingsConfirm

-----------------------------------------------------------------------------
(* At most one transaction completes a run of the current listings, and    *)
(* what it removes was marked stale by another complete run.               *)

OneRunning ==
  \A r, other \in Runs :
    run[r].status = "running" /\ run[other].status = "running"
    /\ run[r].query = run[other].query => r = other

Closes(w) == worker[w].pc \in {"remove", "stale"}

OneClosing ==
  /\ \A w \in Workers : Closes(w) =>
       run[worker[w].run].query = "current" /\ run[worker[w].run].status = "running"
  /\ \A v, w \in Workers : Closes(v) /\ Closes(w) => v = w

MarkedBefore(r, l) ==
  \E other \in Runs \ {r} : run[other].status = "completed" /\ marked[l][other] > confirmed[l]

RemovalsMarked ==
  \A w \in Workers :
    /\ worker[w].pc = "remove" =>
         \A l \in worker[w].candidates : avail[l] = "stale" => MarkedBefore(worker[w].run, l)
    /\ worker[w].pc = "stale" =>
         \A l \in worker[w].removing : avail[l] = "stale" /\ MarkedBefore(worker[w].run, l)

ClosingInv == OneRunning /\ OneClosing /\ RemovalsMarked

-----------------------------------------------------------------------------
(* While jobs run one at a time.                                           *)

OneBusy == \A v, w \in Workers : worker[v].pc # "idle" /\ worker[w].pc # "idle" => v = w

\* The label "active" and what follows from it comes from pages of the current listings.
CurrentSighted ==
  /\ \A l \in Listings : avail[l] \in {"active", "stale", "removed"} =>
       \E r \in Runs : run[r].query = "current" /\ run[r].status # "absent" /\ l \in sighted[r]
  /\ \A w \in Workers, l \in Listings :
       worker[w].pc = "persist" /\ worker[w].shown[l] = "active" =>
         run[worker[w].run].query = "current"

\* A page is persisted before anything else is confirmed or completed.
PageIsLatest ==
  \A w \in Workers : worker[w].pc = "persist" =>
    /\ \A l \in Listings : confirmed[l] <= worker[w].at
    /\ \A r \in Runs : run[r].status = "completed" => run[r].started <= worker[w].at

Staling(r) == {l \in Listings : avail[l] = "active" /\ Missed(r, l)}

\* Nothing changes what the completion of a run has read.
CandidatesCurrent ==
  \A w \in Workers :
    /\ worker[w].pc = "remove" => worker[w].candidates = Removable(worker[w].run)
    /\ worker[w].pc = "stale" => /\ worker[w].removing = Removable(worker[w].run)
                                 /\ worker[w].candidates = Staling(worker[w].run)

\* EvidenceDecides, and the mark of the run that missed the listing is valid.
Evidence ==
  \A l \in Listings :
    /\ avail[l] = "active" => MissedBy(l) = {}
    /\ avail[l] = "stale" => \E r \in Runs : MissedBy(l) = {r} /\ marked[l][r] > confirmed[l]
    /\ avail[l] = "removed" => \E r, other \in MissedBy(l) : r # other

SerialInv ==
  ~slow => OneBusy /\ CurrentSighted /\ PageIsLatest /\ CandidatesCurrent /\ Evidence

-----------------------------------------------------------------------------
(* Types.                                                                  *)

\* The stamp of a step is a time.
LEMMA StampTyped == ASSUME Stamp PROVE now' \in Times /\ (now \in Times => now' >= now)
  BY DEF Stamp, Times

\* A worker may be replaced by a typed one.
LEMMA WorkerTyped ==
  ASSUME WorkersTyped, NEW w \in Workers, NEW new \in WorkerType,
         new.pc # "idle" => new.run \in Runs,
         new.pc \in {"persist", "remove", "stale"} => new.at \in Times,
         worker' = [worker EXCEPT ![w] = new]
  PROVE  WorkersTyped'
  BY DEF WorkersTyped

\* An execution begins, goes on or ends without a stamp.
LEMMA ExecutionTyped ==
  ASSUME WorkersTyped, NEW w \in Workers, NEW pc \in {"idle", "request", "end"},
         NEW r \in Runs \cup {NoRun}, pc # "idle" => r \in Runs,
         worker' = [worker EXCEPT ![w] = Execution(pc, r)]
  PROVE  WorkersTyped'
<1> DEFINE new == Execution(pc, r)
<1>1. new \in WorkerType
  BY DEF Execution, WorkerType, Nothing
<1>2. new.pc = pc /\ new.run = r
  BY DEF Execution
<1>3. worker' = [worker EXCEPT ![w] = new]
  OBVIOUS
<1> HIDE DEF new
<1> QED
  BY <1>1, <1>2, <1>3, WorkerTyped

\* Every action keeps the runs typed.
LEMMA RunsTypedStep == ASSUME TypeInv, Next PROVE RunsTyped'
<1> USE DEF TypeInv, RunsTyped
<1>1. ASSUME NEW r \in Runs, NEW q \in Queries, StartRun(r, q) PROVE RunsTyped'
  <2>1. [query |-> q, status |-> "running", started |-> now'] \in RunType
    BY <1>1, StampTyped DEF StartRun, RunType
  <2> QED
    BY <1>1, <2>1, StampTyped DEF StartRun
<1>2. ASSUME NEW r \in Runs, EndIncomplete(r) PROVE RunsTyped'
  BY <1>2 DEF EndIncomplete, RunType
<1>3. ASSUME NEW w \in Workers, BeginComplete(w) PROVE RunsTyped'
  BY <1>3, StampTyped DEF BeginComplete, RunType
<1>4. ASSUME NEW w \in Workers, BeginPersist(w) PROVE RunsTyped'
  BY <1>4, StampTyped DEF BeginPersist
<1>5. ASSUME NEW w \in Workers, MarkStaleAndCommit(w) PROVE RunsTyped'
  BY <1>5 DEF MarkStaleAndCommit, RunType
<1> QED
  BY <1>1, <1>2, <1>3, <1>4, <1>5
     DEF Next, TakePage, PersistPage, Leave, MarkRemoved, RecoverSlowLock

\* A page that is persisted keeps the listings typed.
LEMMA PersistTyped ==
  ASSUME TypeInv, NEW w \in Workers, PersistPage(w)
  PROVE  ListingsTyped'
<1> USE DEF TypeInv, ListingsTyped
<1>1. worker[w].at \in Times /\ worker[w].run \in Runs
  BY DEF WorkersTyped, PersistPage
<1>2. \A l \in Listings : l \in Shown(w) => worker[w].shown[l] \in Labels
  BY DEF WorkersTyped, WorkerType, Shown
<1>3. \A l \in Listings : Confirmed(w, l) \in Times \cup {Never}
  BY <1>1 DEF Confirmed
<1>4. \A l \in Listings : Confirmed(w, l) # Never
  BY <1>1 DEF Confirmed, Times, Never
<1>5. avail' \in [Listings -> Labels \cup {"absent", "stale", "removed"}]
  BY <1>2 DEF PersistPage
<1>6. confirmed' \in [Listings -> Times \cup {Never}]
  BY <1>3 DEF PersistPage
<1>7. sighted' \in [Runs -> SUBSET Listings]
  BY <1>1 DEF PersistPage, Shown
<1>8. ASSUME NEW l \in Listings PROVE avail'[l] = "absent" <=> confirmed'[l] = Never
  <2>1. CASE l \in Shown(w)
    <3>1. avail'[l] = IF Newer(w, l) THEN worker[w].shown[l] ELSE avail[l]
      BY <2>1 DEF PersistPage
    <3>2. avail'[l] # "absent"
      BY <2>1, <3>1, <1>2 DEF Newer, Labels
    <3> QED
      BY <2>1, <3>2, <1>4 DEF PersistPage
  <2>2. CASE l \notin Shown(w)
    BY <2>2 DEF PersistPage
  <2> QED
    BY <2>1, <2>2
<1> QED
  BY <1>5, <1>6, <1>7, <1>8 DEF PersistPage

\* The completion of a run keeps the listings typed.
LEMMA CommitTyped ==
  ASSUME TypeInv, NEW w \in Workers, MarkStaleAndCommit(w)
  PROVE  ListingsTyped'
<1> USE DEF TypeInv, ListingsTyped
<1>1. worker[w].at \in Times /\ worker[w].run \in Runs
  BY DEF WorkersTyped, MarkStaleAndCommit
<1>2. avail' \in [Listings -> Labels \cup {"absent", "stale", "removed"}]
  BY DEF MarkStaleAndCommit
<1>3. marked' \in [Listings -> [Runs -> Times \cup {Never}]]
  BY <1>1 DEF MarkStaleAndCommit
<1>4. ASSUME NEW l \in Listings PROVE avail'[l] = "absent" <=> confirmed'[l] = Never
  <2>1. l \in worker[w].removing => confirmed[l] # Never
    BY DEF MarkStaleAndCommit, RemovalsKnown
  <2>2. l \in Marking(w) => avail[l] = "active"
    BY DEF Marking
  <2> QED
    BY <2>1, <2>2 DEF MarkStaleAndCommit
<1> QED
  BY <1>2, <1>3, <1>4 DEF MarkStaleAndCommit

\* Every action keeps the listings typed.
LEMMA ListingsTypedStep == ASSUME TypeInv, Next PROVE ListingsTyped'
<1>1. ASSUME UNCHANGED <<listingVars, sighted>> PROVE ListingsTyped'
  BY <1>1 DEF TypeInv, ListingsTyped, listingVars
<1> QED
  BY <1>1, PersistTyped, CommitTyped
     DEF Next, StartRun, EndIncomplete, TakePage, BeginPersist, Leave, BeginComplete,
         MarkRemoved, RecoverSlowLock, listingVars

\* Every action keeps the executions typed.
LEMMA WorkersTypedStep == ASSUME TypeInv, Next PROVE WorkersTyped'
<1> USE DEF TypeInv
<1>1. ASSUME UNCHANGED worker PROVE WorkersTyped'
  BY <1>1 DEF WorkersTyped
<1>2. ASSUME NEW w \in Workers, NEW r \in Runs, TakePage(w, r) PROVE WorkersTyped'
  BY <1>2, ExecutionTyped DEF TakePage
<1>3. ASSUME NEW w \in Workers, BeginPersist(w) PROVE WorkersTyped'
  <2>1. PICK shown \in [Listings -> LabelsOf(run[worker[w].run].query) \cup {"none"}] :
          worker' = [worker EXCEPT ![w].pc = "persist", ![w].at = now', ![w].shown = shown]
    BY <1>3 DEF BeginPersist
  <2> DEFINE new == [worker[w] EXCEPT !.pc = "persist", !.at = now', !.shown = shown]
  <2>2. worker[w] \in WorkerType /\ worker[w].run \in Runs
    BY <1>3 DEF WorkersTyped, BeginPersist
  <2>3. now' \in Times
    BY <1>3, StampTyped DEF BeginPersist
  <2>4. shown \in [Listings -> Labels \cup {"none"}]
    BY DEF LabelsOf, Labels
  <2>5. new \in WorkerType
    BY ONLY <2>2, <2>3, <2>4 DEF WorkerType
  <2>6. new.pc = "persist" /\ new.run = worker[w].run /\ new.at = now'
    BY <2>2 DEF WorkerType
  <2>7. worker' = [worker EXCEPT ![w] = new]
    BY <2>1
  <2> HIDE DEF new
  <2> QED
    BY <2>2, <2>3, <2>5, <2>6, <2>7, WorkerTyped
<1>4. ASSUME NEW w \in Workers, PersistPage(w) PROVE WorkersTyped'
  <2>1. worker[w].run \in Runs
    BY <1>4 DEF WorkersTyped, PersistPage
  <2> QED
    BY <1>4, <2>1, ExecutionTyped DEF PersistPage
<1>5. ASSUME NEW w \in Workers, worker' = [worker EXCEPT ![w] = Idle] PROVE WorkersTyped'
  BY <1>5, ExecutionTyped DEF Idle
<1>6. ASSUME NEW w \in Workers, BeginComplete(w), ~(worker' = [worker EXCEPT ![w] = Idle])
      PROVE  WorkersTyped'
  <2> DEFINE found == Removable(worker[w].run)
             new == [worker[w] EXCEPT !.pc = "remove", !.at = now', !.candidates = found]
  <2>1. worker[w] \in WorkerType /\ worker[w].run \in Runs
    BY <1>6 DEF WorkersTyped, BeginComplete
  <2>2. now' \in Times
    BY <1>6, StampTyped DEF BeginComplete
  <2>3. found \in SUBSET Listings
    BY DEF Removable
  <2>4. worker' = [worker EXCEPT ![w] = new]
    BY <1>6 DEF BeginComplete
  <2> HIDE DEF found
  <2>5. new \in WorkerType
    BY ONLY <2>1, <2>2, <2>3 DEF WorkerType
  <2>6. new.pc = "remove" /\ new.run = worker[w].run /\ new.at = now'
    BY <2>1 DEF WorkerType
  <2> HIDE DEF new
  <2> QED
    BY <2>1, <2>2, <2>4, <2>5, <2>6, WorkerTyped
<1>7. ASSUME NEW w \in Workers, MarkRemoved(w) PROVE WorkersTyped'
  <2> DEFINE gone == {l \in worker[w].candidates : avail[l] = "stale"}
             found == {l \in Listings : avail[l] = "active" /\ Missed(worker[w].run, l)}
             new == [worker[w] EXCEPT !.pc = "stale", !.removing = gone, !.candidates = found]
  <2>1. worker[w] \in WorkerType /\ worker[w].run \in Runs /\ worker[w].at \in Times
    BY <1>7 DEF WorkersTyped, MarkRemoved
  <2>2. gone \in SUBSET Listings /\ found \in SUBSET Listings
    BY <2>1 DEF WorkerType
  <2>3. worker' = [worker EXCEPT ![w] = new]
    BY <1>7 DEF MarkRemoved
  <2> HIDE DEF gone, found
  <2>4. new \in WorkerType
    BY ONLY <2>1, <2>2 DEF WorkerType
  <2>5. new.pc = "stale" /\ new.run = worker[w].run /\ new.at = worker[w].at
    BY <2>1 DEF WorkerType
  <2> HIDE DEF new
  <2> QED
    BY <2>1, <2>3, <2>4, <2>5, WorkerTyped
<1> QED
  BY <1>1, <1>2, <1>3, <1>4, <1>5, <1>6, <1>7
     DEF Next, StartRun, EndIncomplete, Leave, MarkStaleAndCommit, RecoverSlowLock

\* Every action keeps a row for what is removed.
LEMMA RemovalsKnownStep == ASSUME TypeInv, Next PROVE RemovalsKnown'
<1> USE DEF TypeInv, ListingsTyped, RemovalsKnown
<1>1. ASSUME UNCHANGED <<listingVars, worker>> PROVE RemovalsKnown'
  BY <1>1 DEF listingVars
<1>3. ASSUME NEW w \in Workers, NEW r \in Runs, TakePage(w, r) PROVE RemovalsKnown'
  BY <1>3 DEF TakePage, Execution, listingVars, WorkersTyped
<1>4. ASSUME NEW w \in Workers, PersistPage(w) PROVE RemovalsKnown'
  <2>1. \A l \in Listings : confirmed[l] # Never => confirmed'[l] # Never
    BY <1>4 DEF PersistPage, Confirmed, WorkersTyped, Times, Never
  <2>2. \A v \in Workers : worker[v].pc = "stale" => worker[v].removing \subseteq Listings
    BY DEF WorkersTyped, WorkerType
  <2> QED
    BY <1>4, <2>1, <2>2 DEF PersistPage, Execution, WorkersTyped
<1>5. ASSUME NEW w \in Workers, MarkRemoved(w) PROVE RemovalsKnown'
  <2>1. worker'[w].removing = {l \in worker[w].candidates : avail[l] = "stale"}
    BY <1>5 DEF MarkRemoved, WorkersTyped, WorkerType
  <2>2. worker[w].candidates \subseteq Listings
    BY DEF WorkersTyped, WorkerType
  <2>3. \A v \in Workers \ {w} : worker'[v] = worker[v]
    BY <1>5 DEF MarkRemoved, WorkersTyped
  <2> QED
    BY <1>5, <2>1, <2>2, <2>3 DEF MarkRemoved, listingVars
<1>6. ASSUME NEW w \in Workers, BeginPersist(w) \/ Leave(w) \/ BeginComplete(w)
                                 \/ MarkStaleAndCommit(w)
      PROVE  RemovalsKnown'
  <2>1. worker'[w].pc # "stale" /\ \A v \in Workers \ {w} : worker'[v] = worker[v]
    BY <1>6 DEF BeginPersist, Leave, BeginComplete, MarkStaleAndCommit, Idle, Execution,
                WorkersTyped, WorkerType
  <2> QED
    BY <1>6, <2>1 DEF BeginPersist, Leave, BeginComplete, MarkStaleAndCommit, listingVars
<1> QED
  BY <1>1, <1>3, <1>4, <1>5, <1>6 DEF Next, StartRun, EndIncomplete, RecoverSlowLock

\* The types are an inductive invariant.
LEMMA TypeInit == Init => TypeInv
<1> SUFFICES ASSUME Init PROVE TypeInv
  OBVIOUS
<1>1. 1 \in Times
  BY AvailabilityConstants DEF Times
<1>6. slow \in BOOLEAN
  BY DEF Init
<1>2. run \in [Runs -> RunType]
  BY DEF Init, NewRun, RunType, Queries
<1>3. Idle \in WorkerType /\ Idle.pc = "idle"
  BY DEF Idle, Execution, WorkerType, Nothing
<1>4. WorkersTyped /\ RemovalsKnown
  BY <1>3 DEF Init, WorkersTyped, RemovalsKnown
<1>5. ListingsTyped
  BY DEF Init, ListingsTyped
<1> QED
  BY <1>1, <1>2, <1>4, <1>5, <1>6 DEF Init, TypeInv, RunsTyped

\* Every step, a stutter included, keeps the types.
LEMMA TypeStep == TypeInv /\ [Next]_vars => TypeInv'
<1>1. ASSUME TypeInv, Next PROVE TypeInv'
  <2>1. slow' \in BOOLEAN
    BY <1>1 DEF TypeInv, Next, StartRun, EndIncomplete, TakePage, BeginPersist, PersistPage,
                Leave, BeginComplete, MarkRemoved, MarkStaleAndCommit, RecoverSlowLock
  <2> QED
    BY <1>1, <2>1, RunsTypedStep, ListingsTypedStep, WorkersTypedStep, RemovalsKnownStep
       DEF TypeInv
<1>2. ASSUME TypeInv, UNCHANGED vars PROVE TypeInv'
  BY <1>2 DEF TypeInv, vars, RunsTyped, ListingsTyped, WorkersTyped, RemovalsKnown
<1> QED
  BY <1>1, <1>2

\* The named parts give the type invariant of the specification.
LEMMA TypeInvGivesTypeOK == TypeInv => TypeOK
  BY DEF TypeInv, TypeOK, RunsTyped, ListingsTyped, WorkersTyped

(* Every variable keeps its type, an execution that works on a run has     *)
(* one, and the row of a listing always has a time of confirmation.        *)
THEOREM AvailabilityTypeCorrect == Spec => []TypeOK
  BY TypeInit, TypeStep, TypeInvGivesTypeOK, PTL DEF Spec

-----------------------------------------------------------------------------
(* The order of the stamps.                                                *)

\* Time does not go back.
LEMMA ClockStep == ASSUME TypeInv, Next PROVE now' \in Nat /\ now \in Nat /\ now' >= now
<1>1. now \in Nat /\ now \in Times
  BY DEF TypeInv, RunsTyped, Times
<1>2. Stamp \/ now' = now
  BY DEF Next, StartRun, EndIncomplete, TakePage, BeginPersist, PersistPage, Leave,
         BeginComplete, MarkRemoved, MarkStaleAndCommit, RecoverSlowLock
<1> QED
  BY <1>1, <1>2, StampTyped DEF Times

\* A run that has begun keeps its query and its start, and only its start
\* takes it out of "absent".
LEMMA RunsKept ==
  ASSUME TypeInv, OneClosing, Next, NEW r \in Runs
  PROVE  \/ /\ run'[r].query = run[r].query /\ run'[r].started = run[r].started
            /\ run'[r].status = "absent" <=> run[r].status = "absent"
         \/ /\ run[r].status = "absent" /\ run'[r].status = "running"
            /\ run'[r].started = now'
<1> USE DEF TypeInv, RunsTyped, RunType
<1>1. CASE run' = run
  BY <1>1
<1>2. ASSUME NEW x \in Runs, NEW q \in Queries, StartRun(x, q)
      PROVE  run'[r] = run[r] \/ (x = r /\ run[r].status = "absent"
                                /\ run'[r].status = "running" /\ run'[r].started = now')
  BY <1>2 DEF StartRun
<1>3. ASSUME NEW x \in Runs, NEW status \in {"ended", "completed"}, run[x].status = "running",
             run' = [run EXCEPT ![x].status = status]
      PROVE  /\ run'[r].query = run[r].query /\ run'[r].started = run[r].started
             /\ run'[r].status = "absent" <=> run[r].status = "absent"
  BY <1>3
<1>4. ASSUME NEW w \in Workers, BeginComplete(w), run' # run
      PROVE  /\ worker[w].run \in Runs /\ run[worker[w].run].status = "running"
             /\ run' = [run EXCEPT ![worker[w].run].status = "completed"]
  BY <1>4 DEF BeginComplete, WorkersTyped
<1>5. ASSUME NEW w \in Workers, MarkStaleAndCommit(w)
      PROVE  /\ worker[w].run \in Runs /\ run[worker[w].run].status = "running"
             /\ run' = [run EXCEPT ![worker[w].run].status = "completed"]
  BY <1>5 DEF MarkStaleAndCommit, WorkersTyped, OneClosing, Closes
<1> QED
  BY <1>1, <1>2, <1>3, <1>4, <1>5
     DEF Next, EndIncomplete, TakePage, BeginPersist, PersistPage, Leave, MarkRemoved,
         RecoverSlowLock

\* What is confirmed stays confirmed, at a later time if at another one.
LEMMA ConfirmationsKept ==
  ASSUME TypeInv, Next, NEW l \in Listings
  PROVE  /\ confirmed[l] \in Nat /\ confirmed'[l] \in Nat
         /\ \/ confirmed'[l] = confirmed[l]
            \/ \E w \in Workers : /\ PersistPage(w) /\ l \in Shown(w)
                                  /\ confirmed'[l] = worker[w].at /\ confirmed'[l] > confirmed[l]
<1>1. confirmed[l] \in Nat
  BY DEF TypeInv, ListingsTyped, Times, Never
<1>2. ASSUME NEW w \in Workers, PersistPage(w)
      PROVE  \/ confirmed'[l] = confirmed[l]
             \/ /\ l \in Shown(w)
                /\ confirmed'[l] = worker[w].at /\ confirmed'[l] > confirmed[l]
  BY <1>2 DEF PersistPage, Confirmed
<1>3. ASSUME NEW w \in Workers, PersistPage(w) PROVE worker[w].at \in Nat
  BY <1>3 DEF PersistPage, TypeInv, WorkersTyped, Times
<1>4. (\E w \in Workers : PersistPage(w)) \/ confirmed' = confirmed
  BY DEF Next, StartRun, EndIncomplete, TakePage, BeginPersist, Leave, BeginComplete,
         MarkRemoved, MarkStaleAndCommit, RecoverSlowLock, listingVars
<1> QED
  BY <1>1, <1>2, <1>3, <1>4

\* An execution goes on with the run it has, and keeps its stamp.
LEMMA ExecutionsKept ==
  ASSUME TypeInv, Next, NEW w \in Workers, worker'[w].pc # "idle"
  PROVE  \/ worker'[w] = worker[w]
         \/ /\ worker'[w].pc = "request"
            /\ \E r \in Runs : TakePage(w, r) /\ worker'[w].run = r
         \/ BeginPersist(w) /\ worker'[w].pc = "persist" /\ worker'[w].run = worker[w].run
            /\ worker'[w].at = now'
         \/ PersistPage(w) /\ worker'[w].pc = "end" /\ worker'[w].run = worker[w].run
         \/ BeginComplete(w) /\ worker'[w].pc = "remove" /\ worker'[w].run = worker[w].run
            /\ worker'[w].at = now'
         \/ MarkRemoved(w) /\ worker'[w].pc = "stale" /\ worker'[w].run = worker[w].run
            /\ worker'[w].at = worker[w].at
<1> USE DEF TypeInv, WorkersTyped
<1>1. ASSUME NEW v \in Workers, NEW r \in Runs, TakePage(v, r)
      PROVE  worker'[w] = worker[w] \/ (v = w /\ worker'[w].pc = "request" /\ worker'[w].run = r)
  BY <1>1 DEF TakePage, Execution
<1>2. ASSUME NEW v \in Workers, BeginPersist(v)
      PROVE  \/ worker'[w] = worker[w]
             \/ /\ v = w /\ worker'[w].pc = "persist"
                /\ worker'[w].run = worker[w].run /\ worker'[w].at = now'
  BY <1>2 DEF BeginPersist, WorkerType
<1>3. ASSUME NEW v \in Workers, PersistPage(v)
      PROVE  \/ worker'[w] = worker[w]
             \/ v = w /\ worker'[w].pc = "end" /\ worker'[w].run = worker[w].run
  BY <1>3 DEF PersistPage, Execution
<1>4. ASSUME NEW v \in Workers, Leave(v) \/ MarkStaleAndCommit(v)
      PROVE  worker'[w] = worker[w]
  BY <1>4 DEF Leave, MarkStaleAndCommit, Idle, Execution
<1>5. ASSUME NEW v \in Workers, BeginComplete(v)
      PROVE  \/ worker'[w] = worker[w]
             \/ /\ v = w /\ worker'[w].pc = "remove"
                /\ worker'[w].run = worker[w].run /\ worker'[w].at = now'
  BY <1>5 DEF BeginComplete, WorkerType, Idle, Execution
<1>6. ASSUME NEW v \in Workers, MarkRemoved(v)
      PROVE  \/ worker'[w] = worker[w]
             \/ /\ v = w /\ worker'[w].pc = "stale"
                /\ worker'[w].run = worker[w].run /\ worker'[w].at = worker[w].at
  BY <1>6 DEF MarkRemoved, WorkerType
<1> QED
  BY <1>1, <1>2, <1>3, <1>4, <1>5, <1>6 DEF Next, StartRun, EndIncomplete, RecoverSlowLock

\* Sightings are added by the pages of a run only.
LEMMA SightingsKept ==
  ASSUME TypeInv, Next, NEW r \in Runs, NEW l \in sighted'[r], l \notin sighted[r]
  PROVE  \E w \in Workers : PersistPage(w) /\ worker[w].run = r /\ l \in Shown(w)
<1>1. ASSUME NEW w \in Workers, PersistPage(w) PROVE worker[w].run = r /\ l \in Shown(w)
  BY <1>1 DEF PersistPage, TypeInv, ListingsTyped
<1>2. (\E w \in Workers : PersistPage(w)) \/ sighted' = sighted
  BY DEF Next, StartRun, EndIncomplete, TakePage, BeginPersist, Leave, BeginComplete,
         MarkRemoved, MarkStaleAndCommit, RecoverSlowLock
<1> QED
  BY <1>1, <1>2

-----------------------------------------------------------------------------
(* The transaction that completes a run.                                   *)

\* Initially nobody completes a run.
LEMMA ClosingInit == Init => ClosingInv
  BY DEF Init, ClosingInv, OneRunning, OneClosing, RemovalsMarked, Closes, Idle, Execution, NewRun

\* A query never has two running runs.
LEMMA OneRunningStep == ASSUME TypeInv, OneRunning, OneClosing, Next PROVE OneRunning'
<1> USE DEF TypeInv, RunsTyped, RunType
<1>1. ASSUME NEW r \in Runs, NEW q \in Queries, StartRun(r, q) PROVE OneRunning'
  BY <1>1 DEF StartRun, OneRunning
<1>2. ASSUME \A r \in Runs : run'[r].query = run[r].query
                             /\ (run'[r].status = "running" => run[r].status = "running")
      PROVE  OneRunning'
  BY <1>2 DEF OneRunning
<1>3. ASSUME NEW r \in Runs, NEW status \in {"ended", "completed"},
             run' = [run EXCEPT ![r].status = status]
      PROVE  OneRunning'
  BY <1>2, <1>3
<1>4. ASSUME UNCHANGED run PROVE OneRunning'
  BY <1>4 DEF OneRunning
<1>5. ASSUME NEW w \in Workers, BeginComplete(w), run' # run
      PROVE  worker[w].run \in Runs /\ run' = [run EXCEPT ![worker[w].run].status = "completed"]
  BY <1>5 DEF BeginComplete, WorkersTyped
<1>6. ASSUME NEW w \in Workers, MarkStaleAndCommit(w)
      PROVE  worker[w].run \in Runs /\ run' = [run EXCEPT ![worker[w].run].status = "completed"]
  BY <1>6 DEF MarkStaleAndCommit, WorkersTyped
<1> QED
  BY <1>1, <1>3, <1>4, <1>5, <1>6
     DEF Next, EndIncomplete, TakePage, BeginPersist, PersistPage, Leave, MarkRemoved,
         RecoverSlowLock

\* A run that is being completed goes on running until its transaction commits.
LEMMA ClosedRunKept ==
  ASSUME TypeInv, OneClosing, Next, NEW w \in Workers, Closes(w), Closes(w)'
  PROVE  /\ worker[w].run \in Runs /\ worker'[w].run = worker[w].run
         /\ run'[worker[w].run] = run[worker[w].run]
<1> DEFINE r == worker[w].run
<1>1. r \in Runs /\ run[r].query = "current" /\ run[r].status = "running"
  BY DEF TypeInv, WorkersTyped, Closes, OneClosing
<1>0. worker[w].pc \in {"remove", "stale"} /\ worker'[w].pc \in {"remove", "stale"}
  BY DEF Closes
<1>2. worker'[w].run = r
  <2>1. \/ worker'[w] = worker[w]
        \/ BeginComplete(w)
        \/ MarkRemoved(w) /\ worker'[w].run = worker[w].run
    BY <1>0, ExecutionsKept
  <2> QED
    BY <2>1, <1>0 DEF BeginComplete
<1>3. ASSUME NEW v \in Workers, MarkStaleAndCommit(v) PROVE FALSE
  <2>1. v = w
    BY <1>3 DEF MarkStaleAndCommit, OneClosing, Closes
  <2> QED
    BY <1>3, <2>1 DEF MarkStaleAndCommit, Closes, Idle, Execution, TypeInv, WorkersTyped
<1>4. ASSUME NEW v \in Workers, BeginComplete(v) PROVE run'[r] = run[r]
  BY <1>1, <1>4 DEF BeginComplete, TypeInv, RunsTyped
<1>5. ASSUME NEW x \in Runs, EndIncomplete(x) PROVE run'[r] = run[r]
  BY <1>1, <1>5 DEF EndIncomplete, Closing, Closes, TypeInv, RunsTyped
<1>6. ASSUME NEW x \in Runs, NEW q \in Queries, StartRun(x, q) PROVE run'[r] = run[r]
  BY <1>1, <1>6 DEF StartRun, TypeInv, RunsTyped
<1> QED
  BY <1>1, <1>2, <1>3, <1>4, <1>5, <1>6
     DEF Next, TakePage, BeginPersist, PersistPage, Leave, MarkRemoved, RecoverSlowLock

\* Whoever completes a run after a step did so before, or begins to.
LEMMA ClosersKept ==
  ASSUME TypeInv, Next, NEW w \in Workers, Closes(w)'
  PROVE  \/ Closes(w)
         \/ /\ BeginComplete(w) /\ worker'[w].run = worker[w].run
            /\ run[worker[w].run].query = "current" /\ run' = run
<1>1. CASE BeginComplete(w)
  BY <1>1 DEF BeginComplete, Closes, Idle, Execution, TypeInv, WorkersTyped, WorkerType
<1>2. worker'[w].pc \in {"remove", "stale"}
  BY DEF Closes
<1>3. worker'[w] = worker[w] \/ BeginComplete(w) \/ MarkRemoved(w)
  BY <1>2, ExecutionsKept
<1> QED
  BY <1>1, <1>2, <1>3 DEF Closes, MarkRemoved

\* At most one transaction completes a run of the current listings.
LEMMA OneClosingStep == ASSUME TypeInv, OneRunning, OneClosing, Next PROVE OneClosing'
<1>1. ASSUME NEW w \in Workers, Closes(w)'
      PROVE  run'[worker'[w].run].query = "current" /\ run'[worker'[w].run].status = "running"
  <2>1. CASE Closes(w)
    BY <1>1, <2>1, ClosedRunKept DEF OneClosing
  <2>2. CASE ~Closes(w)
    BY <1>1, <2>2, ClosersKept DEF BeginComplete
  <2> QED
    BY <2>1, <2>2
<1>2. ASSUME NEW w \in Workers, NEW v \in Workers, BeginComplete(w), Closes(w)', Closes(v)'
      PROVE  v = w
  <2>1. SUFFICES ASSUME v # w PROVE FALSE
    OBVIOUS
  <2>2. worker'[v] = worker[v]
    BY <1>2, <2>1 DEF BeginComplete, TypeInv, WorkersTyped
  <2>3. Closes(v)
    BY <1>2, <2>2 DEF Closes
  <2>4. worker[w].run \in Runs /\ worker[v].run \in Runs
    BY <1>2, <2>3 DEF Closes, BeginComplete, TypeInv, WorkersTyped
  <2>5. run[worker[w].run].query = "current"
    BY <1>2, ClosersKept DEF BeginComplete, Closes
  <2>6. worker[w].run = worker[v].run
    BY <1>2, <2>3, <2>4, <2>5 DEF OneRunning, OneClosing, BeginComplete
  <2> QED
    BY <1>2, <2>3, <2>6 DEF BeginComplete, Closing, Closes
<1>3. ASSUME NEW w \in Workers, NEW v \in Workers, Closes(w)', Closes(v)'
      PROVE  v = w
  BY <1>2, <1>3, ClosersKept DEF OneClosing
<1> QED
  BY <1>1, <1>3 DEF OneClosing, Closes

\* A run that is complete stays as it is.
LEMMA CompletedKept ==
  ASSUME TypeInv, OneClosing, Next, NEW r \in Runs, run[r].status = "completed"
  PROVE  run'[r] = run[r]
<1> USE DEF TypeInv, RunsTyped
<1>1. ASSUME NEW w \in Workers, MarkStaleAndCommit(w) PROVE run'[r] = run[r]
  BY <1>1 DEF MarkStaleAndCommit, OneClosing, Closes
<1>2. ASSUME NEW w \in Workers, BeginComplete(w) PROVE run'[r] = run[r]
  BY <1>2 DEF BeginComplete
<1> QED
  BY <1>1, <1>2
     DEF Next, StartRun, EndIncomplete, TakePage, BeginPersist, PersistPage, Leave,
         MarkRemoved, RecoverSlowLock

\* A page leaves a listing stale only if it confirms nothing about it.
LEMMA PageLeavesStale ==
  ASSUME TypeInv, NEW v \in Workers, PersistPage(v), NEW l \in Listings, avail'[l] = "stale"
  PROVE  avail[l] = "stale" /\ confirmed'[l] = confirmed[l]
<1>1. l \in Shown(v) => worker[v].shown[l] \in Labels
  BY DEF TypeInv, WorkersTyped, WorkerType, Shown
<1>2. avail[l] = "stale" /\ ~(l \in Shown(v) /\ Newer(v, l))
  BY <1>1 DEF PersistPage, Labels, TypeInv, ListingsTyped
<1>3. worker[v].at \in Nat /\ confirmed[l] \in Nat
  BY DEF TypeInv, WorkersTyped, ListingsTyped, PersistPage, Times, Never
<1> QED
  BY <1>2, <1>3 DEF PersistPage, Newer, Confirmed

\* While a run is being completed nobody else marks listings.
LEMMA StaleKept ==
  ASSUME TypeInv, OneClosing, Next, NEW w \in Workers, Closes(w), Closes(w)'
  PROVE  /\ marked' = marked
         /\ \A l \in Listings : avail'[l] = "stale" =>
              avail[l] = "stale" /\ confirmed'[l] = confirmed[l]
<1>1. ASSUME NEW v \in Workers, MarkStaleAndCommit(v) PROVE FALSE
  <2>1. v = w
    BY <1>1 DEF MarkStaleAndCommit, OneClosing, Closes
  <2> QED
    BY <1>1, <2>1 DEF MarkStaleAndCommit, Closes, Idle, Execution, TypeInv, WorkersTyped
<1>2. ASSUME NEW v \in Workers, PersistPage(v)
      PROVE  marked' = marked
  BY <1>2 DEF PersistPage
<1>3. (\E v \in Workers : PersistPage(v)) \/ UNCHANGED listingVars
  BY <1>1 DEF Next, StartRun, EndIncomplete, TakePage, BeginPersist, Leave, BeginComplete,
              MarkRemoved, RecoverSlowLock
<1> QED
  BY <1>2, <1>3, PageLeavesStale DEF listingVars

\* A mark that is valid for a listing stays valid as long as it is stale.
LEMMA MarkKept ==
  ASSUME TypeInv, OneClosing, Next, NEW r \in Runs, NEW l \in Listings,
         MarkedBefore(r, l), marked' = marked, confirmed'[l] = confirmed[l]
  PROVE  MarkedBefore(r, l)'
  BY CompletedKept DEF MarkedBefore

\* What is removed was marked by another complete run.
LEMMA RemovalsMarkedStep == ASSUME TypeInv, ClosingInv, Next PROVE RemovalsMarked'
<1> USE DEF ClosingInv
<1>1. SUFFICES
        ASSUME NEW w \in Workers, Closes(w)', NEW r \in Runs, worker'[w].run = r
        PROVE  /\ worker'[w].pc = "remove" => \A l \in worker'[w].candidates :
                    avail'[l] = "stale" => MarkedBefore(r, l)'
               /\ worker'[w].pc = "stale" => \A l \in worker'[w].removing :
                    avail'[l] = "stale" /\ MarkedBefore(r, l)'
  BY WorkersTypedStep DEF RemovalsMarked, Closes, WorkersTyped, MarkedBefore
<1>2. CASE BeginComplete(w)
  <2>1. worker'[w].pc = "remove" /\ worker'[w].candidates = Removable(worker[w].run)
        /\ worker[w].run = r /\ run' = run
    BY <1>1, <1>2
       DEF BeginComplete, Closes, Idle, Execution, TypeInv, WorkersTyped, WorkerType
  <2>2. UNCHANGED listingVars
    BY <1>2 DEF BeginComplete
  <2>3. ASSUME NEW l \in Removable(r) PROVE MarkedBefore(r, l)'
    BY <2>1, <2>2, <2>3 DEF Removable, MarkedBefore, listingVars
  <2> QED
    BY <2>1, <2>3
<1>3. CASE Closes(w)
  <2>1. worker[w].run = r
    BY <1>1, <1>3, ClosedRunKept
  <2>2. marked' = marked
    BY <1>1, <1>3, StaleKept
  <2>3. ASSUME NEW l \in Listings, avail'[l] = "stale", MarkedBefore(r, l)
        PROVE  MarkedBefore(r, l)'
    BY <1>1, <1>3, <2>2, <2>3, StaleKept, MarkKept
  <2>4. worker[w].candidates \subseteq Listings /\ worker[w].removing \subseteq Listings
    BY DEF TypeInv, WorkersTyped, WorkerType
  <2>5. CASE worker'[w] = worker[w] /\ worker[w].pc = "remove"
    <3>1. ASSUME NEW l \in worker[w].candidates, avail'[l] = "stale"
          PROVE  MarkedBefore(r, l)'
      BY <1>1, <1>3, <2>3, <2>4, <2>5, <3>1, StaleKept DEF RemovalsMarked
    <3> QED
      BY <2>1, <2>5, <3>1
  <2>6. CASE worker'[w] = worker[w] /\ worker[w].pc = "stale"
    <3>1. ASSUME NEW v \in Workers, PersistPage(v), NEW l \in worker[w].removing
          PROVE  avail'[l] = "stale"
      BY <2>4, <2>6, <3>1 DEF PersistPage, RemovalsMarked
    <3>2. ASSUME NEW v \in Workers, MarkStaleAndCommit(v) PROVE FALSE
      <4>1. v = w
        BY <1>3, <3>2 DEF MarkStaleAndCommit, OneClosing, Closes
      <4> QED
        BY <1>1, <3>2, <4>1
           DEF MarkStaleAndCommit, Closes, Idle, Execution, TypeInv, WorkersTyped
    <3>3. (\E v \in Workers : PersistPage(v)) \/ UNCHANGED listingVars
      BY <3>2 DEF Next, StartRun, EndIncomplete, TakePage, BeginPersist, Leave, BeginComplete,
                  MarkRemoved, RecoverSlowLock
    <3>4. ASSUME NEW l \in worker[w].removing PROVE avail'[l] = "stale"
      BY <2>6, <3>1, <3>3 DEF listingVars, RemovalsMarked
    <3> QED
      BY <2>1, <2>3, <2>4, <2>6, <3>4 DEF RemovalsMarked
  <2>7. CASE MarkRemoved(w)
    <3>1. worker'[w].pc = "stale"
          /\ worker'[w].removing = {l \in worker[w].candidates : avail[l] = "stale"}
      BY <2>7 DEF MarkRemoved, TypeInv, WorkersTyped, WorkerType
    <3>2. avail' = avail
      BY <2>7 DEF MarkRemoved, listingVars
    <3>3. \A l \in worker[w].candidates : avail[l] = "stale" => MarkedBefore(r, l)
      BY <2>1, <2>7 DEF MarkRemoved, RemovalsMarked
    <3> QED
      BY <2>1, <2>3, <2>4, <3>1, <3>2, <3>3
  <2>8. worker'[w] = worker[w] \/ MarkRemoved(w)
    <3>1. worker'[w].pc \in {"remove", "stale"} /\ worker[w].pc \in {"remove", "stale"}
      BY <1>1, <1>3 DEF Closes
    <3> QED
      BY <3>1, ExecutionsKept DEF BeginComplete
  <2> QED
    BY <1>3, <2>5, <2>6, <2>7, <2>8 DEF Closes
<1> QED
  BY <1>1, <1>2, <1>3, ClosersKept

\* Every step keeps the facts about completions.
LEMMA ClosingStep == TypeInv /\ ClosingInv /\ [Next]_vars => ClosingInv'
<1>1. ASSUME TypeInv, ClosingInv, Next PROVE ClosingInv'
  BY <1>1, OneRunningStep, OneClosingStep, RemovalsMarkedStep DEF ClosingInv
<1>2. ASSUME ClosingInv, UNCHANGED vars PROVE ClosingInv'
  BY <1>2 DEF vars, ClosingInv, OneRunning, OneClosing, RemovalsMarked, MarkedBefore, Closes
<1> QED
  BY <1>1, <1>2

-----------------------------------------------------------------------------
(* Theorems about single steps.                                            *)

\* The types and the facts about completions hold initially.
LEMMA SafeInit == Init => TypeInv /\ ClosingInv
  BY TypeInit, ClosingInit

\* The types and the facts about completions are inductive together.
LEMMA SafeStep == TypeInv /\ ClosingInv /\ [Next]_vars => TypeInv' /\ ClosingInv'
  BY TypeStep, ClosingStep

\* Only pages and the completion of a run change availabilities.
LEMMA AvailabilityChanges ==
  ASSUME [Next]_vars, avail' # avail
  PROVE  \E w \in Workers : PersistPage(w) \/ MarkStaleAndCommit(w)
  BY DEF vars, Next, StartRun, EndIncomplete, TakePage, BeginPersist, Leave, BeginComplete,
         MarkRemoved, RecoverSlowLock, listingVars

\* A page changes an availability only to a label.
LEMMA PagesGiveLabels ==
  ASSUME TypeInv, NEW w \in Workers, PersistPage(w), NEW l \in Listings, avail'[l] # avail[l]
  PROVE  avail'[l] \in Labels
  BY DEF PersistPage, TypeInv, WorkersTyped, WorkerType, Shown

(* Sold is confirmed by the source: what a run of the current listings has *)
(* missed never takes it back, also when the sold page is persisted while  *)
(* that run is being completed.                                            *)
THEOREM SoldIsNeverInferredAway == Spec => SoldStands
<1> DEFINE Stands(l) == avail[l] = "sold" => avail'[l] \in Labels
<1>1. ASSUME TypeInv, ClosingInv, [Next]_vars, NEW l \in Listings PROVE Stands(l)
  <2>1. SUFFICES ASSUME avail[l] = "sold", avail'[l] # avail[l] PROVE avail'[l] \in Labels
    BY DEF Labels
  <2>2. PICK w \in Workers : PersistPage(w) \/ MarkStaleAndCommit(w)
    BY <1>1, <2>1, AvailabilityChanges
  <2>3. CASE MarkStaleAndCommit(w)
    <3>1. \A x \in worker[w].removing : avail[x] = "stale"
      BY <1>1, <2>3 DEF ClosingInv, RemovalsMarked, MarkStaleAndCommit
    <3> QED
      BY <2>1, <2>3, <3>1 DEF MarkStaleAndCommit, Marking
  <2> QED
    BY <1>1, <2>1, <2>2, <2>3, PagesGiveLabels
<1>2. TypeInv /\ ClosingInv /\ [Next]_vars => [\A l \in Listings : Stands(l)]_vars
  BY <1>1
<1> QED
  BY <1>2, SafeInit, SafeStep, PTL DEF Spec, SoldStands

(* A listing becomes stale or removed only in the step that completes a    *)
(* run of the current listings, and removed only if another complete run   *)
(* has marked it before: partial crawls infer nothing.                     *)
THEOREM OnlyCompleteRunsInferAbsence == Spec => OnlyCompleteRunsInfer
<1> DEFINE Inferred(l) ==
      avail'[l] # avail[l] /\ avail'[l] \in {"stale", "removed"} =>
        \E r \in Runs :
          /\ run[r].query = "current"
          /\ run[r].status = "running" /\ run'[r].status = "completed"
          /\ avail'[l] = "removed" =>
               \E other \in Runs \ {r} : run[other].status = "completed"
                                         /\ marked[l][other] > confirmed[l]
<1>1. ASSUME TypeInv, ClosingInv, [Next]_vars, NEW l \in Listings PROVE Inferred(l)
  <2>1. SUFFICES ASSUME avail'[l] # avail[l], avail'[l] \in {"stale", "removed"}
                 PROVE  Inferred(l)
    OBVIOUS
  <2>2. PICK w \in Workers : MarkStaleAndCommit(w)
    BY <1>1, <2>1, AvailabilityChanges, PagesGiveLabels DEF Labels
  <2> DEFINE r == worker[w].run
  <2>3. r \in Runs /\ run[r].query = "current" /\ run[r].status = "running"
    BY <1>1, <2>2 DEF MarkStaleAndCommit, TypeInv, WorkersTyped, ClosingInv, OneClosing, Closes
  <2>4. run'[r].status = "completed"
    BY <1>1, <2>2, <2>3 DEF MarkStaleAndCommit, TypeInv, RunsTyped, RunType
  <2>5. avail'[l] = "removed" => MarkedBefore(r, l)
    BY <1>1, <2>1, <2>2 DEF MarkStaleAndCommit, ClosingInv, RemovalsMarked, Marking
  <2> QED
    BY <2>3, <2>4, <2>5 DEF MarkedBefore
<1>2. TypeInv /\ ClosingInv /\ [Next]_vars => [\A l \in Listings : Inferred(l)]_vars
  BY <1>1
<1> QED
  BY <1>2, SafeInit, SafeStep, PTL DEF Spec, OnlyCompleteRunsInfer

(* Pages that are persisted out of order leave the availability that was   *)
(* observed last.                                                          *)
THEOREM LatestObservationStands == Spec => LatestObservationWins
<1> DEFINE Ordered(w, l) ==
      worker[w].pc = "persist" /\ worker'[w].pc = "end" /\ l \in Shown(w) =>
        /\ confirmed'[l] >= confirmed[l] /\ confirmed'[l] >= worker[w].at
        /\ worker[w].at < confirmed[l] => avail'[l] = avail[l]
        /\ worker[w].at > confirmed[l] => avail'[l] = worker[w].shown[l]
<1>1. ASSUME TypeInv, [Next]_vars, NEW w \in Workers, NEW l \in Listings PROVE Ordered(w, l)
  <2>1. SUFFICES ASSUME worker[w].pc = "persist", worker'[w].pc = "end", l \in Shown(w)
                 PROVE  Ordered(w, l)
    OBVIOUS
  <2>2. Next
    BY <1>1, <2>1 DEF vars
  <2>3. PersistPage(w)
    BY <1>1, <2>1, <2>2, ExecutionsKept
  <2>4. worker[w].at \in Nat \ {0} /\ confirmed[l] \in Nat
        /\ (avail[l] = "absent" => confirmed[l] = 0)
    BY <1>1, <2>1 DEF TypeInv, WorkersTyped, ListingsTyped, Times, Never
  <2>5. confirmed'[l] = Confirmed(w, l)
        /\ avail'[l] = (IF Newer(w, l) THEN worker[w].shown[l] ELSE avail[l])
    BY <1>1, <2>1, <2>3 DEF PersistPage
  <2> QED
    BY <2>4, <2>5 DEF Confirmed, Newer
<1>2. TypeInv /\ [Next]_vars => [\A w \in Workers, l \in Listings : Ordered(w, l)]_vars
  BY <1>1
<1> QED
  BY <1>2, TypeInit, TypeStep, PTL DEF Spec, LatestObservationWins

-----------------------------------------------------------------------------
(* The order of the stamps is invariant.                                   *)

\* The stamps are ordered initially.
LEMMA OrderInit == Init => OrderInv
<1> SUFFICES ASSUME Init PROVE OrderInv
  OBVIOUS
<1>1. Never <= 1
  BY DEF Never
<1> QED
  BY <1>1 DEF Init, OrderInv, RunsOrdered, ListingsOrdered, WorkersOrdered, SightingsConfirm,
              NewRun, Idle, Execution

\* Every action keeps the runs ordered.
LEMMA RunsOrderedStep == ASSUME TypeInv, OneClosing, OrderInv, Next PROVE RunsOrdered'
<1> USE DEF OrderInv
<1>1. SUFFICES ASSUME NEW r \in Runs
               PROVE  run'[r].started <= now' /\ (run'[r].status = "absent" => sighted'[r] = {})
  BY DEF RunsOrdered
<1>2. run'[r].started <= now'
  <2>1. run[r].started \in Nat /\ run[r].started <= now
    BY DEF RunsOrdered, TypeInv, RunsTyped, RunType, Times, Never
  <2> QED
    BY <2>1, RunsKept, ClockStep
<1>3. ASSUME run'[r].status = "absent" PROVE sighted'[r] = {}
  <2>1. run[r].status = "absent" /\ sighted[r] = {}
    BY <1>3, RunsKept DEF RunsOrdered
  <2>2. ASSUME NEW l \in sighted'[r] PROVE FALSE
    <3>1. PICK w \in Workers : PersistPage(w) /\ worker[w].run = r
      BY <2>1, SightingsKept
    <3> QED
      BY <2>1, <3>1 DEF PersistPage, WorkersOrdered
  <2> QED
    BY <2>2
<1> QED
  BY <1>2, <1>3

\* Every action keeps the confirmations before the clock.
LEMMA ListingsOrderedStep == ASSUME TypeInv, OrderInv, Next PROVE ListingsOrdered'
<1>1. ASSUME NEW l \in Listings PROVE confirmed'[l] <= now'
  <2>1. confirmed[l] <= now
    BY DEF OrderInv, ListingsOrdered
  <2>2. ASSUME NEW w \in Workers, PersistPage(w)
        PROVE  worker[w].at \in Nat /\ worker[w].at <= now
    BY <2>2 DEF OrderInv, WorkersOrdered, PersistPage, TypeInv, WorkersTyped, Times
  <2> QED
    BY <2>1, <2>2, ConfirmationsKept, ClockStep
<1> QED
  BY <1>1 DEF ListingsOrdered

\* Every action keeps a page after the beginning of its run.
LEMMA WorkersOrderedStep == ASSUME TypeInv, OneClosing, OrderInv, Next PROVE WorkersOrdered'
<1> USE DEF OrderInv
<1>1. SUFFICES ASSUME NEW w \in Workers, worker'[w].pc # "idle", NEW r \in Runs,
                      worker'[w].run = r
               PROVE  /\ run'[r].status # "absent"
                      /\ worker'[w].pc \in {"persist", "remove", "stale"} =>
                           run'[r].started <= worker'[w].at /\ worker'[w].at <= now'
  BY WorkersTypedStep DEF WorkersOrdered, WorkersTyped
<1>2. run[r].status # "absent"
      /\ (TakePage(w, r) \/ (worker[w].run = r /\ worker[w].pc # "idle"))
  BY <1>1, ExecutionsKept
     DEF TakePage, BeginPersist, PersistPage, BeginComplete, MarkRemoved, WorkersOrdered
<1>3. run'[r].status # "absent" /\ run'[r].started = run[r].started
  BY <1>2, RunsKept
<1>4. run[r].started \in Nat /\ run[r].started <= now
  BY DEF RunsOrdered, TypeInv, RunsTyped, RunType, Times, Never
<1>5. CASE worker'[w].pc \in {"persist", "remove", "stale"}
  <2>1. \/ worker'[w].at = now'
        \/ /\ worker'[w].at = worker[w].at /\ worker[w].run = r
           /\ worker[w].pc \in {"persist", "remove", "stale"}
    BY <1>1, <1>5, ExecutionsKept DEF MarkRemoved
  <2>2. CASE worker'[w].at = now'
    BY <1>3, <1>4, <2>2, ClockStep
  <2>3. CASE worker'[w].at = worker[w].at /\ worker[w].run = r
             /\ worker[w].pc \in {"persist", "remove", "stale"}
    <3>1. run[r].started <= worker[w].at /\ worker[w].at <= now /\ worker[w].at \in Nat
      BY <2>3 DEF WorkersOrdered, TypeInv, WorkersTyped, Times
    <3> QED
      BY <1>3, <1>4, <2>3, <3>1, ClockStep
  <2> QED
    BY <2>1, <2>2, <2>3, <1>3
<1> QED
  BY <1>3, <1>5

\* Every action keeps what a run sighted confirmed after the run began.
LEMMA SightingsConfirmStep ==
  ASSUME TypeInv, OneClosing, OrderInv, Next PROVE SightingsConfirm'
<1> USE DEF OrderInv
<1>1. SUFFICES ASSUME NEW r \in Runs, NEW l \in sighted'[r]
               PROVE  confirmed'[l] >= run'[r].started
  BY DEF SightingsConfirm
<1>2. run[r].started \in Nat
  BY DEF TypeInv, RunsTyped, RunType, Times, Never
<1>3. CASE l \in sighted[r]
  <2>1. l \in Listings /\ run[r].status # "absent"
    BY <1>3 DEF TypeInv, ListingsTyped, RunsOrdered
  <2>2. run'[r].started = run[r].started
    BY <2>1, RunsKept
  <2>3. confirmed[l] >= run[r].started
    BY <1>3 DEF SightingsConfirm
  <2> QED
    BY <1>2, <2>1, <2>2, <2>3, ConfirmationsKept
<1>4. CASE l \notin sighted[r]
  <2>1. PICK w \in Workers : PersistPage(w) /\ worker[w].run = r /\ l \in Shown(w)
    BY <1>4, SightingsKept
  <2>2. run' = run /\ l \in Listings /\ confirmed'[l] = Confirmed(w, l)
    BY <2>1 DEF PersistPage, Shown, TypeInv, ListingsTyped
  <2>3. run[r].started <= worker[w].at /\ worker[w].at \in Nat /\ confirmed[l] \in Nat
    BY <2>1, <2>2
       DEF PersistPage, WorkersOrdered, TypeInv, WorkersTyped, ListingsTyped, Times, Never
  <2> QED
    BY <1>2, <2>2, <2>3 DEF Confirmed
<1> QED
  BY <1>3, <1>4

\* Every step keeps the stamps ordered.
LEMMA OrderStep == TypeInv /\ ClosingInv /\ OrderInv /\ [Next]_vars => OrderInv'
<1>1. ASSUME TypeInv, ClosingInv, OrderInv, Next PROVE OrderInv'
  BY <1>1, RunsOrderedStep, ListingsOrderedStep, WorkersOrderedStep, SightingsConfirmStep
     DEF OrderInv, ClosingInv
<1>2. ASSUME OrderInv, UNCHANGED vars PROVE OrderInv'
  BY <1>2 DEF vars, OrderInv, RunsOrdered, ListingsOrdered, WorkersOrdered, SightingsConfirm
<1> QED
  BY <1>1, <1>2

(* What a run has sighted was confirmed after the run began, however late  *)
(* and out of order its pages are persisted.                               *)
THEOREM SightingsAreConfirmations == Spec => []SightingsConfirm
<1>1. OrderInv => SightingsConfirm
  BY DEF OrderInv
<1> QED
  BY <1>1, SafeInit, SafeStep, OrderInit, OrderStep, PTL DEF Spec

-----------------------------------------------------------------------------
(* While jobs run one at a time, the evidence behind an availability.      *)

\* The evidence holds initially.
LEMMA SerialInit == Init => SerialInv
  BY DEF Init, SerialInv, OneBusy, CurrentSighted, PageIsLatest, CandidatesCurrent, Evidence,
         Idle, Execution

\* One execution is busy, however it goes on.
LEMMA OneBusyStep == ASSUME TypeInv, OneBusy, ~slow, Next PROVE OneBusy'
<1>1. ASSUME NEW w \in Workers, worker'[w].pc # "idle"
      PROVE  worker[w].pc # "idle" \/ \E r \in Runs : TakePage(w, r)
  BY <1>1, ExecutionsKept DEF BeginPersist, PersistPage, BeginComplete, MarkRemoved
<1>2. ASSUME NEW v \in Workers, NEW r \in Runs, TakePage(v, r),
             NEW w \in Workers, worker'[w].pc # "idle"
      PROVE  w = v
  BY <1>2 DEF TakePage, TypeInv, WorkersTyped
<1>3. ASSUME NEW v \in Workers, NEW w \in Workers,
             worker'[v].pc # "idle", worker'[w].pc # "idle"
      PROVE  v = w
  BY <1>1, <1>2, <1>3 DEF OneBusy
<1> QED
  BY <1>3 DEF OneBusy

\* Next to a busy execution only schedulers and operators act.
LEMMA OthersAct ==
  ASSUME TypeInv, OneBusy, ~slow, ~slow', Next,
         NEW w \in Workers, worker[w].pc # "idle", worker'[w] = worker[w]
  PROVE  \E r \in Runs : EndIncomplete(r) \/ \E q \in Queries : StartRun(r, q)
<1> USE DEF TypeInv, WorkersTyped, WorkerType, OneBusy
<1>1. ASSUME NEW v \in Workers, NEW r \in Runs, TakePage(v, r) PROVE FALSE
  BY <1>1 DEF TakePage
<1>2. ASSUME NEW v \in Workers, BeginPersist(v) PROVE FALSE
  <2>1. v = w /\ worker[v].pc = "request"
    BY <1>2 DEF BeginPersist
  <2>2. PICK shown : worker' = [worker EXCEPT ![w].pc = "persist", ![w].at = now',
                                               ![w].shown = shown]
    BY <1>2, <2>1 DEF BeginPersist
  <2>3. worker'[w].pc = "persist"
    BY <2>2
  <2> QED
    BY <2>1, <2>3
<1>3. ASSUME NEW v \in Workers, PersistPage(v) PROVE FALSE
  <2>1. v = w
    BY <1>3 DEF PersistPage
  <2> QED
    BY <1>3, <2>1 DEF PersistPage, Execution
<1>4. ASSUME NEW v \in Workers, Leave(v) \/ MarkStaleAndCommit(v) PROVE FALSE
  <2>1. v = w
    BY <1>4 DEF Leave, MarkStaleAndCommit
  <2> QED
    BY <1>4, <2>1 DEF Leave, MarkStaleAndCommit, Idle, Execution
<1>5. ASSUME NEW v \in Workers, BeginComplete(v) PROVE FALSE
  <2>1. v = w
    BY <1>5 DEF BeginComplete
  <2> QED
    BY <1>5, <2>1 DEF BeginComplete, Idle, Execution
<1>6. ASSUME NEW v \in Workers, MarkRemoved(v) PROVE FALSE
  <2>1. v = w
    BY <1>6 DEF MarkRemoved
  <2> QED
    BY <1>6, <2>1 DEF MarkRemoved
<1> QED
  BY <1>1, <1>2, <1>3, <1>4, <1>5, <1>6 DEF Next, RecoverSlowLock

\* Schedulers and operators change nothing that completions read of a run.
LEMMA ReadsKept ==
  ASSUME TypeInv, RunsOrdered, NEW r \in Runs, run[r].status # "absent", NEW x \in Runs,
         EndIncomplete(x) \/ \E q \in Queries : StartRun(x, q)
  PROVE  /\ UNCHANGED <<listingVars, sighted>>
         /\ Removable(r)' = Removable(r) /\ Staling(r)' = Staling(r)
<1>1. UNCHANGED <<listingVars, sighted>>
  BY DEF EndIncomplete, StartRun
<1>2. run'[r].query = run[r].query /\ run'[r].started = run[r].started
  BY DEF EndIncomplete, StartRun, TypeInv, RunsTyped, RunType
<1>3. ASSUME NEW p \in Runs
      PROVE  \/ run'[p].query = run[p].query
                /\ (run'[p].status = "completed" <=> run[p].status = "completed")
             \/ sighted[p] = {} /\ run'[p].status # "completed" /\ run[p].status # "completed"
  BY DEF EndIncomplete, StartRun, TypeInv, RunsTyped, RunType, RunsOrdered
<1>4. \A l \in Listings : Missed(r, l)' <=> Missed(r, l)
  BY <1>1, <1>2, <1>3 DEF Missed, listingVars
<1>5. Staling(r)' = Staling(r)
  BY <1>1, <1>4 DEF Staling, listingVars
<1>6. Removable(r)' = Removable(r)
  BY <1>1, <1>2, <1>3, <1>4 DEF Removable, listingVars
<1> QED
  BY <1>1, <1>5, <1>6

\* A run of the current listings becomes complete by one action only.
LEMMA CompletedBefore ==
  ASSUME TypeInv, Next, NEW r \in Runs, run'[r].status = "completed",
         run[r].status # "completed"
  PROVE  \/ \E w \in Workers : BeginComplete(w) /\ run'[r].query = "sold"
         \/ \E w \in Workers : MarkStaleAndCommit(w) /\ worker[w].run = r
<1> USE DEF TypeInv, RunsTyped, RunType
<1>1. ASSUME NEW w \in Workers, BeginComplete(w) PROVE run'[r].query = "sold"
  BY <1>1 DEF BeginComplete, Queries
<1>2. ASSUME NEW w \in Workers, MarkStaleAndCommit(w) PROVE worker[w].run = r
  BY <1>2 DEF MarkStaleAndCommit
<1>3. ASSUME NEW x \in Runs, EndIncomplete(x) \/ \E q \in Queries : StartRun(x, q)
      PROVE  FALSE
  BY <1>3 DEF EndIncomplete, StartRun
<1>4. run' # run
  OBVIOUS
<1> QED
  BY <1>1, <1>2, <1>3, <1>4
     DEF Next, TakePage, BeginPersist, PersistPage, Leave, MarkRemoved, RecoverSlowLock

\* One at a time, every action keeps what a completion has read up to date.
LEMMA CandidatesCurrentStep ==
  ASSUME TypeInv, ClosingInv, OrderInv, SerialInv, ~slow, ~slow', Next
  PROVE  CandidatesCurrent'
<1> USE DEF SerialInv
<1>1. SUFFICES
        ASSUME NEW w \in Workers, worker'[w].pc \in {"remove", "stale"}, NEW r \in Runs,
               worker'[w].run = r
        PROVE  /\ worker'[w].pc = "remove" => worker'[w].candidates = Removable(r)'
               /\ worker'[w].pc = "stale" => /\ worker'[w].removing = Removable(r)'
                                             /\ worker'[w].candidates = Staling(r)'
  BY WorkersTypedStep
     DEF CandidatesCurrent, WorkersTyped, Removable, Staling, Missed
<1>2. CASE worker'[w] = worker[w]
  <2>1. run[r].status # "absent" /\ worker[w].run = r
    BY <1>1, <1>2 DEF OrderInv, WorkersOrdered
  <2>2. \E x \in Runs : EndIncomplete(x) \/ \E q \in Queries : StartRun(x, q)
    BY <1>1, <1>2, OthersAct
  <2>3. Removable(r)' = Removable(r) /\ Staling(r)' = Staling(r)
    BY <2>1, <2>2, ReadsKept DEF OrderInv
  <2>4. /\ worker[w].pc = "remove" => worker[w].candidates = Removable(r)
        /\ worker[w].pc = "stale" => worker[w].removing = Removable(r)
                                     /\ worker[w].candidates = Staling(r)
    BY <2>1 DEF CandidatesCurrent
  <2> QED
    BY <1>2, <2>3, <2>4
<1>3. CASE BeginComplete(w)
  <2>1. worker'[w].pc = "remove" /\ worker'[w].candidates = Removable(r) /\ run' = run
    BY <1>1, <1>3
       DEF BeginComplete, Idle, Execution, TypeInv, WorkersTyped, WorkerType
  <2>2. Removable(r)' = Removable(r)
    BY <1>3, <2>1 DEF BeginComplete, Removable, Missed, listingVars
  <2> QED
    BY <2>1, <2>2
<1>4. CASE MarkRemoved(w)
  <2>1. /\ worker'[w].pc = "stale" /\ worker[w].run = r
        /\ worker'[w].removing = {l \in worker[w].candidates : avail[l] = "stale"}
        /\ worker'[w].candidates = Staling(r)
    BY <1>1, <1>4 DEF MarkRemoved, Staling, TypeInv, WorkersTyped, WorkerType
  <2>2. worker[w].candidates = Removable(r)
    BY <1>4, <2>1 DEF MarkRemoved, CandidatesCurrent
  <2>3. worker'[w].removing = Removable(r)
    BY <2>1, <2>2 DEF Removable
  <2>4. Removable(r)' = Removable(r) /\ Staling(r)' = Staling(r)
    BY <1>4 DEF MarkRemoved, Removable, Staling, Missed, listingVars
  <2> QED
    BY <2>1, <2>3, <2>4
<1> QED
  BY <1>1, <1>2, <1>3, <1>4, ExecutionsKept

\* A page of a serial execution is persisted before anything else is confirmed.
LEMMA PageIsLatestStep ==
  ASSUME TypeInv, ClosingInv, OrderInv, SerialInv, ~slow, ~slow', Next
  PROVE  PageIsLatest'
<1> USE DEF SerialInv
<1>1. SUFFICES
        ASSUME NEW w \in Workers, worker'[w].pc = "persist"
        PROVE  /\ \A l \in Listings : confirmed'[l] <= worker'[w].at
               /\ \A r \in Runs : run'[r].status = "completed" =>
                                    run'[r].started <= worker'[w].at
  BY DEF PageIsLatest
<1>2. CASE worker'[w] = worker[w]
  <2>1. PICK x \in Runs : EndIncomplete(x) \/ \E q \in Queries : StartRun(x, q)
    BY <1>1, <1>2, OthersAct
  <2>2. confirmed' = confirmed
    BY <2>1 DEF EndIncomplete, StartRun, listingVars
  <2>3. ASSUME NEW r \in Runs, run'[r].status = "completed" PROVE run'[r] = run[r]
    BY <2>1, <2>3 DEF EndIncomplete, StartRun, TypeInv, RunsTyped, RunType
  <2> QED
    BY <1>1, <1>2, <2>2, <2>3 DEF PageIsLatest
<1>3. CASE BeginPersist(w)
  <2>1. worker'[w].at = now' /\ UNCHANGED <<confirmed, run>>
    BY <1>1, <1>3, ExecutionsKept DEF BeginPersist, listingVars, PersistPage, TakePage,
                                      BeginComplete, MarkRemoved
  <2>2. \A l \in Listings : confirmed[l] \in Nat /\ confirmed[l] <= now
    BY DEF TypeInv, ListingsTyped, Times, Never, OrderInv, ListingsOrdered
  <2>3. \A r \in Runs : run[r].started \in Nat /\ run[r].started <= now
    BY DEF TypeInv, RunsTyped, RunType, Times, Never, OrderInv, RunsOrdered
  <2> QED
    BY <2>1, <2>2, <2>3, ClockStep
<1> QED
  BY <1>1, <1>2, <1>3, ExecutionsKept

\* Where "active" comes from.
LEMMA ActiveFromCurrent ==
  ASSUME TypeInv, ClosingInv, Next, NEW l \in Listings,
         avail'[l] \in {"active", "stale", "removed"},
         avail[l] \notin {"active", "stale", "removed"}
  PROVE  \E w \in Workers : PersistPage(w) /\ l \in Shown(w) /\ worker[w].shown[l] = "active"
<1>1. PICK w \in Workers : PersistPage(w) \/ MarkStaleAndCommit(w)
  BY AvailabilityChanges DEF vars
<1>2. CASE MarkStaleAndCommit(w)
  <2>1. \A x \in worker[w].removing : avail[x] = "stale"
    BY <1>2 DEF ClosingInv, RemovalsMarked, MarkStaleAndCommit
  <2> QED
    BY <1>2, <2>1 DEF MarkStaleAndCommit, Marking, TypeInv, ListingsTyped
<1>3. CASE PersistPage(w)
  <2>1. l \in Shown(w) /\ avail'[l] = worker[w].shown[l]
    BY <1>3 DEF PersistPage
  <2>2. worker[w].shown[l] \in Labels
    BY <2>1 DEF Shown, TypeInv, WorkersTyped, WorkerType
  <2> QED
    BY <1>3, <2>1, <2>2 DEF Labels
<1> QED
  BY <1>1, <1>2, <1>3

\* One at a time, every action keeps a sighting behind every active listing.
LEMMA CurrentSightedStep ==
  ASSUME TypeInv, ClosingInv, OrderInv, SerialInv, ~slow, ~slow', Next
  PROVE  CurrentSighted'
<1> USE DEF SerialInv
<1>1. ASSUME NEW l \in Listings, avail'[l] \in {"active", "stale", "removed"}
      PROVE  \E r \in Runs : run'[r].query = "current" /\ run'[r].status # "absent"
                             /\ l \in sighted'[r]
  <2>1. CASE avail[l] \in {"active", "stale", "removed"}
    <3>1. PICK r \in Runs : run[r].query = "current" /\ run[r].status # "absent"
                            /\ l \in sighted[r]
      BY <2>1 DEF CurrentSighted
    <3>2. run'[r].query = "current" /\ run'[r].status # "absent"
      BY <3>1, RunsKept DEF ClosingInv
    <3>3. l \in sighted'[r]
      <4>1. ASSUME NEW w \in Workers, PersistPage(w) PROVE l \in sighted'[r]
        BY <3>1, <4>1 DEF PersistPage, TypeInv, ListingsTyped
      <4>2. (\E w \in Workers : PersistPage(w)) \/ sighted' = sighted
        BY DEF Next, StartRun, EndIncomplete, TakePage, BeginPersist, Leave, BeginComplete,
               MarkRemoved, MarkStaleAndCommit, RecoverSlowLock
      <4> QED
        BY <3>1, <4>1, <4>2
    <3> QED
      BY <3>2, <3>3
  <2>2. CASE avail[l] \notin {"active", "stale", "removed"}
    <3>1. PICK w \in Workers : PersistPage(w) /\ l \in Shown(w) /\ worker[w].shown[l] = "active"
      BY <1>1, <2>2, ActiveFromCurrent
    <3> DEFINE r == worker[w].run
    <3>2. r \in Runs /\ run[r].query = "current" /\ run[r].status # "absent" /\ run' = run
      BY <3>1 DEF PersistPage, CurrentSighted, TypeInv, WorkersTyped, OrderInv, WorkersOrdered
    <3>3. l \in sighted'[r]
      BY <3>1, <3>2 DEF PersistPage, TypeInv, ListingsTyped
    <3> QED
      BY <3>2, <3>3
  <2> QED
    BY <2>1, <2>2
<1>2. ASSUME NEW w \in Workers, NEW l \in Listings,
             worker'[w].pc = "persist", worker'[w].shown[l] = "active"
      PROVE  run'[worker'[w].run].query = "current"
  <2>1. CASE worker'[w] = worker[w]
    <3>1. worker[w].run \in Runs /\ run[worker[w].run].status # "absent"
          /\ run[worker[w].run].query = "current"
      BY <1>2, <2>1 DEF TypeInv, WorkersTyped, OrderInv, WorkersOrdered, CurrentSighted
    <3> QED
      BY <2>1, <3>1, RunsKept DEF ClosingInv
  <2>2. CASE BeginPersist(w)
    <3>1. PICK shown \in [Listings -> LabelsOf(run[worker[w].run].query) \cup {"none"}] :
            worker' = [worker EXCEPT ![w].pc = "persist", ![w].at = now', ![w].shown = shown]
      BY <2>2 DEF BeginPersist
    <3>2. worker'[w].shown = shown /\ worker'[w].run = worker[w].run /\ run' = run
      BY <2>2, <3>1 DEF BeginPersist, TypeInv, WorkersTyped, WorkerType
    <3>3. "active" \in LabelsOf(run[worker[w].run].query)
      BY <1>2, <3>2
    <3> QED
      BY <3>2, <3>3 DEF LabelsOf
  <2> QED
    BY <1>2, <2>1, <2>2, ExecutionsKept
<1> QED
  BY <1>1, <1>2 DEF CurrentSighted

\* Without a page or the completion of a run of current listings nobody
\* misses anything.
LEMMA MissedByKept ==
  ASSUME TypeInv, ClosingInv, Next, UNCHANGED <<listingVars, sighted>>,
         \A w \in Workers : ~MarkStaleAndCommit(w), NEW l \in Listings
  PROVE  MissedBy(l)' = MissedBy(l)
<1>1. ASSUME NEW r \in Runs
      PROVE  run'[r].query = "current" /\ run'[r].status = "completed"
             <=> run[r].query = "current" /\ run[r].status = "completed"
  BY CompletedBefore, CompletedKept, RunsKept DEF ClosingInv
<1>2. ASSUME NEW r \in Runs, run[r].status = "completed" PROVE run'[r].started = run[r].started
  BY <1>2, CompletedKept DEF ClosingInv
<1> QED
  BY <1>1, <1>2 DEF MissedBy, listingVars

\* A page of a serial execution leaves no complete run that missed what it shows.
LEMMA PageEvidence ==
  ASSUME TypeInv, SerialInv, ~slow, NEW w \in Workers, PersistPage(w)
  PROVE  Evidence'
<1>1. SUFFICES
        ASSUME NEW l \in Listings
        PROVE  /\ avail'[l] = "active" => MissedBy(l)' = {}
               /\ avail'[l] = "stale" =>
                    \E r \in Runs : MissedBy(l)' = {r} /\ marked'[l][r] > confirmed'[l]
               /\ avail'[l] = "removed" => \E r, other \in MissedBy(l)' : r # other
  BY DEF Evidence
<1>2. run' = run /\ marked' = marked /\ worker[w].run \in Runs
  BY DEF PersistPage, TypeInv, WorkersTyped
<1>3. CASE l \in Shown(w)
  <2>1. worker[w].at \in Nat /\ confirmed[l] \in Nat /\ worker[w].at >= confirmed[l]
    BY DEF PersistPage, TypeInv, WorkersTyped, ListingsTyped, SerialInv, PageIsLatest, Times, Never
  <2>2. avail'[l] \in Labels
    BY <1>3, <2>1 DEF PersistPage, Newer, Shown, TypeInv, WorkersTyped, WorkerType
  <2>3. confirmed'[l] = worker[w].at
    BY <1>3, <2>1 DEF PersistPage, Confirmed
  <2>4. ASSUME NEW r \in Runs, run[r].status = "completed" PROVE ~(confirmed'[l] < run[r].started)
    <3>1. run[r].started <= worker[w].at /\ run[r].started \in Nat
      BY <2>4 DEF PersistPage, SerialInv, PageIsLatest, TypeInv, RunsTyped, RunType, Times, Never
    <3> QED
      BY <2>1, <2>3, <3>1
  <2>5. MissedBy(l)' = {}
    BY <1>2, <2>4 DEF MissedBy
  <2> QED
    BY <2>2, <2>5 DEF Labels
<1>4. CASE l \notin Shown(w)
  <2>1. avail'[l] = avail[l] /\ confirmed'[l] = confirmed[l]
    BY <1>4 DEF PersistPage
  <2>2. \A r \in Runs : l \in sighted'[r] <=> l \in sighted[r]
    BY <1>2, <1>4 DEF PersistPage, TypeInv, ListingsTyped
  <2>3. MissedBy(l)' = MissedBy(l)
    BY <1>2, <2>1, <2>2 DEF MissedBy
  <2> QED
    BY <1>2, <2>1, <2>3 DEF SerialInv, Evidence
<1> QED
  BY <1>3, <1>4

\* The completion of a serial run adds it to those that missed a listing
\* exactly when it marks or removes it.
LEMMA CommitEvidence ==
  ASSUME TypeInv, ClosingInv, OrderInv, SerialInv, ~slow,
         NEW w \in Workers, MarkStaleAndCommit(w)
  PROVE  Evidence'
<1> USE DEF SerialInv
<1>1. SUFFICES
        ASSUME NEW l \in Listings, NEW r \in Runs, worker[w].run = r
        PROVE  /\ avail'[l] = "active" => MissedBy(l)' = {}
               /\ avail'[l] = "stale" =>
                    \E x \in Runs : MissedBy(l)' = {x} /\ marked'[l][x] > confirmed'[l]
               /\ avail'[l] = "removed" => \E x, other \in MissedBy(l)' : x # other
  BY DEF Evidence, MarkStaleAndCommit, TypeInv, WorkersTyped
<1>2. /\ run[r].query = "current" /\ run[r].status = "running"
      /\ worker[w].removing = Removable(r) /\ worker[w].candidates = Staling(r)
      /\ worker[w].at \in Nat /\ run[r].started <= worker[w].at
  BY <1>1 DEF MarkStaleAndCommit, ClosingInv, OneClosing, Closes, CandidatesCurrent, TypeInv,
              WorkersTyped, OrderInv, WorkersOrdered, Times
<1>3. /\ run' = [run EXCEPT ![r].status = "completed"]
      /\ confirmed' = confirmed /\ sighted' = sighted
  BY <1>1 DEF MarkStaleAndCommit
<1>4. /\ run'[r].query = "current" /\ run'[r].status = "completed"
      /\ run'[r].started = run[r].started
      /\ \A x \in Runs \ {r} : run'[x] = run[x]
  BY <1>2, <1>3 DEF TypeInv, RunsTyped, RunType
<1>5. confirmed[l] \in Nat /\ run[r].started \in Nat
  BY DEF TypeInv, ListingsTyped, RunsTyped, RunType, Times, Never
<1> DEFINE unseen == confirmed[l] < run[r].started /\ l \notin sighted[r]
<1>6. r \notin MissedBy(l)
  BY <1>2 DEF MissedBy
<1>7. MissedBy(l)' = IF unseen THEN MissedBy(l) \cup {r} ELSE MissedBy(l)
  BY <1>3, <1>4, <1>6 DEF MissedBy
<1>8. ASSUME avail[l] \in {"active", "stale", "removed"} PROVE Missed(r, l) <=> unseen
  <2>1. PICK prior \in Runs : run[prior].query = "current" /\ l \in sighted[prior]
    BY <1>8 DEF CurrentSighted
  <2> QED
    BY <1>2, <2>1 DEF Missed
<1>9. avail'[l] = IF l \in Removable(r) THEN "removed"
                  ELSE IF l \in Staling(r) THEN "stale" ELSE avail[l]
  BY <1>1, <1>2 DEF MarkStaleAndCommit, Marking, Staling
<1>10. CASE avail[l] = "active"
  <2>1. l \notin Removable(r) /\ MissedBy(l) = {} /\ (l \in Staling(r) <=> unseen)
    BY <1>8, <1>10 DEF Removable, Staling, Evidence
  <2>2. CASE unseen
    <3>1. avail'[l] = "stale" /\ MissedBy(l)' = {r}
      BY <1>7, <1>9, <2>1, <2>2
    <3>2. marked'[l][r] = worker[w].at
      BY <1>1, <1>2, <2>1, <2>2 DEF MarkStaleAndCommit, Marking, Staling, TypeInv, ListingsTyped
    <3>3. marked'[l][r] > confirmed'[l]
      BY <1>2, <1>3, <1>5, <2>2, <3>2
    <3> QED
      BY <3>1, <3>3
  <2>3. CASE ~unseen
    BY <1>7, <1>9, <1>10, <2>1, <2>3
  <2> QED
    BY <2>2, <2>3
<1>11. CASE avail[l] = "stale"
  <2>1. PICK x \in Runs : MissedBy(l) = {x} /\ marked[l][x] > confirmed[l]
    BY <1>11 DEF Evidence
  <2>2. x # r /\ run[x].query = "current" /\ run[x].status = "completed"
    BY <1>6, <2>1 DEF MissedBy
  <2>3. l \notin Staling(r) /\ (l \in Removable(r) <=> unseen)
    BY <1>2, <1>8, <1>11, <2>1, <2>2 DEF Removable, Staling
  <2>4. CASE unseen
    BY <1>7, <1>9, <2>1, <2>2, <2>3, <2>4
  <2>5. CASE ~unseen
    <3>1. marked'[l] = marked[l]
      BY <1>11 DEF MarkStaleAndCommit, Marking
    <3> QED
      BY <1>3, <1>7, <1>9, <1>11, <2>1, <2>3, <2>5, <3>1
  <2> QED
    BY <2>4, <2>5
<1>12. CASE avail[l] = "removed"
  <2>1. l \notin Removable(r) /\ l \notin Staling(r)
    BY <1>12 DEF Removable, Staling
  <2> QED
    BY <1>7, <1>9, <1>12, <2>1 DEF Evidence
<1>13. CASE avail[l] \notin {"active", "stale", "removed"}
  BY <1>9, <1>13 DEF Removable, Staling
<1> QED
  BY <1>10, <1>11, <1>12, <1>13

\* One at a time, every action keeps the evidence.
LEMMA EvidenceStep ==
  ASSUME TypeInv, ClosingInv, OrderInv, SerialInv, ~slow, ~slow', Next
  PROVE  Evidence'
<1>1. CASE \E w \in Workers : PersistPage(w)
  BY <1>1, PageEvidence
<1>2. CASE \E w \in Workers : MarkStaleAndCommit(w)
  BY <1>2, CommitEvidence
<1>3. CASE \A w \in Workers : ~PersistPage(w) /\ ~MarkStaleAndCommit(w)
  <2>1. UNCHANGED <<listingVars, sighted>>
    BY <1>3 DEF Next, StartRun, EndIncomplete, TakePage, BeginPersist, Leave, BeginComplete,
                MarkRemoved, RecoverSlowLock
  <2>2. ASSUME NEW l \in Listings PROVE MissedBy(l)' = MissedBy(l)
    BY <1>3, <2>1, MissedByKept
  <2> QED
    BY <2>1, <2>2 DEF SerialInv, Evidence, listingVars
<1> QED
  BY <1>1, <1>2, <1>3

\* Every step keeps the facts about jobs that run one at a time.
LEMMA SerialStep ==
  TypeInv /\ ClosingInv /\ OrderInv /\ SerialInv /\ [Next]_vars => SerialInv'
<1>1. ASSUME TypeInv, ClosingInv, OrderInv, SerialInv, Next PROVE SerialInv'
  <2>1. SUFFICES ASSUME ~slow' PROVE SerialInv'
    BY DEF SerialInv
  <2>2. ~slow
    BY <1>1, <2>1 DEF TypeInv, Next, StartRun, EndIncomplete, TakePage, BeginPersist,
                      PersistPage, Leave, BeginComplete, MarkRemoved, MarkStaleAndCommit,
                      RecoverSlowLock
  <2>3. OneBusy'
    BY <1>1, <2>2, OneBusyStep DEF SerialInv
  <2> QED
    BY <1>1, <2>1, <2>2, <2>3, CurrentSightedStep, PageIsLatestStep, CandidatesCurrentStep,
       EvidenceStep DEF SerialInv
<1>2. ASSUME SerialInv, UNCHANGED vars PROVE SerialInv'
  BY <1>2 DEF vars, SerialInv, OneBusy, CurrentSighted, PageIsLatest, CandidatesCurrent,
              Evidence, MissedBy, Removable, Staling, Missed
<1> QED
  BY <1>1, <1>2

(* While jobs run one at a time the availability of a listing that was     *)
(* last seen for sale says exactly how many complete runs have missed it   *)
(* since: none when active, one when stale, two or more when removed.      *)
THEOREM AvailabilityIsEvidence == Spec => []EvidenceDecides
<1>1. SerialInv => EvidenceDecides
  BY DEF SerialInv, Evidence, EvidenceDecides
<1> QED
  BY <1>1, SafeInit, SafeStep, OrderInit, OrderStep, SerialInit, SerialStep, PTL DEF Spec

============================================================================
