---------------------------- MODULE RunLifecycle ----------------------------
(***************************************************************************)
(* What the crawler promises about the crawl runs of one search query,     *)
(* whatever its jobs, retries, schedulers and crashes do: runs follow one  *)
(* another, one at a time, one that ended stays ended, and the query always *)
(* points to the last run that completed.                                  *)
(***************************************************************************)
CONSTANTS
  Runs,   \* the crawl runs, each used at most once
  NoRun   \* the query has no complete run yet

VARIABLES
  status, \* status[r], "absent" before the run is created
  latest  \* the last complete run of the query

Ended == {"completed", "partial", "failed", "cancelled"}

Init == status = [r \in Runs |-> "absent"] /\ latest = NoRun

Create(r) ==
  /\ status[r] = "absent"
  /\ \A q \in Runs : status[q] # "running"
  /\ status' = [status EXCEPT ![r] = "running"]
  /\ UNCHANGED latest

Finish(r) ==
  /\ status[r] = "running"
  /\ \E s \in Ended :
       /\ status' = [status EXCEPT ![r] = s]
       /\ latest' = IF s = "completed" THEN r ELSE latest

Next == \E r \in Runs : Create(r) \/ Finish(r)

vars == <<status, latest>>

Spec == Init /\ [][Next]_vars

=============================================================================
