---------------------------- MODULE SourceFetch ----------------------------
(***************************************************************************)
(* Requests to the source by the jobs of one worker process                *)
(* (nettiauto-source.ts, nettiauto-fetch-policy.ts, the cached source of   *)
(* nettiauto-graphile-task.ts): three transports, each paced; those of the *)
(* browser session go one by one, in a chain of promises.  Bodies and      *)
(* diagnostics are left out; a browser service's answer that is no         *)
(* solution is one of the failures.  CRAWLER_REQUEST_TIMEOUT_MS is not 0,  *)
(* which would switch the timeout off (its default is 30 s).               *)
(***************************************************************************)
EXTENDS Integers, Sequences

CONSTANT Callers  \* jobs that fetch pages at the same time

VARIABLES
  transport,  \* NETTIAUTO_SOURCE_TRANSPORT
  call,       \* of each job: where its request is
  outcome,    \* of each job: what its last request came to
  line,       \* flaresolverr: the chain of requests, the first is running
  client,     \* impit: the promise of its client
  stopping,   \* the worker shuts down: its jobs' signals are aborted
  timedOut    \* of each job: the timeout of its request has aborted it

sourceVars == <<transport, call, outcome, line, client, stopping, timedOut>>

Reasons == {"request_timeout", "worker_shutdown", "network_error", "flaresolverr_error"}

SourceTypeOK ==
  /\ transport \in {"fetch", "impit", "flaresolverr"}
  /\ call \in [Callers -> {"none", "queued", "client", "fetching", "pacing"}]
  /\ outcome \in [Callers -> {"none", "ok"} \cup Reasons]
  /\ line \in Seq(Callers)
  /\ client \in {"none", "loading", "ready", "failed"}
  /\ stopping \in BOOLEAN
  /\ timedOut \in [Callers -> BOOLEAN]

SourceInit ==
  /\ transport \in {"fetch", "impit", "flaresolverr"}
  /\ call = [c \in Callers |-> "none"] /\ outcome = [c \in Callers |-> "none"]
  /\ line = <<>> /\ client = "none" /\ stopping = FALSE
  /\ timedOut = [c \in Callers |-> FALSE]

(* The timeout starts with the request, not with the wait in the chain.    *)
Started(c) ==
  /\ call' = [call EXCEPT ![c] = IF transport = "impit" THEN "client" ELSE "fetching"]
  /\ client' = IF transport = "impit" /\ client = "none" THEN "loading" ELSE client
  /\ timedOut' = [timedOut EXCEPT ![c] = FALSE]

(* A job asks for a page.                                                  *)
Request(c) ==
  /\ call[c] = "none"
  /\ outcome' = [outcome EXCEPT ![c] = "none"]
  /\ IF transport = "flaresolverr"
     THEN /\ line' = Append(line, c) /\ call' = [call EXCEPT ![c] = "queued"]
          /\ UNCHANGED <<client, timedOut>>
     ELSE Started(c) /\ UNCHANGED line
  /\ UNCHANGED <<transport, stopping>>

(* serializeNettiautoSource: the operation before has settled, either way. *)
Begin(c) ==
  /\ call[c] = "queued" /\ Head(line) = c
  /\ Started(c)
  /\ UNCHANGED <<transport, outcome, line, stopping>>

(* classifyRequestError *)
RequestError(c) == IF timedOut[c] THEN "request_timeout"
                   ELSE IF stopping THEN "worker_shutdown" ELSE "network_error"

(* A request that fails is paced like one that succeeds.                   *)
Concluded(c, reason) ==
  /\ call' = [call EXCEPT ![c] = "pacing"]
  /\ outcome' = [outcome EXCEPT ![c] = reason]
  /\ UNCHANGED <<transport, line, client, stopping, timedOut>>

(* loadClient: one promise for all requests.                               *)
ClientLoads(ok) ==
  /\ client = "loading"
  /\ client' = IF ok THEN "ready" ELSE "failed"
  /\ UNCHANGED <<transport, call, outcome, line, stopping, timedOut>>

ClientUsed(c) ==
  /\ call[c] = "client" /\ client = "ready"
  /\ call' = [call EXCEPT ![c] = "fetching"]
  /\ UNCHANGED <<transport, outcome, line, client, stopping, timedOut>>

(* A client that failed to load fails every later request.                 *)
ClientRefuses(c) == call[c] = "client" /\ client = "failed" /\ Concluded(c, RequestError(c))

(* fetch rejects once its signal is aborted.                               *)
Unaborted(c) == call[c] = "fetching" /\ ~timedOut[c] /\ ~stopping
Answer(c) == Unaborted(c) /\ Concluded(c, "ok")
SolverRefuses(c) == Unaborted(c) /\ transport = "flaresolverr" /\ Concluded(c, "flaresolverr_error")
NetworkFails(c) == call[c] = "fetching" /\ Concluded(c, RequestError(c))

TimesOut(c) ==
  /\ call[c] \in {"client", "fetching"} /\ ~timedOut[c]
  /\ timedOut' = [timedOut EXCEPT ![c] = TRUE]
  /\ UNCHANGED <<transport, call, outcome, line, client, stopping>>

Aborted(c) == call[c] = "fetching" /\ (timedOut[c] \/ stopping) /\ Concluded(c, RequestError(c))

(* paceSourceAttempt ends, and with it the call.                           *)
LeaveOnSuccess(c) == IF outcome[c] = "ok" THEN Tail(line) ELSE line
Leave(c) == Tail(line)

Paced(c) ==
  /\ call[c] = "pacing"
  /\ call' = [call EXCEPT ![c] = "none"]
  /\ line' = IF transport = "flaresolverr" THEN Leave(c) ELSE line
  /\ UNCHANGED <<transport, outcome, client, stopping, timedOut>>

StopWorker == ~stopping /\ stopping' = TRUE /\ UNCHANGED <<transport, call, outcome, line, client, timedOut>>

CallStep(c) == Begin(c) \/ ClientUsed(c) \/ ClientRefuses(c) \/ Aborted(c) \/ Paced(c)

SourceNext ==
  \/ \E c \in Callers : \/ Request(c) \/ CallStep(c) \/ Answer(c) \/ SolverRefuses(c)
                        \/ NetworkFails(c) \/ TimesOut(c)
  \/ \E ok \in BOOLEAN : ClientLoads(ok)
  \/ StopWorker

SourceSpec == SourceInit /\ [][SourceNext]_sourceVars

(* Timers fire, promises settle; the source need not answer.  Loading the  *)
(* client reads modules from disk and ends.                                *)
SourceFairness ==
  /\ \A c \in Callers : WF_sourceVars(CallStep(c)) /\ WF_sourceVars(TimesOut(c))
  /\ WF_sourceVars(\E ok \in BOOLEAN : ClientLoads(ok))

-----------------------------------------------------------------------------
(* Every request of a job ends, with an answer or a failure, though the    *)
(* source never answers and requests before it fail: neither a failure in  *)
(* the chain nor a broken client keeps a job waiting for ever, which holds *)
(* its queue (serializeNettiautoSource, createImpitNettiautoSource).       *)
FetchSettles == \A c \in Callers : call[c] # "none" ~> call[c] = "none"
=============================================================================
