-------------------------- MODULE CrawlerDashboard --------------------------
(***************************************************************************)
(* The admin's page of the crawler (admin-crawler-dashboard.tsx): it polls *)
(* the crawler's status and the detail backfill's by a chain of timers,    *)
(* which the visibility of the page interrupts, while commands of the      *)
(* admin post to the API and then refresh one of the two.                  *)
(*                                                                         *)
(* What the API answers is a version: how often that part of its state has *)
(* changed.  Diagnostics, notices and the layout of panels are left out.   *)
(***************************************************************************)
EXTENDS Naturals

CONSTANTS
  MaxChanges,  \* bounds the changes of each part of the crawler's state
  MaxFailures  \* bounds the requests of the page that fail

ASSUME DashboardConstants == MaxChanges \in Nat /\ MaxFailures \in Nat

VARIABLES
  truth,    \* the versions the API would answer now
  shown,    \* status and detailBackfill of the component
  timers,   \* how many timers will call poll
  poll,     \* the poll in flight: what its two requests have read
  command,  \* the commands, each with its pending flag, and what was read
  hidden,   \* document.hidden
  active,   \* the component is mounted
  failures

dashboardVars == <<truth, shown, timers, poll, command, hidden, active, failures>>

Parts == {"status", "backfill"}
Commands == {"run", "control", "backfill"}
Refreshed(c) == IF c = "backfill" THEN "backfill" ELSE "status"

PollVersions == 0 .. MaxChanges
Unread == MaxChanges + 1
Unasked == [p \in Parts |-> Unread]
Resting == [inFlight |-> FALSE, read |-> Unasked]
NoCommand == [pc |-> "ready", read |-> Unread]

DashboardTypeOK ==
  /\ truth \in [Parts -> PollVersions] /\ shown \in [Parts -> PollVersions]
  /\ timers \in Nat
  /\ poll \in [inFlight : BOOLEAN, read : [Parts -> PollVersions \cup {Unread}]]
  /\ command \in [Commands -> [pc : {"ready", "post", "refresh"}, read : PollVersions \cup {Unread}]]
  /\ hidden \in BOOLEAN /\ active \in BOOLEAN
  /\ failures \in 0 .. MaxFailures

(* The page comes with the state the server has rendered, and the effect   *)
(* has set the first timer; or nobody has opened it.                       *)
DashboardInit ==
  /\ truth = [p \in Parts |-> 0] /\ shown = truth
  /\ active \in BOOLEAN /\ timers = (IF active THEN 1 ELSE 0) /\ poll = Resting
  /\ command = [c \in Commands |-> NoCommand] /\ hidden \in BOOLEAN /\ failures = 0

(* The crawler goes on, or another admin does something.                   *)
CrawlerChanges(p) ==
  /\ truth[p] < MaxChanges
  /\ truth' = [truth EXCEPT ![p] = @ + 1]
  /\ UNCHANGED <<shown, timers, poll, command, hidden, active, failures>>

-----------------------------------------------------------------------------
(* poll, with n timers left: it returns when another is in flight and sets *)
(* a timer again when the page is hidden.                                  *)
Polls(n) ==
  IF poll.inFlight THEN timers' = n /\ UNCHANGED poll
  ELSE IF hidden' THEN timers' = n + 1 /\ UNCHANGED poll
  ELSE timers' = n /\ poll' = [inFlight |-> TRUE, read |-> Unasked]

TimerFires ==
  /\ active /\ timers > 0
  /\ UNCHANGED hidden /\ Polls(timers - 1)
  /\ UNCHANGED <<truth, shown, command, active, failures>>

PollReads(p) ==
  /\ poll.inFlight /\ poll.read[p] = Unread
  /\ poll' = [poll EXCEPT !.read[p] = truth[p]]
  /\ UNCHANGED <<truth, shown, timers, command, hidden, active, failures>>

(* The finally block: the next timer is set by a poll that failed too.     *)
TimersAfterUnlessFailed(failed) == IF active /\ ~failed THEN timers + 1 ELSE timers
TimersAfter(failed) == IF active THEN timers + 1 ELSE timers

PollReturns ==
  /\ poll.inFlight /\ \A p \in Parts : poll.read[p] # Unread
  /\ shown' = IF active THEN poll.read ELSE shown
  /\ poll' = Resting /\ timers' = TimersAfter(FALSE)
  /\ UNCHANGED <<truth, command, hidden, active, failures>>

(* Promise.all: one failure is enough.                                     *)
PollFails ==
  /\ poll.inFlight /\ failures < MaxFailures
  /\ failures' = failures + 1
  /\ poll' = Resting /\ timers' = TimersAfter(TRUE)
  /\ UNCHANGED <<truth, shown, command, hidden, active>>

(* clearTimeout knows one timer, the last that was set.                    *)
Uncleared(n) == n
Cleared(n) == IF n = 0 THEN 0 ELSE n - 1

(* handleVisibilityChange *)
VisibilityChanges ==
  /\ active /\ hidden' = ~hidden
  /\ IF ~hidden' /\ ~poll.inFlight THEN Polls(Cleared(timers)) ELSE UNCHANGED <<timers, poll>>
  /\ UNCHANGED <<truth, shown, command, active, failures>>

-----------------------------------------------------------------------------
(* runCrawlerNow, startDetailBackfill, controlDetailBackfill,              *)
(* updateCrawlerControl: a button is disabled while its flag is set.       *)
Click(c) ==
  /\ active /\ ~hidden /\ command[c].pc = "ready"
  /\ command' = [command EXCEPT ![c].pc = "post"]
  /\ UNCHANGED <<truth, shown, timers, poll, hidden, active, failures>>

Posted(c) ==
  /\ command[c].pc = "post"
  /\ \E version \in {truth[Refreshed(c)], truth[Refreshed(c)] + 1} \cap PollVersions :
       truth' = [truth EXCEPT ![Refreshed(c)] = version]
  /\ command' = [command EXCEPT ![c].pc = "refresh"]
  /\ UNCHANGED <<shown, timers, poll, hidden, active, failures>>

CommandReads(c) ==
  /\ command[c].pc = "refresh" /\ command[c].read = Unread
  /\ command' = [command EXCEPT ![c].read = truth[Refreshed(c)]]
  /\ UNCHANGED <<truth, shown, timers, poll, hidden, active, failures>>

CommandReturns(c) ==
  /\ command[c].read # Unread
  /\ shown' = IF active THEN [shown EXCEPT ![Refreshed(c)] = command[c].read] ELSE shown
  /\ command' = [command EXCEPT ![c] = NoCommand]
  /\ UNCHANGED <<truth, timers, poll, hidden, active, failures>>

(* The post is refused, maybe after it took effect, or the refresh fails.  *)
CommandFails(c) ==
  /\ command[c].pc # "ready" /\ failures < MaxFailures
  /\ failures' = failures + 1
  /\ command' = [command EXCEPT ![c] = NoCommand]
  /\ UNCHANGED <<truth, shown, timers, poll, hidden, active>>

(* A 401 leads to the login page; the effect is cleaned up.                *)
LeavePage ==
  /\ active /\ active' = FALSE /\ timers' = Cleared(timers)
  /\ UNCHANGED <<truth, shown, poll, command, hidden, failures>>

PollStep == TimerFires \/ (\E p \in Parts : PollReads(p)) \/ PollReturns \/ PollFails
CommandStep(c) == Posted(c) \/ CommandReads(c) \/ CommandReturns(c) \/ CommandFails(c)

DashboardNext ==
  \/ PollStep \/ VisibilityChanges \/ LeavePage
  \/ \E p \in Parts : CrawlerChanges(p)
  \/ \E c \in Commands : Click(c) \/ CommandStep(c)

DashboardSpec == DashboardInit /\ [][DashboardNext]_dashboardVars

(* Timers fire, and every request of the browser has an answer or fails.   *)
DashboardFairness ==
  /\ WF_dashboardVars(PollStep)
  /\ \A c \in Commands : WF_dashboardVars(CommandStep(c))

-----------------------------------------------------------------------------
(* While the page is open there is one chain of polls, never two and never *)
(* none: either a timer is set or a poll is in flight, however the page is *)
(* hidden and shown around it (poll, handleVisibilityChange).              *)
OneChain == IF active THEN timers + (IF poll.inFlight THEN 1 ELSE 0) = 1 ELSE timers = 0

(* On a page that stays in view, what is shown becomes what is true, once  *)
(* the crawler changes no more: late answers of polls and commands that    *)
(* overtake one another, failures and hours in the background leave no     *)
(* stale status behind.                                                    *)
DashboardConverges == <>[](active /\ ~hidden) => <>[](shown = truth)
=============================================================================
