----------------------------- MODULE ApiAccess -----------------------------
(***************************************************************************)
(* Access to the admin routes of the API: the fixed window rate limiter    *)
(* (rate-limit.ts) in front of the login and the signed session cookie     *)
(* (auth.ts).  The middleware of the limiter runs before the handler, so a *)
(* refused login looks at no password.                                     *)
(*                                                                         *)
(* Time is relative: a window and a session hold the ticks they have left. *)
(* One process serves the requests one after another.                      *)
(***************************************************************************)
EXTENDS Integers, Sequences, SequencesExt

CONSTANTS
  Clients,         \* addresses
  LoginLimit,      \* options.limit
  LoginWindow,     \* options.windowMs, in ticks
  LimiterEntries,  \* options.maxEntries
  SessionTtl       \* ADMIN_SESSION_TTL_SECONDS, in ticks

ASSUME AccessConstants == LoginLimit \in Nat \ {0} /\ LoginWindow \in Nat \ {0}
                          /\ LimiterEntries \in Nat \ {0} /\ SessionTtl \in Nat \ {0}

VARIABLES
  windows,   \* entries: the keys of the map in their order of insertion
  count,     \* entry.count of each key
  left,      \* the ticks until entry.resetAt
  session,   \* the ticks until the cookie of one browser expires, 0 without
  checked,   \* history: passwords checked up to so many ticks ago
  dropped,   \* history: ticks since a live window of the client was evicted
  entered    \* history: ticks since the right password was entered

accessVars == <<windows, count, left, session, checked, dropped, entered>>

Ages == 0 .. LoginWindow - 1
Burst == 2 * LoginLimit

AccessTypeOK ==
  /\ windows \in Seq(Clients) /\ IsInjective(windows) /\ Len(windows) <= LimiterEntries
  /\ count \in [Clients -> 0 .. LoginLimit + 1]
  /\ left \in [Clients -> 0 .. LoginWindow]
  /\ session \in 0 .. SessionTtl
  /\ checked \in [Clients -> [Ages -> 0 .. Burst + 1]]
  /\ dropped \in [Clients -> 0 .. LoginWindow + 1] /\ entered \in 0 .. SessionTtl

AccessInit ==
  /\ windows = <<>>
  /\ count = [c \in Clients |-> 0]
  /\ left = [c \in Clients |-> 0]
  /\ session = 0
  /\ checked = [c \in Clients |-> [a \in Ages |-> 0]]
  /\ dropped = [c \in Clients |-> LoginWindow + 1]
  /\ entered = SessionTtl

-----------------------------------------------------------------------------
UpTo(bound, n) == IF n < bound THEN n ELSE bound
Less(n) == IF n = 0 THEN 0 ELSE n - 1

KeptUnexpired(keys, ticks, i, size) == ticks[keys[i]] # 0
Keeps(keys, ticks, i, size) == ticks[keys[i]] # 0 /\ size <= LimiterEntries

(* prune goes through the map in its order, where a renewed key keeps its  *)
(* place, and deletes what has expired and what is too much; size is that  *)
(* of the map when it comes to the i-th key.                               *)
Survivors(keys, ticks) ==
  LET kept[i \in 0 .. Len(keys)] ==
        IF i = 0 THEN <<>>
        ELSE IF Keeps(keys, ticks, i, Len(keys) - (i - 1 - Len(kept[i - 1])))
             THEN Append(kept[i - 1], keys[i]) ELSE kept[i - 1]
  IN kept[Len(keys)]

(* check: entries count up to one over the limit, which is all that        *)
(* matters of them.                                                        *)
Check(c, first) ==
  LET known == c \in ToSet(windows)
      keys == IF known THEN windows ELSE Append(windows, c)
      opens == ~known \/ left[c] = 0
      ticks == IF opens THEN [left EXCEPT ![c] = LoginWindow] ELSE left
      counted == IF opens THEN first ELSE UpTo(LoginLimit + 1, count[c] + 1)
      survivors == IF Len(keys) > LimiterEntries THEN Survivors(keys, ticks) ELSE keys
      Gone(d) == d \notin ToSet(survivors)
  IN /\ windows' = survivors
     /\ count' = [d \in Clients |-> IF Gone(d) THEN 0 ELSE IF d = c THEN counted ELSE count[d]]
     /\ left' = [d \in Clients |-> IF Gone(d) THEN 0 ELSE ticks[d]]
     /\ dropped' = [d \in Clients |-> IF d \in ToSet(keys) /\ Gone(d) /\ ticks[d] # 0 THEN 0 ELSE dropped[d]]

CheckFree(c) == Check(c, 0)
CheckLogin(c) == Check(c, 1)

(* count and resetAt of the entry in use decide, evicted or not.           *)
Allowed(c) == left[c] = 0 \/ count[c] < LoginLimit

(* POST /admin/login *)
Login(c, correct) ==
  /\ CheckLogin(c)
  /\ IF ~Allowed(c) THEN UNCHANGED <<session, checked, entered>>
     ELSE /\ checked' = [checked EXCEPT ![c] = [a \in Ages |-> UpTo(Burst + 1, checked[c][a] + 1)]]
          /\ session' = IF correct THEN SessionTtl ELSE session
          /\ entered' = IF correct THEN 0 ELSE entered

(* POST /admin/logout empties the cookie.                                  *)
Logout ==
  /\ session' = 0
  /\ UNCHANGED <<windows, count, left, checked, dropped, entered>>

(* The count of a window that has expired is not read again.               *)
AccessTick ==
  /\ left' = [c \in Clients |-> Less(left[c])]
  /\ count' = [c \in Clients |-> IF left[c] <= 1 THEN 0 ELSE count[c]]
  /\ session' = Less(session)
  /\ checked' = [c \in Clients |-> [a \in Ages |-> IF a = 0 THEN 0 ELSE checked[c][a - 1]]]
  /\ dropped' = [c \in Clients |-> UpTo(LoginWindow + 1, dropped[c] + 1)]
  /\ entered' = UpTo(SessionTtl, entered + 1)
  /\ UNCHANGED windows

AccessNext ==
  \/ \E c \in Clients, correct \in BOOLEAN : Login(c, correct)
  \/ Logout \/ AccessTick

AccessSpec == AccessInit /\ [][AccessNext]_accessVars

(* Admin routes serve a browser whose cookie has not expired.              *)
Served == session > 0

-----------------------------------------------------------------------------
(* However its windows fall, and whatever other addresses do, no address   *)
(* has more than twice the limit of passwords checked within the length of *)
(* a window, unless a live window of its own was evicted by then (prune);  *)
(* and a browser is served only for SessionTtl after the right password    *)
(* was entered there: neither a refused nor a wrong login prolongs an      *)
(* older session (issueAdminSessionCookieValue).                           *)
LoginsBounded ==
  /\ \A c \in Clients : checked[c][LoginWindow - 1] > Burst => dropped[c] <= LoginWindow
  /\ Served => entered < SessionTtl
=============================================================================
