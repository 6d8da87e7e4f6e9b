--------------------------- MODULE ServicesProofs ---------------------------
(***************************************************************************)
(* Theorems about the components around the crawler, for any instance: the *)
(* admin dashboard keeps one chain of polls; a storage migration leaves    *)
(* nothing behind and changes no reader's answer; the browser service gets *)
(* one request at a time; logins in a window are limited; the entries of   *)
(* the response cache are accounted for; at most one detail backfill run   *)
(* is live.  The last section proves them of the composition.              *)
(***************************************************************************)
EXTENDS MCServices, FiniteSetTheorems, WellFoundedInduction, TLAPS

-----------------------------------------------------------------------------
(* Numbers and tables.                                                     *)

\* A set of natural numbers that is not empty has a least one.
LEMMA LeastOf ==
  ASSUME NEW S \in SUBSET Nat, S # {}
  PROVE  \E m \in S : \A k \in S : m <= k
<1>1. PICK m \in S : \A k \in S : ~(<<k, m>> \in OpToRel(<, Nat))
  BY NatLessThanWellFounded, WFMin
<1>2. ASSUME NEW k \in S PROVE m <= k
  <2>1. <<k, m>> \in Nat \X Nat /\ <<k, m>>[1] = k /\ <<k, m>>[2] = m
    OBVIOUS
  <2>2. ~(k < m)
    BY <1>1, <2>1 DEF OpToRel
  <2> QED
    BY <2>2
<1> QED
  BY <1>2

\* What is computed from one number to the next has a table.
LEMMA Iterated ==
  ASSUME NEW X, NEW x \in X, NEW n \in Nat, NEW step \in [1 .. n -> [X -> X]]
  PROVE  \E g \in [0 .. n -> X] : g[0] = x /\ \A i \in 1 .. n : g[i] = step[i][g[i - 1]]
<1> DEFINE Table(m, g) == g \in [0 .. m -> X] /\ g[0] = x /\ \A i \in 1 .. m : g[i] = step[i][g[i - 1]]
           missing == {m \in 0 .. n : \A g : ~Table(m, g)}
<1>1. SUFFICES ASSUME missing # {} PROVE FALSE
  <2>1. n \notin missing => \E g : Table(n, g)
    OBVIOUS
  <2> QED
    BY <2>1
<1>2. missing \in SUBSET Nat
  OBVIOUS
<1>3. PICK m \in missing : \A k \in missing : m <= k
  <2> HIDE DEF missing
  <2> QED
    BY <1>1, <1>2, LeastOf
<1>4. CASE m = 0
  <2> DEFINE g == [i \in 0 .. 0 |-> x]
  <2>1. Table(0, g)
    OBVIOUS
  <2> QED
    BY <1>3, <1>4, <2>1
<1>5. CASE m # 0
  <2>1. m \in 1 .. n /\ m - 1 \in 0 .. n /\ m - 1 \notin missing
    BY <1>3, <1>5
  <2>2. PICK g : Table(m - 1, g)
    BY <2>1
  <2> DEFINE h == [i \in 0 .. m |-> IF i = m THEN step[m][g[m - 1]] ELSE g[i]]
  <2>3. \A i \in 0 .. m - 1 : h[i] = g[i] /\ g[i] \in X
    BY <2>1, <2>2
  <2>4. h[m] = step[m][g[m - 1]] /\ h[m] \in X
    <3>1. m - 1 \in 0 .. m - 1
      BY <2>1
    <3>2. g[m - 1] \in X
      BY <2>3, <3>1
    <3>3. h[m] = step[m][g[m - 1]]
      BY <2>1
    <3> QED
      BY <2>1, <3>2, <3>3
  <2>5. h \in [0 .. m -> X]
    <3>1. \A i \in 0 .. m : i = m \/ i \in 0 .. m - 1
      BY <2>1
    <3>2. \A i \in 0 .. m : h[i] \in X
      BY <2>3, <2>4, <3>1
    <3>3. h = [i \in 0 .. m |-> h[i]]
      OBVIOUS
    <3> HIDE DEF h
    <3> QED
      BY <3>2, <3>3
  <2>6. \A i \in 1 .. m : h[i] = step[i][h[i - 1]]
    <3> SUFFICES ASSUME NEW i \in 1 .. m PROVE h[i] = step[i][h[i - 1]]
      OBVIOUS
    <3> HIDE DEF h
    <3>1. CASE i = m
      BY <2>1, <2>3, <2>4, <3>1
    <3>2. CASE i # m
      <4>1. i \in 1 .. m - 1 /\ i - 1 \in 0 .. m - 1 /\ i \in 0 .. m - 1
        BY <2>1, <3>2
      <4> QED
        BY <2>2, <2>3, <4>1
    <3> QED
      BY <3>1, <3>2
  <2>7. h[0] = x
    BY <2>1, <2>2, <2>3
  <2>8. Table(m, h)
    <3> HIDE DEF h
    <3> QED
      BY <2>5, <2>6, <2>7
  <2> QED
    BY <1>3, <2>8
<1> QED
  BY <1>4, <1>5

-----------------------------------------------------------------------------
(* CrawlerDashboard.                                                       *)

\* The initial page is typed.
LEMMA DashboardInitTyped == DashboardInit => DashboardTypeOK
<1> SUFFICES ASSUME DashboardInit PROVE DashboardTypeOK
  OBVIOUS
<1> USE DashboardConstants
<1>1. /\ truth \in [Parts -> PollVersions] /\ shown \in [Parts -> PollVersions]
      /\ timers \in Nat /\ failures \in 0 .. MaxFailures
  BY DEF DashboardInit, PollVersions
<1>2. poll \in [inFlight : BOOLEAN, read : [Parts -> PollVersions \cup {Unread}]]
  BY DEF DashboardInit, Resting, Unasked
<1>3. command \in [Commands -> [pc : {"ready", "post", "refresh"}, read : PollVersions \cup {Unread}]]
  BY DEF DashboardInit, NoCommand
<1>4. hidden \in BOOLEAN /\ active \in BOOLEAN
  BY Zenon DEF DashboardInit
<1> QED
  BY <1>1, <1>2, <1>3, <1>4 DEF DashboardTypeOK

(* Parts of DashboardTypeOK, which different steps disturb.                *)
PollTyped == poll \in [inFlight : BOOLEAN, read : [Parts -> PollVersions \cup {Unread}]]
CommandsTyped ==
  command \in [Commands -> [pc : {"ready", "post", "refresh"}, read : PollVersions \cup {Unread}]]
VersionsTyped ==
  /\ truth \in [Parts -> PollVersions] /\ shown \in [Parts -> PollVersions]
  /\ timers \in Nat /\ failures \in 0 .. MaxFailures

\* Every step keeps the versions, the counts and the requests typed.
LEMMA DashboardStepTyped == DashboardTypeOK /\ [DashboardNext]_dashboardVars => DashboardTypeOK'
<1> SUFFICES ASSUME DashboardTypeOK, [DashboardNext]_dashboardVars PROVE DashboardTypeOK'
  OBVIOUS
<1> USE DashboardConstants
<1>0. /\ PollTyped /\ CommandsTyped /\ VersionsTyped /\ hidden \in BOOLEAN /\ active \in BOOLEAN
      /\ Resting \in [inFlight : BOOLEAN, read : [Parts -> PollVersions \cup {Unread}]]
      /\ NoCommand \in [pc : {"ready", "post", "refresh"}, read : PollVersions \cup {Unread}]
      /\ \A c \in Commands : Refreshed(c) \in Parts
  BY DEF DashboardTypeOK, PollTyped, CommandsTyped, VersionsTyped, Resting, Unasked, NoCommand, Refreshed, Parts
<1>1. hidden' \in BOOLEAN /\ active' \in BOOLEAN
  BY <1>0, Zenon DEF DashboardNext, PollStep, CommandStep, TimerFires, PollReads, PollReturns, PollFails,
     VisibilityChanges, LeavePage, CrawlerChanges, Click, Posted, CommandReads, CommandReturns, CommandFails,
     dashboardVars
<1>2. PollTyped'
  <2>0. [inFlight |-> TRUE, read |-> Unasked] \in [inFlight : BOOLEAN, read : [Parts -> PollVersions \cup {Unread}]]
    BY DEF Unasked
  <2>1. CASE UNCHANGED poll \/ poll' = Resting \/ poll' = [inFlight |-> TRUE, read |-> Unasked]
    <3> DEFINE type == [inFlight : BOOLEAN, read : [Parts -> PollVersions \cup {Unread}]]
    <3>1. poll \in type /\ Resting \in type /\ [inFlight |-> TRUE, read |-> Unasked] \in type
      BY <1>0, <2>0 DEF PollTyped
    <3>2. poll' \in type
      <4> HIDE DEF type
      <4> QED
        BY ONLY <2>1, <3>1
    <3> QED
      BY ONLY <3>2 DEF PollTyped, PollVersions, Unread
  <2>2. ASSUME NEW p \in Parts, PollReads(p) PROVE PollTyped'
    BY <2>2, <1>0 DEF PollReads, PollTyped, VersionsTyped
  <2> QED
    BY <2>1, <2>2 DEF DashboardNext, PollStep, CommandStep, TimerFires, PollReturns, PollFails, Polls,
       VisibilityChanges, LeavePage, CrawlerChanges, Click, Posted, CommandReads, CommandReturns, CommandFails,
       dashboardVars
<1>3. CommandsTyped'
  <2>1. CASE UNCHANGED command
    BY <2>1, <1>0 DEF CommandsTyped
  <2>2. ASSUME NEW c \in Commands, Click(c) \/ CommandStep(c) PROVE CommandsTyped'
    BY <2>2, <1>0 DEF CommandsTyped, Click, CommandStep, Posted, CommandReads, CommandReturns, CommandFails,
       VersionsTyped
  <2> QED
    BY <2>1, <2>2 DEF DashboardNext, PollStep, TimerFires, PollReads, PollReturns, PollFails,
       VisibilityChanges, LeavePage, CrawlerChanges, dashboardVars
<1>4. VersionsTyped'
  <2>1. CASE PollStep
    <3>1. ASSUME PollReturns PROVE poll.read \in [Parts -> PollVersions]
      BY <3>1, <1>0 DEF PollReturns, PollTyped
    <3> QED
      BY <2>1, <3>1, <1>0 DEF PollStep, TimerFires, PollReads, PollReturns, PollFails, Polls, VersionsTyped, TimersAfter
  <2>2. ASSUME NEW c \in Commands, Click(c) \/ CommandStep(c) PROVE VersionsTyped'
    <3>1. ASSUME CommandReturns(c) PROVE command[c].read \in PollVersions
      BY <3>1, <1>0 DEF CommandReturns, CommandsTyped
    <3> QED
      BY <2>2, <3>1, <1>0 DEF Click, CommandStep, Posted, CommandReads, CommandReturns, CommandFails, VersionsTyped
  <2>3. CASE VisibilityChanges \/ LeavePage
    BY <2>3, <1>0 DEF VisibilityChanges, LeavePage, Polls, Cleared, VersionsTyped
  <2>4. ASSUME NEW p \in Parts, CrawlerChanges(p) PROVE VersionsTyped'
    BY <2>4, <1>0 DEF CrawlerChanges, VersionsTyped, PollVersions
  <2>5. CASE UNCHANGED dashboardVars
    BY <2>5, <1>0 DEF VersionsTyped, dashboardVars
  <2> QED
    BY <2>1, <2>2, <2>3, <2>4, <2>5 DEF DashboardNext
<1> QED
  BY <1>1, <1>2, <1>3, <1>4 DEF DashboardTypeOK, PollTyped, CommandsTyped, VersionsTyped

\* The types of the dashboard in every behaviour.
LEMMA DashboardTyped == DashboardSpec => []DashboardTypeOK
  BY DashboardInitTyped, DashboardStepTyped, PTL DEF DashboardSpec

(* While the page is open one timer is set or one poll is in flight, never *)
(* both and never neither; a page that was left sets no timer again.       *)
THEOREM OnePollingChain == DashboardSpec => []OneChain
<1>1. DashboardInit => OneChain
  BY DEF DashboardInit, OneChain, Resting
<1>2. DashboardTypeOK /\ OneChain /\ [DashboardNext]_dashboardVars => OneChain'
  <2> SUFFICES ASSUME DashboardTypeOK, OneChain, [DashboardNext]_dashboardVars PROVE OneChain'
    OBVIOUS
  <2>0. timers \in Nat /\ poll \in [inFlight : BOOLEAN, read : [Parts -> PollVersions \cup {Unread}]]
    BY DEF DashboardTypeOK
  <2>1. CASE TimerFires
    BY <2>0, <2>1 DEF TimerFires, Polls, OneChain
  <2>2. ASSUME NEW p \in Parts, PollReads(p) PROVE OneChain'
    BY <2>0, <2>2 DEF PollReads, OneChain
  <2>3. CASE PollReturns \/ PollFails
    BY <2>0, <2>3 DEF PollReturns, PollFails, TimersAfter, Resting, OneChain
  <2>4. CASE VisibilityChanges
    BY <2>0, <2>4 DEF VisibilityChanges, Polls, Cleared, OneChain
  <2>5. CASE LeavePage
    BY <2>0, <2>5 DEF LeavePage, Cleared, OneChain
  <2>6. CASE UNCHANGED <<timers, poll, active>>
    BY <2>6 DEF OneChain
  <2> QED
    BY <2>1, <2>2, <2>3, <2>4, <2>5, <2>6 DEF DashboardNext, PollStep, CrawlerChanges, Click, CommandStep, Posted,
       CommandReads, CommandReturns, CommandFails, dashboardVars
<1> QED
  BY <1>1, <1>2, DashboardTyped, PTL DEF DashboardSpec

-----------------------------------------------------------------------------
(* StorageMigration: ids are bounded sets of numbers.                      *)

\* A bounded set of them has a greatest one.
LEMMA GreatestOf ==
  ASSUME NEW n \in Nat, NEW S \in SUBSET (1 .. n), S # {}
  PROVE  \E m \in S : \A k \in S : k <= m
<1> DEFINE D == {e \in Nat : n - e \in S}
<1>0. \A k \in S : k \in Nat /\ n - k \in D
  BY Z3
<1>1. D \in SUBSET Nat /\ D # {}
  BY <1>0
<1>2. PICK d \in D : \A e \in D : d <= e
  BY <1>1, LeastOf
<1>3. n - d \in S /\ d \in Nat
  BY <1>2
<1> HIDE DEF D
<1>4. ASSUME NEW k \in S PROVE k <= n - d
  <2>1. k \in Nat /\ n - k \in D
    BY <1>0
  <2>2. d <= n - k
    BY <1>2, <2>1
  <2> QED
    BY <1>3, <2>1, <2>2
<1> QED
  BY <1>3, <1>4

\* Sets of ids are finite.
LEMMA IdsFinite ==
  /\ Rows \in Nat /\ IsFiniteSet(Ids) /\ Cardinality(Ids) = Rows
  /\ \A S \in SUBSET Ids : /\ IsFiniteSet(S) /\ Cardinality(S) \in 0 .. Rows
<1>1. Rows \in Nat
  BY StorageConstants
<1>2. IsFiniteSet(Ids) /\ Cardinality(Ids) = Rows
  BY <1>1, FS_Interval DEF Ids
<1>3. ASSUME NEW S \in SUBSET Ids PROVE IsFiniteSet(S) /\ Cardinality(S) \in 0 .. Rows
  <2>1. IsFiniteSet(S) /\ Cardinality(S) <= Rows
    BY <1>2, FS_Subset
  <2>2. Cardinality(S) \in Nat
    BY <2>1, FS_CardinalityType
  <2> QED
    BY <1>1, <2>1, <2>2
<1> QED
  BY <1>1, <1>2, <1>3

\* What a batch leaves out comes after what it takes.
LEMMA FirstOfIsFirst ==
  ASSUME NEW S \in SUBSET Ids, NEW n \in Nat,
         NEW i \in S, i \notin FirstOf(S, n), NEW j \in FirstOf(S, n)
  PROVE  j < i
<1> SUFFICES ASSUME ~(j < i) PROVE FALSE
  OBVIOUS
<1>1. i \in Nat /\ j \in Nat /\ i <= j
  BY IdsFinite DEF FirstOf, Ids
<1> DEFINE below(k) == {x \in S : x < k}
<1>2. below(i) \in SUBSET below(j) /\ below(j) \in SUBSET Ids
  <2>1. \A x \in S : x \in Nat /\ x \in Ids
    BY IdsFinite DEF Ids
  <2>2. ASSUME NEW x \in below(i) PROVE x \in below(j)
    <3>1. x \in S /\ x < i
      OBVIOUS
    <3> QED
      BY <3>1, <2>1, <1>1
  <2>3. \A x \in below(j) : x \in S
    OBVIOUS
  <2> HIDE DEF below
  <2> QED
    BY <2>1, <2>2, <2>3
<1>3. Cardinality(below(i)) <= Cardinality(below(j))
      /\ Cardinality(below(i)) \in Nat /\ Cardinality(below(j)) \in Nat
  BY <1>2, IdsFinite, FS_Subset
<1>4. Cardinality(below(j)) < n /\ ~(Cardinality(below(i)) < n)
  BY DEF FirstOf
<1> HIDE DEF below
<1> QED
  BY <1>3, <1>4

\* A batch that is not full has taken all.
LEMMA FirstOfAll ==
  ASSUME NEW S \in SUBSET Ids, NEW n \in Nat, Cardinality(FirstOf(S, n)) < n
  PROVE  FirstOf(S, n) = S
<1> DEFINE rest == S \ FirstOf(S, n)
<1> SUFFICES ASSUME rest # {} PROVE FALSE
  BY DEF FirstOf
<1>1. rest \in SUBSET Nat
  <2>1. \A x \in S : x \in Nat
    BY IdsFinite DEF Ids
  <2> QED
    BY <2>1
<1>2. PICK m \in rest : \A k \in rest : m <= k
  BY <1>1, LeastOf
<1> DEFINE below == {x \in S : x < m}
<1>3. ASSUME NEW x \in below PROVE x \in FirstOf(S, n)
  <2>1. x \in Nat /\ m \in Nat /\ x < m
    BY <1>1, IdsFinite DEF Ids
  <2>2. x \notin rest
    BY <1>2, <2>1
  <2> QED
    BY <2>2
<1>4. below \in SUBSET FirstOf(S, n) /\ FirstOf(S, n) \in SUBSET Ids
  BY <1>3 DEF FirstOf
<1>5. Cardinality(below) <= Cardinality(FirstOf(S, n))
      /\ Cardinality(below) \in Nat /\ Cardinality(FirstOf(S, n)) \in Nat
  BY <1>4, IdsFinite, FS_Subset
<1>6. ~(Cardinality(below) < n)
  BY DEF FirstOf
<1> HIDE DEF below
<1> QED
  BY <1>5, <1>6

-----------------------------------------------------------------------------
(* The inductive invariant.                                                *)

\* A batch that is under way has read rows of a stage that is not over, and
\* they are still what it has read, except the rows of listings.
BatchSound ==
  batch.pc = "read" =>
    /\ progress.status \in {"absent", "running"}
    /\ \A i \in Ids : batch.copy[i] # 0 =>
         /\ i > progress.cursor
         /\ stage # "legacy_images" => kept[i] = batch.copy[i]

\* Writers have written different rows, which may take another version.
WritersSound ==
  \A w \in OldWriters : writer[w].pc = "wrote" =>
    /\ stage # "v2_details"
    /\ stage = "raw_evidence" => progress.status # "completed" /\ kept[writer[w].id] = 0
    /\ kept[writer[w].id] < Versions
    /\ \A v \in OldWriters \ {w} : writer[v].pc = "wrote" => writer[v].id # writer[w].id

\* Failures are counted once, for rows the cursor has passed.
ErrorsSound ==
  /\ progress.errors <= progress.cursor
  /\ stage # "v2_details" => progress.errors = 0
  /\ progress.status = "completed" => progress.errors = 0

\* The rows the cursor has passed are done or counted as failed, and those
\* a batch has left out are done, or come after it in a batch that is full.
DetailsSound ==
  stage = "v2_details" =>
    /\ kept \in [Ids -> {0, Usable, Unusable}]
    /\ \A i \in Ids : i <= progress.cursor =>
         /\ kept[i] = Usable => moved[i] # 0
         /\ progress.errors = 0 /\ kept[i] = Unusable => moved[i] # 0
    /\ progress.status \in {"completed", "partial"} =>
         \A i \in Ids : i > progress.cursor /\ kept[i] # 0 => moved[i] # 0
    /\ batch.pc = "read" =>
         \A i \in Ids : i > progress.cursor /\ kept[i] # 0 /\ batch.copy[i] = 0 /\ moved[i] = 0 =>
           ~Exhausted /\ \A j \in Picked : j < i

\* A completed raw stage has no inline row.
RawSound ==
  stage = "raw_evidence" /\ progress.status = "completed" => \A i \in Ids : kept[i] = 0

StorageInv ==
  /\ StorageTypeOK /\ BatchSound /\ WritersSound /\ ErrorsSound /\ DetailsSound /\ RawSound

\* The initial state of every stage.
LEMMA StorageInvInit == StorageInit => StorageInv
<1> SUFFICES ASSUME StorageInit PROVE StorageInv
  OBVIOUS
<1> USE StorageConstants DEF StorageInit
<1>1. StorageTypeOK
  <2>1. kept \in [Ids -> 0 .. Versions]
    BY DEF Unusable
  <2>2. progress \in ProgressRow
    BY DEF ProgressRow, FirstId
  <2>3. batch \in [pc : {"idle", "read", "committed"}, key : 0 .. Rows, copy : [Ids -> 0 .. Versions]]
    BY DEF NoBatch, Nothing, FirstId
  <2>4. writer \in [OldWriters -> [pc : {"idle", "blocked", "wrote"}, id : Ids, shares : BOOLEAN]]
    BY DEF NoWrite, Ids
  <2> QED
    BY <2>1, <2>2, <2>3, <2>4 DEF StorageTypeOK, Nothing, FirstId
<1>2. BatchSound
  BY DEF BatchSound, NoBatch
<1>3. WritersSound
  BY DEF WritersSound, NoWrite
<1>4. ErrorsSound
  BY DEF ErrorsSound, FirstId
<1>5. DetailsSound
  BY DEF DetailsSound, FirstId, NoBatch, Ids, Usable, Unusable
<1>6. RawSound
  BY DEF RawSound
<1> QED
  BY <1>1, <1>2, <1>3, <1>4, <1>5, <1>6 DEF StorageInv

\* The rows a batch has read, and the last of them.
LEMMA PickedRows ==
  ASSUME StorageTypeOK
  PROVE  /\ Picked \in SUBSET Ids /\ Cardinality(Picked) \in 0 .. Rows
         /\ LastPicked \in 0 .. Rows
         /\ Picked = {} => LastPicked = progress.cursor
         /\ Picked # {} => LastPicked \in Picked /\ \A j \in Picked : j <= LastPicked
<1>1. Picked \in SUBSET Ids /\ Cardinality(Picked) \in 0 .. Rows
  <2>1. Picked \in SUBSET Ids
    BY DEF Picked
  <2> QED
    BY <2>1, IdsFinite
<1>2. CASE Picked = {}
  BY <1>1, <1>2 DEF LastPicked, StorageTypeOK, ProgressRow
<1>3. CASE Picked # {}
  <2>1. \E m \in Picked : \A k \in Picked : k <= m
    BY <1>1, <1>3, GreatestOf, IdsFinite DEF Ids
  <2>2. LastPicked = CHOOSE i \in Picked : \A j \in Picked : j <= i
    BY <1>3 DEF LastPicked
  <2>3. LastPicked \in Picked /\ \A j \in Picked : j <= LastPicked
    BY <2>1, <2>2
  <2> QED
    BY <1>1, <1>3, <2>3, IdsFinite DEF Ids
<1> QED
  BY <1>2, <1>3

\* What the last statement of a batch writes.
LEMMA AdvanceRow ==
  ASSUME StorageTypeOK, NEW cursor \in 0 .. Rows, NEW errors \in Nat, progress.errors + errors <= Rows,
         NEW finished \in BOOLEAN, Advance(cursor, errors, finished)
  PROVE  /\ progress' \in ProgressRow
         /\ progress'.cursor = cursor /\ progress'.errors = progress.errors + errors
         /\ ~finished => progress'.status = "running"
         /\ finished => progress'.status \in {"ready", "completed", "partial"}
         /\ progress'.status = "completed" => progress'.errors = 0
         /\ progress'.status = "completed" => finished
         /\ chain' \subseteq 0 .. Rows
         /\ batch'.pc = "committed"
         /\ batch' \in [pc : {"idle", "read", "committed"}, key : 0 .. Rows, copy : [Ids -> 0 .. Versions]]
<1> DEFINE st == IF ~finished THEN "running"
                 ELSE IF progress.errors + errors > 0 THEN "partial"
                 ELSE IF stage = "legacy_images" THEN "ready" ELSE "completed"
           n == progress.processed + Cardinality(Picked)
           e == progress.errors + errors
<1>1. progress' = [status |-> st, cursor |-> cursor, processed |-> n, errors |-> e]
  BY DEF Advance
<1>2. /\ st \in {"running", "partial", "ready", "completed"}
      /\ ~finished => st = "running"
      /\ finished => st \in {"ready", "completed", "partial"}
  OBVIOUS
<1>3. progress.errors \in 0 .. Rows /\ progress.processed \in Nat /\ Rows \in Nat
  BY StorageConstants DEF StorageTypeOK, ProgressRow
<1>4. n \in Nat /\ e \in 0 .. Rows
  BY <1>3, PickedRows
<1>5. st = "completed" => e = 0 /\ finished
  BY <1>3
<1>6. chain' \subseteq 0 .. Rows
  BY DEF Advance, StorageTypeOK
<1>7. Nothing \in [Ids -> 0 .. Versions]
  BY StorageConstants DEF Nothing
<1>8. batch'.pc = "committed"
      /\ batch' \in [pc : {"idle", "read", "committed"}, key : 0 .. Rows, copy : [Ids -> 0 .. Versions]]
  BY <1>7 DEF Advance, StorageTypeOK
<1> HIDE DEF st, n, e
<1>9. /\ progress' \in ProgressRow
      /\ progress'.cursor = cursor /\ progress'.errors = e /\ progress'.status = st
  BY <1>1, <1>2, <1>4 DEF ProgressRow
<1> QED
  BY <1>2, <1>5, <1>6, <1>8, <1>9 DEF e

-----------------------------------------------------------------------------
(* The steps of a batch.                                                   *)

\* A batch reads the first rows after the cursor.
LEMMA BeginBatchSound ==
  ASSUME StorageInv, NEW k \in chain, BeginBatch(k)
  PROVE  StorageInv'
<1> USE StorageConstants
<1> DEFINE picked == FirstOf(Eligible, BatchSize)
           read == [i \in Ids |-> IF i \in picked THEN kept[i] ELSE 0]
<1>1. StorageTypeOK /\ UNCHANGED <<stage, kept, moved, progress, chain, writer, deaths>>
      /\ k \in 0 .. Rows
  <2>1. StorageTypeOK
    BY DEF StorageInv
  <2>2. UNCHANGED <<stage, kept, moved, progress, chain, writer, deaths>>
    BY DEF BeginBatch
  <2> QED
    BY <2>1, <2>2 DEF StorageTypeOK
<1>2. picked \in SUBSET Eligible /\ Eligible \in SUBSET Ids
  BY DEF FirstOf, Eligible
<1>3. read \in [Ids -> 0 .. Versions] /\ Nothing \in [Ids -> 0 .. Versions]
  BY <1>1 DEF StorageTypeOK, Nothing
<1>4. \/ /\ progress.status \in {"absent", "running"}
         /\ batch' = [pc |-> "read", key |-> k, copy |-> read]
      \/ batch' = [pc |-> "committed", key |-> k, copy |-> Nothing]
  BY DEF BeginBatch
<1> HIDE DEF read
<1>5. batch' \in [pc : {"idle", "read", "committed"}, key : 0 .. Rows, copy : [Ids -> 0 .. Versions]]
  BY <1>1, <1>3, <1>4
<1>6. batch'.pc = "read" => progress.status \in {"absent", "running"} /\ batch'.copy = read
  BY <1>4
<1>7. \A i \in Ids : read[i] = IF i \in picked THEN kept[i] ELSE 0
  BY DEF read
<1>8. \A i \in Eligible : i > progress.cursor /\ kept[i] # 0 /\ (stage = "v2_details" => moved[i] = 0)
  BY DEF Eligible
<1>9. batch'.pc = "read" => Picked' = picked
  BY <1>2, <1>6, <1>7, <1>8 DEF Picked
<1> HIDE DEF picked
<1>10. StorageTypeOK'
  BY <1>1, <1>5 DEF StorageTypeOK
<1>11. BatchSound'
  BY <1>1, <1>2, <1>6, <1>7, <1>8 DEF BatchSound
<1>12. WritersSound' /\ ErrorsSound' /\ RawSound'
  BY <1>1 DEF StorageInv, WritersSound, ErrorsSound, RawSound
<1>13. DetailsSound'
  <2> SUFFICES ASSUME stage = "v2_details", batch'.pc = "read", NEW i \in Ids,
                      i > progress.cursor, kept[i] # 0, read[i] = 0, moved[i] = 0
               PROVE  ~Exhausted' /\ \A j \in Picked' : j < i
    BY <1>1, <1>6 DEF StorageInv, DetailsSound
  <2>1. i \in Eligible /\ i \notin picked
    BY <1>7 DEF Eligible
  <2>2. \A j \in picked : j < i
    BY <1>2, <2>1, FirstOfIsFirst DEF picked
  <2>3. ~(Cardinality(picked) < BatchSize)
    BY <1>2, <2>1, FirstOfAll DEF picked
  <2> QED
    BY <1>9, <2>2, <2>3 DEF Exhausted
<1> QED
  BY <1>10, <1>11, <1>12, <1>13 DEF StorageInv

\* A raw batch moves what it has read, and the last one leaves nothing.
LEMMA PackRawSound ==
  ASSUME StorageInv, PackRaw
  PROVE  StorageInv'
<1> DEFINE cursor == IF Behind THEN FirstId ELSE LastPicked
           finished == Exhausted /\ ~Behind
<1>0. StorageTypeOK /\ stage = "raw_evidence" /\ progress.errors = 0 /\ Rows \in Nat
  BY StorageConstants DEF StorageInv, PackRaw, PackRawBatch, ErrorsSound
<1>1. /\ batch.pc = "read" /\ (Exhausted => TableFree) /\ kept' = Pack
      /\ moved' = [i \in Ids |-> IF i \in Picked THEN batch.copy[i] ELSE moved[i]]
      /\ Advance(cursor, 0, finished)
      /\ UNCHANGED <<stage, writer, deaths>>
  BY DEF PackRaw, PackRawBatch, Advance
<1>2. cursor \in 0 .. Rows /\ finished \in BOOLEAN
  BY <1>0, PickedRows DEF FirstId, Behind, Exhausted
<1> HIDE DEF cursor, finished
<1>3. /\ progress' \in ProgressRow
      /\ progress'.cursor = cursor /\ progress'.errors = 0
      /\ progress'.status = "completed" => finished
      /\ chain' \subseteq 0 .. Rows /\ batch'.pc = "committed"
      /\ batch' \in [pc : {"idle", "read", "committed"}, key : 0 .. Rows, copy : [Ids -> 0 .. Versions]]
  BY <1>0, <1>1, <1>2, AdvanceRow
<1>4. /\ kept' \in [Ids -> 0 .. Versions] /\ moved' \in [Ids -> 0 .. Versions]
      /\ \A i \in Ids : kept'[i] = 0 \/ kept'[i] = kept[i]
  BY <1>0, <1>1, StorageConstants DEF Pack, StorageTypeOK
<1>5. StorageTypeOK'
  BY <1>0, <1>1, <1>3, <1>4 DEF StorageTypeOK
<1>6. BatchSound'
  BY <1>3 DEF BatchSound
<1>7. finished => \A w \in OldWriters : writer[w].pc = "idle"
  BY <1>1 DEF TableFree, finished
<1>8. WritersSound'
  <2>1. \A w \in OldWriters : writer[w].id \in Ids
    BY <1>0 DEF StorageTypeOK
  <2>2. \A w \in OldWriters : writer[w].pc = "wrote" =>
          kept'[writer[w].id] = 0 /\ 0 < Versions
    BY <1>0, <1>4, <2>1, StorageConstants DEF StorageInv, WritersSound
  <2> QED
    BY <1>0, <1>1, <1>3, <1>7, <2>2 DEF StorageInv, WritersSound
<1>9. ErrorsSound'
  BY <1>0, <1>1, <1>2, <1>3 DEF ErrorsSound
<1>10. DetailsSound'
  BY <1>0, <1>1 DEF DetailsSound
<1>11. RawSound'
  BY <1>1, <1>3 DEF RawSound, Behind, finished
<1> QED
  BY <1>5, <1>6, <1>8, <1>9, <1>10, <1>11 DEF StorageInv

\* A batch of images copies the rows it has read.
LEMMA PackImagesSound ==
  ASSUME StorageInv, PackImages
  PROVE  StorageInv'
<1>0. StorageTypeOK /\ stage = "legacy_images" /\ progress.errors = 0 /\ Rows \in Nat
  BY StorageConstants DEF StorageInv, PackImages, ErrorsSound
<1>1. /\ moved' = [i \in Ids |-> IF i \in Picked THEN batch.copy[i] ELSE moved[i]]
      /\ Advance(LastPicked, 0, Exhausted)
      /\ UNCHANGED <<stage, kept, writer, deaths>>
  BY DEF PackImages, Advance
<1>2. LastPicked \in 0 .. Rows /\ Exhausted \in BOOLEAN
  BY <1>0, PickedRows DEF Exhausted
<1>3. /\ progress' \in ProgressRow /\ progress'.cursor = LastPicked /\ progress'.errors = 0
      /\ chain' \subseteq 0 .. Rows /\ batch'.pc = "committed"
      /\ batch' \in [pc : {"idle", "read", "committed"}, key : 0 .. Rows, copy : [Ids -> 0 .. Versions]]
  BY <1>0, <1>1, <1>2, AdvanceRow
<1>4. moved' \in [Ids -> 0 .. Versions]
  BY <1>0, <1>1 DEF StorageTypeOK
<1>5. StorageTypeOK'
  BY <1>0, <1>1, <1>3, <1>4 DEF StorageTypeOK
<1>6. BatchSound' /\ ErrorsSound' /\ DetailsSound' /\ RawSound'
  BY <1>0, <1>1, <1>2, <1>3 DEF BatchSound, ErrorsSound, DetailsSound, RawSound
<1>7. WritersSound'
  BY <1>0, <1>1 DEF StorageInv, WritersSound
<1> QED
  BY <1>5, <1>6, <1>7 DEF StorageInv

\* The rows of a batch are between the cursors before and after it.
LEMMA FailuresBounded ==
  ASSUME StorageInv, batch.pc = "read"
  PROVE  /\ Cardinality({i \in Ids : batch.copy[i] = Unusable}) \in Nat
         /\ progress.cursor <= LastPicked
         /\ Cardinality({i \in Ids : batch.copy[i] = Unusable}) <= LastPicked - progress.cursor
         /\ progress.errors + Cardinality({i \in Ids : batch.copy[i] = Unusable}) <= LastPicked
<1> DEFINE F == {i \in Ids : batch.copy[i] = Unusable}
           c == progress.cursor
           l == LastPicked
<1>0. StorageTypeOK /\ c \in Nat /\ l \in Nat /\ progress.errors \in Nat /\ progress.errors <= c
  BY PickedRows, StorageConstants DEF StorageInv, StorageTypeOK, ProgressRow, ErrorsSound
<1>1. \A i \in Picked : i > c /\ i <= l /\ i \in Nat
  BY PickedRows, IdsFinite DEF StorageInv, BatchSound, Picked, Ids
<1>2. F \in SUBSET Picked
  BY DEF Picked, Unusable
<1>3. c <= l
  <2>1. CASE Picked = {}
    BY <2>1, <1>0, PickedRows
  <2>2. CASE Picked # {}
    BY <2>2, <1>0, <1>1
  <2> QED
    BY <2>1, <2>2
<1> HIDE DEF F
<1>4. F \in SUBSET ((c + 1) .. l)
  <2>1. \A i \in F : i \in (c + 1) .. l
    BY <1>0, <1>1, <1>2
  <2> QED
    BY <2>1
<1>5. IsFiniteSet((c + 1) .. l) /\ Cardinality((c + 1) .. l) = l - c
  <2>1. c + 1 \in Int /\ l \in Int
    BY <1>0
  <2>2. IsFiniteSet((c + 1) .. l) /\ Cardinality((c + 1) .. l) = IF c + 1 > l THEN 0 ELSE l - (c + 1) + 1
    BY <2>1, FS_Interval
  <2> QED
    BY <2>2, <1>0, <1>3
<1>6. IsFiniteSet(F) /\ Cardinality(F) <= Cardinality((c + 1) .. l)
  BY <1>4, <1>5, FS_Subset
<1>7. Cardinality(F) \in Nat
  BY <1>6, FS_CardinalityType
<1> QED
  BY <1>0, <1>3, <1>5, <1>6, <1>7 DEF F

\* A detail batch upgrades or counts every row it has read that was not
\* fetched since.
LEMMA UpgradeSound ==
  ASSUME StorageInv, UpgradeDetails
  PROVE  StorageInv'
<1> DEFINE failed == Cardinality({i \in Ids : batch.copy[i] = Unusable})
<1>0. StorageTypeOK /\ stage = "v2_details" /\ batch.pc = "read" /\ Rows \in Nat
  BY StorageConstants DEF StorageInv, UpgradeDetails
<1>1. /\ moved' = [i \in Ids |-> IF batch.copy[i] = Usable /\ moved[i] = 0 THEN Upgraded ELSE moved[i]]
      /\ Advance(LastPicked, failed, Exhausted)
      /\ UNCHANGED <<stage, kept, writer, deaths>>
  BY DEF UpgradeDetails, Advance
<1>2. /\ failed \in Nat /\ progress.cursor <= LastPicked
      /\ progress.errors + failed <= LastPicked
  BY <1>0, FailuresBounded
<1>3. \A i \in Ids : batch.copy[i] = Unusable => failed # 0
  <2> SUFFICES ASSUME NEW i \in Ids, batch.copy[i] = Unusable PROVE failed # 0
    OBVIOUS
  <2> DEFINE F == {x \in Ids : batch.copy[x] = Unusable}
  <2>1. F \in SUBSET Ids /\ i \in F
    OBVIOUS
  <2> HIDE DEF F
  <2>2. IsFiniteSet(F) /\ F # {}
    BY <2>1, IdsFinite
  <2> QED
    BY <2>2, FS_EmptySet DEF F
<1> HIDE DEF failed
<1>4. LastPicked \in 0 .. Rows /\ Exhausted \in BOOLEAN /\ progress.errors \in Nat /\ progress.cursor \in Nat
  BY <1>0, PickedRows DEF Exhausted, StorageTypeOK, ProgressRow
<1>5. progress.errors + failed <= Rows
  BY <1>0, <1>2, <1>4
<1>6. /\ progress' \in ProgressRow
      /\ progress'.cursor = LastPicked /\ progress'.errors = progress.errors + failed
      /\ progress'.status = "completed" => progress'.errors = 0
      /\ progress'.status \in {"completed", "partial"} => Exhausted
      /\ chain' \subseteq 0 .. Rows /\ batch'.pc = "committed"
      /\ batch' \in [pc : {"idle", "read", "committed"}, key : 0 .. Rows, copy : [Ids -> 0 .. Versions]]
  BY <1>0, <1>1, <1>2, <1>4, <1>5, AdvanceRow
<1>7. moved' \in [Ids -> 0 .. Versions] /\ \A i \in Ids : moved[i] # 0 => moved'[i] = moved[i]
  BY <1>0, <1>1, StorageConstants DEF StorageTypeOK, Upgraded
<1>8. StorageTypeOK'
  BY <1>0, <1>1, <1>6, <1>7 DEF StorageTypeOK
<1>9. BatchSound' /\ RawSound'
  BY <1>0, <1>1, <1>6 DEF BatchSound, RawSound
<1>10. WritersSound'
  BY <1>0, <1>1 DEF StorageInv, WritersSound
<1>11. ErrorsSound'
  BY <1>0, <1>1, <1>2, <1>4, <1>6 DEF ErrorsSound
<1>12. kept \in [Ids -> {0, Usable, Unusable}]
  BY <1>0 DEF StorageInv, DetailsSound
<1>13. ASSUME NEW i \in Ids, i > progress.cursor, kept[i] # 0, i <= LastPicked \/ Exhausted
       PROVE  /\ kept[i] = Usable => moved'[i] # 0
              /\ progress'.errors = 0 => moved'[i] # 0
  <2>1. i \in Nat /\ moved[i] \in Nat
    BY <1>0, IdsFinite DEF Ids, StorageTypeOK
  <2>2. CASE moved[i] # 0
    BY <1>7, <2>2
  <2>3. CASE moved[i] = 0 /\ batch.copy[i] = 0
    <3>1. ~Exhausted /\ \A j \in Picked : j < i
      BY <1>0, <1>13, <2>3 DEF StorageInv, DetailsSound
    <3>2. LastPicked < i
      BY <1>4, <1>13, <2>1, <3>1, PickedRows, <1>0
    <3> QED
      BY <1>4, <1>13, <2>1, <3>1, <3>2
  <2>4. CASE moved[i] = 0 /\ batch.copy[i] # 0
    <3>1. batch.copy[i] = kept[i]
      BY <1>0, <2>4 DEF StorageInv, BatchSound
    <3>2. CASE kept[i] = Usable
      BY <1>1, <2>4, <3>1, <3>2 DEF Upgraded
    <3>3. CASE kept[i] = Unusable
      BY <1>2, <1>3, <1>4, <1>6, <3>1, <3>3 DEF Usable, Unusable
    <3> QED
      BY <1>12, <1>13, <3>2, <3>3
  <2> QED
    BY <2>2, <2>3, <2>4
<1>14. ASSUME NEW i \in Ids, i <= LastPicked
       PROVE  /\ kept[i] = Usable => moved'[i] # 0
              /\ progress'.errors = 0 /\ kept[i] = Unusable => moved'[i] # 0
  <2>1. CASE i <= progress.cursor
    <3>1. /\ kept[i] = Usable => moved[i] # 0
          /\ progress.errors = 0 /\ kept[i] = Unusable => moved[i] # 0
      BY <1>0, <2>1 DEF StorageInv, DetailsSound
    <3>2. progress'.errors = 0 => progress.errors = 0
      BY <1>2, <1>4, <1>6
    <3> QED
      BY <1>7, <3>1, <3>2
  <2>2. CASE ~(i <= progress.cursor)
    <3>1. i > progress.cursor
      BY <1>4, <2>2, IdsFinite DEF Ids
    <3> QED
      BY <1>13, <1>14, <3>1 DEF Usable, Unusable
  <2> QED
    BY <2>1, <2>2
<1>15. ASSUME NEW i \in Ids, progress'.status \in {"completed", "partial"}, i > LastPicked, kept[i] # 0
       PROVE  moved'[i] # 0
  <2>1. i > progress.cursor /\ i \in Nat
    BY <1>2, <1>4, <1>15, IdsFinite DEF Ids
  <2>2. i \notin Picked
    BY <1>0, <1>4, <1>15, <2>1, PickedRows
  <2>3. moved[i] # 0
    BY <1>0, <1>6, <1>15, <2>1, <2>2 DEF StorageInv, DetailsSound, Picked
  <2> QED
    BY <1>7, <2>3
<1>16. DetailsSound'
  BY <1>0, <1>1, <1>6, <1>12, <1>14, <1>15 DEF DetailsSound
<1> QED
  BY <1>8, <1>9, <1>10, <1>11, <1>16 DEF StorageInv

\* A job that is done, and one that dies, leave the rows alone.
LEMMA JobSound ==
  ASSUME StorageInv, EndJob \/ BatchDies
  PROVE  StorageInv'
<1>1. StorageTypeOK /\ UNCHANGED <<stage, kept, moved, progress, writer>> /\ batch' = NoBatch
  BY DEF StorageInv, EndJob, BatchDies
<1>2. batch' \in [pc : {"idle", "read", "committed"}, key : 0 .. Rows, copy : [Ids -> 0 .. Versions]]
      /\ batch'.pc = "idle"
  BY <1>1, StorageConstants DEF NoBatch, Nothing, FirstId
<1>3. deaths' \in 0 .. MaxStorageFaults /\ chain' \subseteq 0 .. Rows
  <2>1. deaths \in 0 .. MaxStorageFaults /\ MaxStorageFaults \in Nat /\ chain \subseteq 0 .. Rows
    BY <1>1, StorageConstants DEF StorageTypeOK
  <2>2. deaths' = deaths \/ (deaths < MaxStorageFaults /\ deaths' = deaths + 1)
    BY DEF EndJob, BatchDies
  <2>3. chain' \subseteq chain
    BY DEF EndJob, BatchDies
  <2> QED
    BY <2>1, <2>2, <2>3
<1>4. StorageTypeOK'
  BY <1>1, <1>2, <1>3 DEF StorageTypeOK
<1>5. BatchSound' /\ ErrorsSound' /\ DetailsSound' /\ RawSound' /\ WritersSound'
  BY <1>1, <1>2 DEF StorageInv, BatchSound, ErrorsSound, DetailsSound, RawSound, WritersSound
<1> QED
  BY <1>4, <1>5 DEF StorageInv

\* The verification only completes its stage.
LEMMA VerifySound ==
  ASSUME StorageInv, VerifyImages
  PROVE  StorageInv'
<1>1. /\ StorageTypeOK /\ UNCHANGED <<stage, kept, moved, chain, batch, writer, deaths>>
      /\ progress' = [progress EXCEPT !.status = "completed"]
      /\ stage = "legacy_images" /\ batch.pc # "read"
  BY DEF StorageInv, VerifyImages, VerifyAccepting
<1>2. progress' \in ProgressRow /\ progress'.errors = progress.errors /\ progress'.cursor = progress.cursor
  BY <1>1 DEF StorageTypeOK, ProgressRow
<1>3. StorageTypeOK'
  BY <1>1, <1>2 DEF StorageTypeOK
<1>4. BatchSound' /\ ErrorsSound' /\ DetailsSound' /\ RawSound' /\ WritersSound'
  BY <1>1, <1>2 DEF StorageInv, BatchSound, ErrorsSound, DetailsSound, RawSound, WritersSound
<1> QED
  BY <1>3, <1>4 DEF StorageInv

-----------------------------------------------------------------------------
(* The steps of the old version, and of the collector of details.          *)

\* A fetched page gives its listing a detail.
LEMMA FetchDetailSound ==
  ASSUME StorageInv, NEW i \in Ids, FetchDetail(i)
  PROVE  StorageInv'
<1>1. /\ StorageTypeOK /\ UNCHANGED <<stage, kept, progress, chain, batch, writer, deaths>>
      /\ moved' = [moved EXCEPT ![i] = Fetched] /\ stage = "v2_details"
  BY DEF StorageInv, FetchDetail
<1>2. moved' \in [Ids -> 0 .. Versions]
  BY <1>1, StorageConstants DEF StorageTypeOK, Fetched
<1>3. \A x \in Ids : moved[x] # 0 => moved'[x] # 0
  BY <1>1 DEF StorageTypeOK, Fetched
<1>4. StorageTypeOK'
  BY <1>1, <1>2 DEF StorageTypeOK
<1>5. BatchSound' /\ ErrorsSound' /\ RawSound' /\ WritersSound'
  BY <1>1 DEF StorageInv, BatchSound, ErrorsSound, RawSound, WritersSound
<1>6. Picked' = Picked /\ (Exhausted' <=> Exhausted)
  BY <1>1 DEF Picked, Exhausted
<1>7. DetailsSound'
  BY <1>1, <1>3, <1>6 DEF StorageInv, DetailsSound
<1> QED
  BY <1>4, <1>5, <1>7 DEF StorageInv

\* A writer that waits, or gives up, writes nothing.
LEMMA WriterWaits ==
  ASSUME StorageInv, NEW w \in OldWriters, AbortWrite(w) \/ \E i \in Ids : EnterTable(w, i)
  PROVE  StorageInv'
<1>1. StorageTypeOK /\ UNCHANGED <<stage, kept, moved, progress, chain, batch, deaths>>
  BY DEF StorageInv, AbortWrite, EnterTable
<1>2. PICK new \in [pc : {"idle", "blocked", "wrote"}, id : Ids, shares : BOOLEAN] :
        writer' = [writer EXCEPT ![w] = new] /\ new.pc # "wrote"
  <2>1. CASE AbortWrite(w)
    <3>1. NoWrite \in [pc : {"idle", "blocked", "wrote"}, id : Ids, shares : BOOLEAN] /\ NoWrite.pc # "wrote"
      BY StorageConstants DEF NoWrite, Ids
    <3> QED
      BY <2>1, <3>1 DEF AbortWrite
  <2>2. ASSUME NEW i \in Ids, EnterTable(w, i)
        PROVE  \E new \in [pc : {"idle", "blocked", "wrote"}, id : Ids, shares : BOOLEAN] :
                 writer' = [writer EXCEPT ![w] = new] /\ new.pc # "wrote"
    <3> DEFINE new == [pc |-> "blocked", id |-> i, shares |-> FALSE]
    <3>1. new \in [pc : {"idle", "blocked", "wrote"}, id : Ids, shares : BOOLEAN] /\ new.pc # "wrote"
      OBVIOUS
    <3>2. writer' = [writer EXCEPT ![w] = new]
      BY <2>2 DEF EnterTable
    <3> HIDE DEF new
    <3> QED
      BY <3>1, <3>2
  <2> QED
    BY <2>1, <2>2
<1>3. writer' \in [OldWriters -> [pc : {"idle", "blocked", "wrote"}, id : Ids, shares : BOOLEAN]]
  BY <1>1, <1>2 DEF StorageTypeOK
<1>4. StorageTypeOK'
  BY <1>1, <1>3 DEF StorageTypeOK
<1>5. \A v \in OldWriters : writer'[v].pc = "wrote" => v # w /\ writer'[v] = writer[v]
  BY <1>1, <1>2 DEF StorageTypeOK
<1>6. WritersSound'
  BY <1>1, <1>5 DEF StorageInv, WritersSound
<1>7. BatchSound' /\ ErrorsSound' /\ DetailsSound' /\ RawSound'
  BY <1>1 DEF StorageInv, BatchSound, ErrorsSound, DetailsSound, RawSound, Picked, Exhausted
<1> QED
  BY <1>4, <1>6, <1>7 DEF StorageInv

\* A statement of the old version writes a row nobody else writes.
LEMMA WriteRowSound ==
  ASSUME StorageInv, NEW w \in OldWriters, NEW i \in Ids, WriteRow(w, i)
  PROVE  StorageInv'
<1> DEFINE new == [pc |-> "wrote", id |-> i, shares |-> progress.status # "absent"]
<1>1. /\ StorageTypeOK /\ UNCHANGED <<stage, kept, moved, progress, chain, batch, deaths>>
      /\ writer' = [writer EXCEPT ![w] = new]
      /\ \A v \in OldWriters \ {w} : writer[v].pc = "wrote" => writer[v].id # i
      /\ progress.status # "completed" /\ Writable(i)
  BY DEF StorageInv, WriteRow, Guarded
<1>2. new \in [pc : {"idle", "blocked", "wrote"}, id : Ids, shares : BOOLEAN] /\ new.pc = "wrote" /\ new.id = i
  OBVIOUS
<1> HIDE DEF new
<1>3. writer' \in [OldWriters -> [pc : {"idle", "blocked", "wrote"}, id : Ids, shares : BOOLEAN]]
  BY <1>1, <1>2 DEF StorageTypeOK
<1>4. StorageTypeOK'
  BY <1>1, <1>3 DEF StorageTypeOK
<1>5. /\ stage # "v2_details" /\ kept[i] < Versions
      /\ stage = "raw_evidence" => kept[i] = 0
  BY <1>1, StorageConstants DEF Writable, StorageTypeOK, Stages
<1>6. writer'[w] = new /\ \A v \in OldWriters : v # w => writer'[v] = writer[v]
  BY <1>1 DEF StorageTypeOK
<1>7. WritersSound'
  BY <1>1, <1>2, <1>5, <1>6 DEF StorageInv, WritersSound
<1>8. BatchSound' /\ ErrorsSound' /\ DetailsSound' /\ RawSound'
  BY <1>1 DEF StorageInv, BatchSound, ErrorsSound, DetailsSound, RawSound, Picked, Exhausted
<1> QED
  BY <1>4, <1>7, <1>8 DEF StorageInv

\* Its transaction commits the next version of the row.
LEMMA CommitWriteSound ==
  ASSUME StorageInv, NEW w \in OldWriters, CommitWrite(w)
  PROVE  StorageInv'
<1> DEFINE i == writer[w].id
<1>1. /\ StorageTypeOK /\ UNCHANGED <<stage, moved, progress, chain, batch, deaths>>
      /\ kept' = [kept EXCEPT ![i] = @ + 1]
      /\ writer' = [writer EXCEPT ![w] = NoWrite] /\ writer[w].pc = "wrote"
  BY DEF StorageInv, CommitWrite
<1>2. /\ stage # "v2_details" /\ kept[i] < Versions
      /\ stage = "raw_evidence" => progress.status # "completed" /\ kept[i] = 0
      /\ \A v \in OldWriters \ {w} : writer[v].pc = "wrote" => writer[v].id # i
  BY <1>1 DEF StorageInv, WritersSound
<1>3. i \in Ids /\ kept[i] \in 0 .. Versions /\ \A v \in OldWriters : writer[v].id \in Ids
  BY <1>1 DEF StorageTypeOK
<1>4. kept' \in [Ids -> 0 .. Versions] /\ \A x \in Ids : x # i => kept'[x] = kept[x]
  BY <1>1, <1>2, <1>3, StorageConstants DEF StorageTypeOK
<1>5. NoWrite \in [pc : {"idle", "blocked", "wrote"}, id : Ids, shares : BOOLEAN] /\ NoWrite.pc # "wrote"
  BY StorageConstants DEF NoWrite, Ids
<1>6. writer' \in [OldWriters -> [pc : {"idle", "blocked", "wrote"}, id : Ids, shares : BOOLEAN]]
      /\ \A v \in OldWriters : writer'[v].pc = "wrote" => v # w /\ writer'[v] = writer[v]
  BY <1>1, <1>5 DEF StorageTypeOK
<1>7. StorageTypeOK'
  BY <1>1, <1>4, <1>6 DEF StorageTypeOK
<1>8. WritersSound'
  BY <1>1, <1>2, <1>3, <1>4, <1>6 DEF StorageInv, WritersSound
<1>9. BatchSound'
  <2>1. ASSUME NEW x \in Ids, batch.pc = "read", batch.copy[x] # 0, stage # "legacy_images"
        PROVE  kept'[x] = batch.copy[x]
    <3>1. kept[x] = batch.copy[x]
      BY <2>1 DEF StorageInv, BatchSound
    <3>2. stage = "raw_evidence"
      BY <1>1, <1>2, <2>1 DEF StorageTypeOK, Stages
    <3> QED
      BY <1>2, <1>4, <2>1, <3>1, <3>2
  <2> QED
    BY <1>1, <2>1 DEF StorageInv, BatchSound
<1>10. ErrorsSound' /\ DetailsSound' /\ RawSound'
  BY <1>1, <1>2 DEF StorageInv, ErrorsSound, DetailsSound, RawSound
<1> QED
  BY <1>7, <1>8, <1>9, <1>10 DEF StorageInv

-----------------------------------------------------------------------------
(* The theorems.                                                           *)

\* Every step keeps the invariant.
LEMMA StorageStep == StorageInv /\ [StorageNext]_storageVars => StorageInv'
<1>1. StorageInv /\ UNCHANGED storageVars => StorageInv'
  BY DEF storageVars, StorageInv, StorageTypeOK, BatchSound, WritersSound, ErrorsSound, DetailsSound, RawSound,
         Picked, Exhausted
<1> QED
  BY <1>1, BeginBatchSound, PackRawSound, PackImagesSound, UpgradeSound, JobSound, VerifySound, FetchDetailSound,
     WriterWaits, WriteRowSound, CommitWriteSound DEF StorageNext, RunBatch

\* The invariant holds in every behaviour.
LEMMA StorageInvariant == StorageSpec => []StorageInv
  BY StorageInvInit, StorageStep, PTL DEF StorageSpec

(* Every variable of a migration keeps its type: the cursor stays among    *)
(* the ids, and no more failures are counted than there are rows.          *)
THEOREM StorageTypeCorrect == StorageSpec => []StorageTypeOK
<1>1. StorageInv => StorageTypeOK
  BY DEF StorageInv
<1> QED
  BY <1>1, StorageInvariant, PTL

(* A stage that is over has left nothing behind: no inline payload, and no *)
(* stored page without a detail but the failures of a partial stage.       *)
THEOREM StagesLeaveNothing == StorageSpec => []StageLeavesNothing
<1>1. StorageInv => StageLeavesNothing
  <2> SUFFICES ASSUME StorageInv, stage = "v2_details", progress.status \in {"completed", "partial"},
                      NEW i \in Ids
               PROVE  /\ kept[i] = Usable => moved[i] # 0
                      /\ progress.status = "completed" /\ kept[i] = Unusable => moved[i] # 0
    BY DEF StageLeavesNothing, StorageInv, RawSound
  <2>1. i \in Nat /\ progress.cursor \in Nat
    BY IdsFinite DEF Ids, StorageInv, StorageTypeOK, ProgressRow
  <2>2. CASE i <= progress.cursor
    BY <2>2 DEF StorageInv, DetailsSound, ErrorsSound
  <2>3. CASE i > progress.cursor
    BY <2>3 DEF StorageInv, DetailsSound, Usable, Unusable
  <2> QED
    BY <2>1, <2>2, <2>3
<1> QED
  BY <1>1, StorageInvariant, PTL

(* No batch and no verification changes what a reader gets, and no upgrade *)
(* replaces a detail that was fetched: only a writer does.                 *)
THEOREM MigrationsKeepReads == StorageSpec => MigrationKeepsReads
<1>1. StorageInv /\ [StorageNext]_storageVars =>
        [/\ stage = "v2_details" => \A i \in Ids : moved[i] = Fetched => moved'[i] = Fetched
         /\ stage # "v2_details" /\ (\E i \in Ids : ReadOf(i)' # ReadOf(i))
              => \E w \in OldWriters : CommitWrite(w)]_storageVars
  <2> SUFFICES ASSUME StorageInv, StorageNext, NEW i \in Ids
               PROVE  /\ stage = "v2_details" /\ moved[i] = Fetched => moved'[i] = Fetched
                      /\ stage # "v2_details" /\ ReadOf(i)' # ReadOf(i) => \E w \in OldWriters : CommitWrite(w)
    OBVIOUS
  <2>0. /\ kept \in [Ids -> 0 .. Versions] /\ moved \in [Ids -> 0 .. Versions] /\ stage \in Stages
        /\ batch.copy \in [Ids -> 0 .. Versions]
    BY DEF StorageInv, StorageTypeOK
  <2>1. CASE UNCHANGED <<stage, kept, moved, progress>>
    BY <2>1 DEF ReadOf
  <2>2. CASE PackRaw
    <3>1. stage = "raw_evidence" /\ stage' = stage /\ batch.pc = "read" /\ kept' = Pack
          /\ moved' = [x \in Ids |-> IF x \in Picked THEN batch.copy[x] ELSE moved[x]]
      BY <2>2 DEF PackRaw, PackRawBatch, Advance
    <3>2. batch.copy[i] # 0 => kept[i] = batch.copy[i]
      BY <3>1 DEF StorageInv, BatchSound
    <3> QED
      BY <3>1, <3>2, <2>0 DEF ReadOf, Pack, Picked
  <2>3. CASE PackImages
    <3>1. stage = "legacy_images" /\ stage' = stage /\ batch.pc = "read" /\ kept' = kept
          /\ Advance(LastPicked, 0, Exhausted)
      BY <2>3 DEF PackImages, Advance
    <3>2. progress.status # "completed"
      BY <3>1 DEF StorageInv, BatchSound
    <3>3. progress'.status # "completed"
      BY <3>1 DEF Advance
    <3> QED
      BY <3>1, <3>2, <3>3 DEF ReadOf
  <2>4. CASE UpgradeDetails
    BY <2>4, <2>0 DEF UpgradeDetails, Fetched
  <2>5. CASE VerifyImages
    BY <2>5 DEF VerifyImages, VerifyAccepting, ReadOf
  <2>6. CASE \E x \in Ids : FetchDetail(x)
    BY <2>6, <2>0 DEF FetchDetail
  <2>7. CASE \E w \in OldWriters : CommitWrite(w)
    BY <2>7 DEF CommitWrite
  <2> QED
    BY <2>1, <2>2, <2>3, <2>4, <2>5, <2>6, <2>7
       DEF StorageNext, RunBatch, BeginBatch, EndJob, BatchDies, AbortWrite, EnterTable, WriteRow
<1> QED
  BY <1>1, StorageInvariant, PTL DEF StorageSpec, MigrationKeepsReads

-----------------------------------------------------------------------------
(* SourceFetch.  A job whose request runs is the first of the chain, and a *)
(* job that waits is in it: without the second, the chain could be empty   *)
(* when the first is asked for.                                            *)

Running(c) == call[c] \notin {"none", "queued"}
InLine(c) == \E i \in 1 .. Len(line) : line[i] = c

SourceInv ==
  /\ SourceTypeOK
  /\ transport # "flaresolverr" => \A c \in Callers : call[c] # "queued"
  /\ transport = "flaresolverr" => \A c \in Callers :
       /\ call[c] # "none" => InLine(c)
       /\ Running(c) => line # <<>> /\ Head(line) = c

\* A job that begins waits at most for the client.
LEMMA StartedIs ==
  ASSUME SourceTypeOK, NEW c \in Callers, Started(c)
  PROVE  /\ call' \in [Callers -> {"none", "queued", "client", "fetching", "pacing"}]
         /\ client' \in {"none", "loading", "ready", "failed"} /\ timedOut' \in [Callers -> BOOLEAN]
         /\ call'[c] \in {"client", "fetching"} /\ \A d \in Callers \ {c} : call'[d] = call[d]
<1>1. timedOut' \in [Callers -> BOOLEAN]
  BY Zenon DEF SourceTypeOK, Started
<1> QED
  BY <1>1 DEF SourceTypeOK, Started

\* A request that goes on keeps its place.
LEMMA RequestGoesOn ==
  ASSUME SourceInv, NEW c \in Callers, Running(c), NEW pc \in {"client", "fetching", "pacing"},
         NEW reason \in {"none", "ok"} \cup Reasons,
         call' = [call EXCEPT ![c] = pc],
         outcome' = [outcome EXCEPT ![c] = reason] \/ outcome' = outcome,
         UNCHANGED <<transport, line, client, stopping, timedOut>>
  PROVE  SourceInv'
<1>1. SourceTypeOK'
  BY DEF SourceInv, SourceTypeOK
<1>2. call'[c] = pc /\ \A d \in Callers \ {c} : call'[d] = call[d]
  BY DEF SourceInv, SourceTypeOK
<1>3. transport # "flaresolverr" => \A d \in Callers : call'[d] # "queued"
  BY <1>2 DEF SourceInv
<1>4. ASSUME transport = "flaresolverr", NEW d \in Callers
      PROVE  /\ call'[d] # "none" => InLine(d)
             /\ call'[d] \notin {"none", "queued"} => line # <<>> /\ Head(line) = d
  BY <1>2, <1>4 DEF SourceInv, Running
<1> QED
  BY <1>1, <1>3, <1>4 DEF SourceInv, Running, InLine

\* A request that nothing is known of changes no place either.
LEMMA CallsStay ==
  ASSUME SourceInv, SourceTypeOK', UNCHANGED <<transport, call, line>>
  PROVE  SourceInv'
<1> QED
  BY DEF SourceInv, Running, InLine

\* Every step of the worker's requests keeps the invariant.
LEMMA SourceStep == SourceInv /\ [SourceNext]_sourceVars => SourceInv'
<1> SUFFICES ASSUME SourceInv, [SourceNext]_sourceVars PROVE SourceInv'
  OBVIOUS
<1>1. SourceTypeOK
  BY DEF SourceInv
<1>2. ASSUME NEW c \in Callers PROVE RequestError(c) \in Reasons
  BY DEF RequestError, Reasons
<1>3. ASSUME NEW c \in Callers, Request(c) PROVE SourceInv'
  <2>1. outcome' \in [Callers -> {"none", "ok"} \cup Reasons] /\ UNCHANGED <<transport, stopping>>
        /\ call[c] = "none"
    BY <1>1, <1>3 DEF Request, SourceTypeOK
  <2>2. CASE transport = "flaresolverr"
    <3>1. line' = Append(line, c) /\ call' = [call EXCEPT ![c] = "queued"] /\ UNCHANGED <<client, timedOut>>
      BY <1>3, <2>2 DEF Request
    <3>2. line \in Seq(Callers) /\ call \in [Callers -> {"none", "queued", "client", "fetching", "pacing"}]
      BY <1>1 DEF SourceTypeOK
    <3>3. /\ line' \in Seq(Callers) /\ Len(line') = Len(line) + 1 /\ Len(line) \in Nat
          /\ line'[Len(line) + 1] = c /\ \A i \in 1 .. Len(line) : line'[i] = line[i]
      BY <3>1, <3>2
    <3>4. call' \in [Callers -> {"none", "queued", "client", "fetching", "pacing"}]
          /\ call'[c] = "queued" /\ \A d \in Callers \ {c} : call'[d] = call[d]
      BY <3>1, <3>2
    <3>5. SourceTypeOK'
      BY <1>1, <2>1, <3>1, <3>3, <3>4 DEF SourceTypeOK
    <3>6. ASSUME NEW d \in Callers, call'[d] # "none" PROVE InLine(d)'
      <4>1. CASE d = c
        BY <3>3, <4>1 DEF InLine
      <4>2. CASE d # c
        <5>1. PICK i \in 1 .. Len(line) : line[i] = d
          BY <2>2, <3>4, <3>6, <4>2 DEF SourceInv, InLine
        <5>2. i \in 1 .. Len(line') /\ line'[i] = d
          BY <3>3, <5>1
        <5> QED
          BY <5>2 DEF InLine
      <4> QED
        BY <4>1, <4>2
    <3>7. ASSUME NEW d \in Callers, Running(d)' PROVE line' # <<>> /\ Head(line') = d
      <4>1. d # c /\ Running(d)
        BY <3>4, <3>7 DEF Running
      <4>2. line # <<>> /\ Head(line) = d
        BY <2>2, <4>1 DEF SourceInv
      <4>3. 1 \in 1 .. Len(line) /\ Head(line) = line[1] /\ Head(line') = line'[1] /\ line' # <<>>
        BY <3>2, <3>3, <4>2
      <4> QED
        BY <3>3, <4>2, <4>3
    <3> QED
      BY <2>1, <2>2, <3>5, <3>6, <3>7 DEF SourceInv
  <2>3. CASE transport # "flaresolverr"
    <3>1. Started(c) /\ UNCHANGED line
      BY <1>3, <2>3 DEF Request
    <3>2. /\ call' \in [Callers -> {"none", "queued", "client", "fetching", "pacing"}]
          /\ client' \in {"none", "loading", "ready", "failed"} /\ timedOut' \in [Callers -> BOOLEAN]
          /\ call'[c] \in {"client", "fetching"} /\ \A d \in Callers \ {c} : call'[d] = call[d]
      BY <1>1, <3>1, StartedIs
    <3>3. SourceTypeOK'
      BY <1>1, <2>1, <3>1, <3>2 DEF SourceTypeOK
    <3> QED
      BY <2>1, <2>3, <3>2, <3>3 DEF SourceInv
  <2> QED
    BY <2>2, <2>3
<1>4. ASSUME NEW c \in Callers, Begin(c) PROVE SourceInv'
  <2>1. Started(c) /\ UNCHANGED <<transport, outcome, line, stopping>> /\ call[c] = "queued" /\ Head(line) = c
    BY <1>4 DEF Begin
  <2>2. /\ call' \in [Callers -> {"none", "queued", "client", "fetching", "pacing"}]
        /\ client' \in {"none", "loading", "ready", "failed"} /\ timedOut' \in [Callers -> BOOLEAN]
        /\ call'[c] \in {"client", "fetching"} /\ \A d \in Callers \ {c} : call'[d] = call[d]
    BY <1>1, <2>1, StartedIs
  <2>3. SourceTypeOK'
    BY <1>1, <2>1, <2>2 DEF SourceTypeOK
  <2>4. transport = "flaresolverr" /\ InLine(c)
    BY <2>1 DEF SourceInv
  <2>5. line # <<>>
    BY <1>1, <2>4 DEF InLine, SourceTypeOK
  <2>6. ASSUME NEW d \in Callers PROVE (call'[d] # "none" => InLine(d)) /\ (Running(d)' => Head(line) = d)
    BY <2>1, <2>2, <2>4 DEF SourceInv, Running
  <2> QED
    BY <2>1, <2>3, <2>4, <2>5, <2>6 DEF SourceInv, InLine
<1>5. ASSUME NEW c \in Callers, ClientUsed(c) PROVE SourceInv'
  BY <1>5, RequestGoesOn DEF ClientUsed, Running
<1>6. ASSUME NEW c \in Callers, ClientRefuses(c) PROVE SourceInv'
  BY <1>2, <1>6, RequestGoesOn DEF ClientRefuses, Concluded, Running
<1>7. ASSUME NEW c \in Callers, Aborted(c) PROVE SourceInv'
  BY <1>2, <1>7, RequestGoesOn DEF Aborted, Concluded, Running
<1>8. ASSUME NEW c \in Callers, Answer(c) PROVE SourceInv'
  BY <1>8, RequestGoesOn DEF Answer, Unaborted, Concluded, Running
<1>9. ASSUME NEW c \in Callers, SolverRefuses(c) PROVE SourceInv'
  BY <1>9, RequestGoesOn DEF SolverRefuses, Unaborted, Concluded, Running, Reasons
<1>10. ASSUME NEW c \in Callers, NetworkFails(c) PROVE SourceInv'
  BY <1>2, <1>10, RequestGoesOn DEF NetworkFails, Concluded, Running
<1>11. ASSUME NEW c \in Callers, Paced(c) PROVE SourceInv'
  <2>1. /\ call[c] = "pacing" /\ call' = [call EXCEPT ![c] = "none"]
        /\ UNCHANGED <<transport, outcome, client, stopping, timedOut>>
    BY <1>11 DEF Paced
  <2>2. /\ call' \in [Callers -> {"none", "queued", "client", "fetching", "pacing"}]
        /\ call'[c] = "none" /\ \A d \in Callers \ {c} : call'[d] = call[d]
    BY <1>1, <2>1 DEF SourceTypeOK
  <2>3. CASE transport = "flaresolverr"
    <3>1. line' = Tail(line) /\ line # <<>> /\ Head(line) = c /\ line \in Seq(Callers)
      BY <1>1, <1>11, <2>1, <2>3 DEF Paced, Leave, SourceInv, Running, SourceTypeOK
    <3>2. /\ line' \in Seq(Callers) /\ Len(line') = Len(line) - 1 /\ Len(line) \in Nat /\ line[1] = c
          /\ \A i \in 1 .. Len(line') : line'[i] = line[i + 1]
      BY <3>1
    <3>3. SourceTypeOK'
      BY <1>1, <2>1, <2>2, <3>2 DEF SourceTypeOK
    <3>4. ASSUME NEW d \in Callers, call'[d] # "none" PROVE InLine(d)'
      <4>1. d # c /\ InLine(d)
        BY <2>2, <2>3, <3>4 DEF SourceInv
      <4>2. PICK i \in 1 .. Len(line) : line[i] = d
        BY <4>1 DEF InLine
      <4>3. i - 1 \in 1 .. Len(line') /\ line'[i - 1] = d
        BY <3>2, <4>1, <4>2
      <4> QED
        BY <4>3 DEF InLine
    <3>5. ASSUME NEW d \in Callers PROVE ~Running(d)'
      BY <2>2, <2>3, <3>1 DEF SourceInv, Running
    <3> QED
      BY <2>1, <2>3, <3>3, <3>4, <3>5 DEF SourceInv
  <2>4. CASE transport # "flaresolverr"
    <3>1. line' = line
      BY <1>11, <2>4 DEF Paced
    <3>2. SourceTypeOK'
      BY <1>1, <2>1, <2>2, <3>1 DEF SourceTypeOK
    <3> QED
      BY <2>1, <2>2, <2>4, <3>2 DEF SourceInv
  <2> QED
    BY <2>3, <2>4
<1>12. ASSUME NEW c \in Callers, TimesOut(c) PROVE SourceInv'
  <2>1. timedOut' \in [Callers -> BOOLEAN]
    BY <1>1, <1>12, Zenon DEF TimesOut, SourceTypeOK
  <2>2. UNCHANGED <<transport, call, outcome, line, client, stopping>>
    BY <1>12 DEF TimesOut
  <2>3. SourceTypeOK'
    BY <1>1, <2>1, <2>2 DEF SourceTypeOK
  <2> QED
    BY <2>2, <2>3, CallsStay
<1>13. ASSUME NEW ok \in BOOLEAN, ClientLoads(ok) PROVE SourceInv'
  <2>1. client' \in {"none", "loading", "ready", "failed"} /\ UNCHANGED <<transport, call, outcome, line, stopping, timedOut>>
    BY <1>13 DEF ClientLoads
  <2>2. SourceTypeOK'
    BY <1>1, <2>1 DEF SourceTypeOK
  <2> QED
    BY <2>1, <2>2, CallsStay
<1>14. CASE StopWorker
  <2>1. stopping' \in BOOLEAN
    BY <1>14, Zenon DEF StopWorker
  <2>2. UNCHANGED <<transport, call, outcome, line, client, timedOut>>
    BY <1>14 DEF StopWorker
  <2>3. SourceTypeOK'
    BY <1>1, <2>1, <2>2 DEF SourceTypeOK
  <2> QED
    BY <2>2, <2>3, CallsStay
<1>15. CASE UNCHANGED sourceVars
  <2>1. UNCHANGED <<transport, call, outcome, line, client, stopping, timedOut>>
    BY <1>15 DEF sourceVars
  <2>2. SourceTypeOK'
    BY <1>1, <2>1 DEF SourceTypeOK
  <2> QED
    BY <2>1, <2>2, CallsStay
<1> QED
  BY <1>3, <1>4, <1>5, <1>6, <1>7, <1>8, <1>9, <1>10, <1>11, <1>12, <1>13, <1>14, <1>15
  DEF SourceNext, CallStep

\* At first no page is asked for.
LEMMA SourceInitially == SourceInit => SourceInv
<1> SUFFICES ASSUME SourceInit PROVE SourceInv
  OBVIOUS
<1>1. timedOut \in [Callers -> BOOLEAN] /\ stopping \in BOOLEAN
  BY Zenon DEF SourceInit
<1>2. SourceTypeOK
  BY <1>1 DEF SourceInit, SourceTypeOK
<1> QED
  BY <1>2 DEF SourceInit, SourceInv, Running

\* The browser session, whose pages would overwrite each other, runs one
\* request at a time: the promise of serializeNettiautoSource, however
\* requests fail, time out or are aborted.
THEOREM RequestsAreSerialized ==
  SourceSpec => [](transport = "flaresolverr" =>
                     \A c, d \in Callers : Running(c) /\ Running(d) => c = d)
<1>1. SourceInv => (transport = "flaresolverr" =>
                      \A c, d \in Callers : Running(c) /\ Running(d) => c = d)
  BY DEF SourceInv
<1>2. SourceSpec => []SourceInv
  BY SourceInitially, SourceStep, PTL DEF SourceSpec
<1> QED
  BY <1>1, <1>2, PTL

-----------------------------------------------------------------------------
(* ApiAccess.                                                              *)

\* prune keeps some of the keys, each once, and no more than it may.
LEMMA SurvivorsAre ==
  ASSUME NEW keys \in Seq(Clients), IsInjective(keys), NEW ticks
  PROVE  LET result == Survivors(keys, ticks)
         IN  result \in Seq(Clients) /\ IsInjective(result) /\ Len(result) <= LimiterEntries
<1> DEFINE n == Len(keys)
           Body(g, i) == IF i = 0 THEN <<>>
                         ELSE IF Keeps(keys, ticks, i, Len(keys) - (i - 1 - Len(g[i - 1])))
                              THEN Append(g[i - 1], keys[i]) ELSE g[i - 1]
           All == Seq(Clients)
           empty == <<>>
           step == [i \in 1 .. n |-> [s \in All |->
                      IF Keeps(keys, ticks, i, Len(keys) - (i - 1 - Len(s))) THEN Append(s, keys[i]) ELSE s]]
<1>1. step \in [1 .. n -> [All -> All]]
  <2>1. \A i \in 1 .. n, s \in All : Append(s, keys[i]) \in All
    OBVIOUS
  <2> QED
    BY <2>1
<1>2. PICK g \in [0 .. n -> All] : g[0] = <<>> /\ \A i \in 1 .. n : g[i] = step[i][g[i - 1]]
  <2>1. empty \in All /\ n \in Nat
    OBVIOUS
  <2> HIDE DEF step, n, All, empty
  <2>2. \E g \in [0 .. n -> All] : g[0] = empty /\ \A i \in 1 .. n : g[i] = step[i][g[i - 1]]
    BY <1>1, <2>1, Iterated
  <2> QED
    BY <2>2 DEF empty
<1>3. g = [i \in 0 .. n |-> Body(g, i)]
  <2>1. \A i \in 1 .. n : g[i - 1] \in All /\ g[i] = Body(g, i)
    <3> SUFFICES ASSUME NEW i \in 1 .. n PROVE g[i - 1] \in All /\ g[i] = Body(g, i)
      OBVIOUS
    <3>1. i - 1 \in 0 .. n /\ i # 0
      OBVIOUS
    <3>2. g[i - 1] \in All
      BY <1>2, <3>1
    <3>3. step[i][g[i - 1]] = Body(g, i)
      <4> HIDE DEF All
      <4> QED
        BY <3>1, <3>2
    <3> QED
      BY <1>2, <3>2, <3>3
  <2>2. \A i \in 0 .. n : g[i] = Body(g, i)
    <3>1. g[0] = Body(g, 0) /\ \A i \in 0 .. n : i = 0 \/ i \in 1 .. n
      BY <1>2
    <3> HIDE DEF Body
    <3> QED
      BY <2>1, <3>1
  <2>3. g = [i \in 0 .. n |-> g[i]]
    BY <1>2
  <2> HIDE DEF Body
  <2> QED
    BY <2>2, <2>3
<1> DEFINE result == CHOOSE f : f = [i \in 0 .. n |-> Body(f, i)]
<1>4. Survivors(keys, ticks) = result[n]
  BY DEF Survivors
<1>5. result = [i \in 0 .. n |-> Body(result, i)]
  <2> HIDE DEF Body
  <2> QED
    BY <1>3
<1> DEFINE Good(i) ==
             /\ result[i] \in Seq(Clients) /\ IsInjective(result[i])
             /\ \A a \in DOMAIN result[i] : \E j \in 1 .. i : result[i][a] = keys[j]
             /\ Len(result[i]) = 0 \/ n - i + Len(result[i]) <= LimiterEntries
           bad == {i \in 0 .. n : ~Good(i)}
<1> HIDE DEF result, step
<1>6. Good(0)
  <2>1. result[0] = <<>>
    BY <1>5
  <2> QED
    BY <2>1 DEF IsInjective
<1>7. ASSUME NEW i \in 1 .. n, Good(i - 1) PROVE Good(i)
  <2> DEFINE old == result[i - 1]
  <2>0. /\ i - 1 \in Nat /\ n \in Nat /\ LimiterEntries \in Nat /\ keys[i] \in Clients
        /\ result[i] = IF Keeps(keys, ticks, i, n - (i - 1 - Len(old))) THEN Append(old, keys[i]) ELSE old
    <3>1. i \in 0 .. n /\ i # 0
      OBVIOUS
    <3>2. result[i] = Body(result, i)
      <4> HIDE DEF Body
      <4> QED
        BY <1>5, <3>1
    <3> QED
      BY <3>1, <3>2, AccessConstants
  <2>6. i \in 1 .. i /\ \A j \in 1 .. i - 1 : j \in 1 .. i
    OBVIOUS
  <2>1. old \in Seq(Clients) /\ Len(old) \in Nat
    BY <1>7
  <2>2. \A a \in DOMAIN old : \E j \in 1 .. i - 1 : old[a] = keys[j]
    BY <1>7
  <2>3. IsInjective(old) /\ (Len(old) = 0 \/ n - (i - 1) + Len(old) <= LimiterEntries)
    BY <1>7
  <2> HIDE DEF old, n
  <2>4. CASE ~Keeps(keys, ticks, i, n - (i - 1 - Len(old)))
    <3>1. result[i] = old
      BY <2>0, <2>4
    <3>2. \A a \in DOMAIN old : \E j \in 1 .. i : old[a] = keys[j]
      BY <2>0, <2>2
    <3>3. Len(old) = 0 \/ n - i + Len(old) <= LimiterEntries
      BY <2>0, <2>1, <2>3
    <3> QED
      BY <2>1, <2>3, <3>1, <3>2, <3>3
  <2>5. CASE Keeps(keys, ticks, i, n - (i - 1 - Len(old)))
    <3> DEFINE new == Append(old, keys[i])
    <3>1. result[i] = new
      BY <2>0, <2>5
    <3>2. /\ new \in Seq(Clients) /\ Len(new) = Len(old) + 1 /\ DOMAIN new = 1 .. Len(old) + 1
          /\ new[Len(old) + 1] = keys[i] /\ \A a \in 1 .. Len(old) : new[a] = old[a]
      BY <2>0, <2>1
    <3>3. n - (i - 1 - Len(old)) <= LimiterEntries
      BY <2>5 DEF Keeps
    <3>4. \A a \in 1 .. Len(old) : a \in DOMAIN old /\ old[a] # keys[i]
      <4>1. \A j \in 1 .. i - 1 : keys[j] # keys[i]
        BY DEF IsInjective, n
      <4>2. \A a \in 1 .. Len(old) : a \in DOMAIN old
        BY <2>1
      <4> QED
        BY <2>2, <4>1, <4>2
    <3> HIDE DEF new
    <3>5. IsInjective(new)
      <4>1. \A a, b \in 1 .. Len(old) : old[a] = old[b] => a = b
        BY <2>1, <2>3, <3>4 DEF IsInjective
      <4> QED
        BY <2>1, <3>2, <3>4, <4>1 DEF IsInjective
    <3>6. \A a \in DOMAIN new : \E j \in 1 .. i : new[a] = keys[j]
      <4> SUFFICES ASSUME NEW a \in DOMAIN new PROVE \E j \in 1 .. i : new[a] = keys[j]
        OBVIOUS
      <4>1. CASE a = Len(old) + 1
        BY <2>6, <3>2, <4>1
      <4>2. CASE a # Len(old) + 1
        <5>1. a \in 1 .. Len(old) /\ new[a] = old[a]
          BY <2>1, <3>2, <4>2
        <5>2. PICK j \in 1 .. i - 1 : old[a] = keys[j]
          BY <2>2, <3>4, <5>1
        <5> QED
          BY <2>6, <5>1, <5>2
      <4> QED
        BY <4>1, <4>2
    <3>7. n - i + Len(new) <= LimiterEntries
      BY <2>0, <2>1, <3>2, <3>3
    <3> QED
      BY <3>1, <3>2, <3>5, <3>6, <3>7
  <2> QED
    BY <2>4, <2>5
<1> HIDE DEF Good
<1>8. bad = {}
  <2> SUFFICES ASSUME bad # {} PROVE FALSE
    OBVIOUS
  <2>1. PICK i \in bad : \A k \in bad : i <= k
    <3>1. bad \in SUBSET Nat
      OBVIOUS
    <3> HIDE DEF bad
    <3> QED
      BY <3>1, LeastOf
  <2>2. i \in 0 .. n /\ ~Good(i)
    BY <2>1
  <2>3. i # 0 => i \in 1 .. n /\ i - 1 \in 0 .. n /\ i - 1 \notin bad
    BY <2>1
  <2> QED
    BY <1>6, <1>7, <2>2, <2>3
<1>9. Good(n)
  BY <1>8
<1> QED
  BY <1>4, <1>9, AccessConstants DEF Good

(* The invariant of one client, of the passwords f checked up to so many   *)
(* ticks ago, since d ticks without an eviction, with l ticks left of the  *)
(* window and n its count: what was checked since the window began is      *)
(* within its count, and what was before within the limit, which one       *)
(* window before it has counted, as two take longer than LoginWindow.      *)
Within(f, x) == IF x = 0 THEN 0 ELSE f[x - 1]
Span(d) == UpTo(LoginWindow, d)
Current(d, l) == UpTo(Span(d), LoginWindow - l + 1)

Held(f, d, l, n) ==
  /\ \A a, b \in Ages : a <= b => f[a] <= f[b]
  /\ l = 0 => Within(f, Span(d)) <= LoginLimit /\ Within(f, UpTo(Span(d), 1)) = 0
  /\ l # 0 => /\ Within(f, Current(d, l)) <= UpTo(LoginLimit, n)
              /\ Within(f, Span(d)) <= Within(f, Current(d, l)) + LoginLimit

(* The map holds the windows of all who have ticks left.                   *)
WindowsKept == \A c \in Clients : left[c] # 0 => c \in ToSet(windows)

AccessInv ==
  /\ AccessTypeOK
  /\ WindowsKept
  /\ session > 0 => session + entered = SessionTtl
  /\ \A c \in Clients : Held(checked[c], dropped[c], left[c], count[c])

Histories == [Ages -> 0 .. Burst + 1]
Incremented(f) == [a \in Ages |-> UpTo(Burst + 1, f[a] + 1)]
Aged(f) == [a \in Ages |-> IF a = 0 THEN 0 ELSE f[a - 1]]

\* The ages and counts of a history.
LEMMA HistoryIs ==
  ASSUME NEW f \in Histories
  PROVE  /\ LoginWindow \in Nat \ {0} /\ LoginLimit \in Nat \ {0} /\ Burst = 2 * LoginLimit /\ Burst \in Nat
         /\ \A a : a \in Ages <=> a \in Nat /\ a < LoginWindow
         /\ \A a \in Ages : f[a] \in 0 .. Burst + 1 /\ f[a] \in Nat
BY AccessConstants DEF Histories, Ages, Burst

\* A client whose window was just evicted is held to nothing.
LEMMA HeldEvicted ==
  ASSUME NEW f \in Histories, NEW n, \A a, b \in Ages : a <= b => f[a] <= f[b]
  PROVE  Held(f, 0, 0, n)
BY HistoryIs DEF Held, Span, UpTo, Within

\* One more password is checked.
LEMMA IncrementedIs ==
  ASSUME NEW f \in Histories, \A a, b \in Ages : a <= b => f[a] <= f[b]
  PROVE  /\ Incremented(f) \in Histories
         /\ \A a, b \in Ages : a <= b => Incremented(f)[a] <= Incremented(f)[b]
         /\ \A x \in 0 .. LoginWindow :
              /\ Within(f, x) \in 0 .. Burst + 1
              /\ x = 0 => Within(Incremented(f), x) = 0 /\ Within(f, x) = 0
              /\ x # 0 => Within(Incremented(f), x) = UpTo(Burst + 1, Within(f, x) + 1)
<1>1. \A a \in Ages : Incremented(f)[a] = UpTo(Burst + 1, f[a] + 1)
  BY DEF Incremented
<1>2. \A a \in Ages : f[a] \in 0 .. Burst + 1 /\ UpTo(Burst + 1, f[a] + 1) \in 0 .. Burst + 1
  BY HistoryIs DEF UpTo
<1>3. Incremented(f) \in Histories
  BY <1>2 DEF Incremented, Histories
<1>4. \A a, b \in Ages : a <= b => Incremented(f)[a] <= Incremented(f)[b]
  BY <1>1, <1>2, HistoryIs DEF UpTo
<1>5. \A x \in 0 .. LoginWindow : x # 0 => x - 1 \in Ages
  BY HistoryIs
<1> QED
  BY <1>1, <1>2, <1>3, <1>4, <1>5, HistoryIs DEF Within

\* A window opens with the first password of it.
LEMMA HeldOpens ==
  ASSUME NEW f \in Histories, NEW d \in 0 .. LoginWindow + 1, NEW n, Held(f, d, 0, n)
  PROVE  Held(Incremented(f), d, LoginWindow, 1)
<1> DEFINE g == Incremented(f)
<1>1. /\ \A a, b \in Ages : a <= b => g[a] <= g[b]
      /\ \A x \in 0 .. LoginWindow :
              /\ Within(f, x) \in 0 .. Burst + 1
              /\ x = 0 => Within(g, x) = 0 /\ Within(f, x) = 0
              /\ x # 0 => Within(g, x) = UpTo(Burst + 1, Within(f, x) + 1)
  BY IncrementedIs DEF Held
<1>2. Within(f, Span(d)) <= LoginLimit /\ Within(f, UpTo(Span(d), 1)) = 0
  BY DEF Held
<1>3. Span(d) \in 0 .. LoginWindow /\ UpTo(Span(d), 1) \in 0 .. 1 /\ UpTo(Span(d), 1) \in 0 .. LoginWindow
      /\ Current(d, LoginWindow) = UpTo(Span(d), 1) /\ (UpTo(Span(d), 1) = 0 <=> Span(d) = 0)
  BY HistoryIs DEF Span, UpTo, Current
<1> HIDE DEF g
<1>4. Within(g, Current(d, LoginWindow)) = UpTo(Span(d), 1)
  BY <1>1, <1>2, <1>3, HistoryIs DEF UpTo
<1>5. Within(g, Span(d)) <= UpTo(Span(d), 1) + LoginLimit
  <2>1. CASE Span(d) = 0
    BY <1>1, <1>3, <2>1, HistoryIs
  <2>2. CASE Span(d) # 0
    <3>1. UpTo(Span(d), 1) = 1
      BY <1>3, <2>2
    <3>2. Within(g, Span(d)) = UpTo(Burst + 1, Within(f, Span(d)) + 1)
      BY <1>1, <1>3, <2>2
    <3> QED
      BY <1>1, <1>2, <1>3, <3>1, <3>2, HistoryIs DEF UpTo
  <2> QED
    BY <2>1, <2>2
<1>6. UpTo(Span(d), 1) <= UpTo(LoginLimit, 1)
  BY <1>3, HistoryIs DEF UpTo
<1> QED
  BY <1>1, <1>4, <1>5, <1>6, HistoryIs DEF Held, g

\* A password that is allowed is counted.
LEMMA HeldCounts ==
  ASSUME NEW f \in Histories, NEW d \in 0 .. LoginWindow + 1, NEW l \in 1 .. LoginWindow,
         NEW n \in 0 .. LoginLimit + 1, n < LoginLimit, Held(f, d, l, n)
  PROVE  Held(Incremented(f), d, l, UpTo(LoginLimit + 1, n + 1))
<1> DEFINE g == Incremented(f)
           s == Span(d)
           w == Current(d, l)
<1>1. /\ \A a, b \in Ages : a <= b => g[a] <= g[b]
      /\ \A x \in 0 .. LoginWindow :
              /\ Within(f, x) \in 0 .. Burst + 1
              /\ x = 0 => Within(g, x) = 0 /\ Within(f, x) = 0
              /\ x # 0 => Within(g, x) = UpTo(Burst + 1, Within(f, x) + 1)
  BY IncrementedIs DEF Held
<1>2. Within(f, w) <= n /\ Within(f, s) <= Within(f, w) + LoginLimit
  BY HistoryIs DEF Held, UpTo
<1>3. s \in 0 .. LoginWindow /\ w \in 0 .. LoginWindow /\ (w = 0 <=> s = 0) /\ UpTo(LoginLimit + 1, n + 1) = n + 1
  BY HistoryIs DEF Span, UpTo, Current
<1> HIDE DEF g, s, w
<1>4. Within(g, w) <= n + 1 /\ Within(g, s) <= Within(g, w) + LoginLimit
  <2>1. CASE s = 0
    BY <1>1, <1>3, <2>1, HistoryIs
  <2>2. CASE s # 0
    <3>1. /\ Within(g, s) = UpTo(Burst + 1, Within(f, s) + 1) /\ Within(g, w) = UpTo(Burst + 1, Within(f, w) + 1)
          /\ Within(f, s) \in Nat /\ Within(f, w) \in Nat
      BY <1>1, <1>3, <2>2
    <3> QED
      BY <1>2, <3>1, HistoryIs DEF UpTo
  <2> QED
    BY <2>1, <2>2
<1>5. UpTo(LoginLimit, n + 1) = n + 1
  <2>1. n + 1 <= LoginLimit /\ n \in Nat /\ LoginLimit \in Nat
    BY AccessConstants
  <2> QED
    BY <2>1 DEF UpTo
<1> QED
  BY <1>1, <1>3, <1>4, <1>5, HistoryIs DEF Held, g, s, w

\* A password that is refused is not checked.
LEMMA HeldRefused ==
  ASSUME NEW f \in Histories, NEW d \in 0 .. LoginWindow + 1, NEW l \in 1 .. LoginWindow,
         NEW n \in 0 .. LoginLimit + 1, n >= LoginLimit, Held(f, d, l, n)
  PROVE  Held(f, d, l, UpTo(LoginLimit + 1, n + 1))
<1>1. UpTo(LoginLimit, UpTo(LoginLimit + 1, n + 1)) = UpTo(LoginLimit, n)
  BY HistoryIs DEF UpTo
<1> QED
  BY <1>1, HistoryIs DEF Held

\* A tick later.
LEMMA HeldTick ==
  ASSUME NEW f \in Histories, NEW d \in 0 .. LoginWindow + 1, NEW l \in 0 .. LoginWindow,
         NEW n \in 0 .. LoginLimit + 1, Held(f, d, l, n)
  PROVE  Held(Aged(f), UpTo(LoginWindow + 1, d + 1), Less(l), IF l <= 1 THEN 0 ELSE n)
<1> DEFINE g == Aged(f)
           s == Span(d)
           w == Current(d, l)
           later == UpTo(LoginWindow + 1, d + 1)
<1>1. \A a \in Ages : g[a] = IF a = 0 THEN 0 ELSE f[a - 1]
  BY DEF Aged
<1>2. \A a, b \in Ages : a <= b => g[a] <= g[b]
  <2> SUFFICES ASSUME NEW a \in Ages, NEW b \in Ages, a <= b PROVE g[a] <= g[b]
    OBVIOUS
  <2> HIDE DEF g
  <2>1. a # 0 => a - 1 \in Ages /\ b - 1 \in Ages /\ f[a - 1] <= f[b - 1] /\ b # 0
    BY HistoryIs DEF Held
  <2>2. b # 0 => b - 1 \in Ages /\ f[b - 1] \in Nat
    BY HistoryIs
  <2> QED
    BY <1>1, <2>1, <2>2
<1>3. \A x \in 1 .. LoginWindow : Within(g, x) = Within(f, x - 1)
  BY <1>1, HistoryIs DEF Within
<1>4. \A x, y \in 0 .. LoginWindow : x <= y => Within(f, x) <= Within(f, y)
  <2> SUFFICES ASSUME NEW x \in 0 .. LoginWindow, NEW y \in 0 .. LoginWindow, x <= y
               PROVE  Within(f, x) <= Within(f, y)
    OBVIOUS
  <2>1. x # 0 => x - 1 \in Ages /\ y - 1 \in Ages /\ f[x - 1] <= f[y - 1] /\ y # 0
    BY HistoryIs DEF Held
  <2>2. y # 0 => y - 1 \in Ages /\ f[y - 1] \in Nat
    BY HistoryIs
  <2> QED
    BY <2>1, <2>2 DEF Within
<1>5. \A x \in 0 .. LoginWindow : Within(f, x) \in Nat
  <2>1. \A x \in 0 .. LoginWindow : x # 0 => x - 1 \in Ages
    BY HistoryIs
  <2> QED
    BY <2>1, HistoryIs DEF Within
<1>6. /\ s \in 0 .. LoginWindow /\ Span(later) \in 1 .. LoginWindow
      /\ Span(later) - 1 <= s /\ Span(later) - 1 \in 0 .. LoginWindow
  BY HistoryIs DEF Span, UpTo
<1> HIDE DEF g
<1>7. Within(g, Span(later)) <= Within(f, s)
  BY <1>3, <1>4, <1>6
<1>8. CASE l = 0
  <2>1. Within(g, Span(later)) <= LoginLimit
    BY <1>5, <1>6, <1>7, <1>8, <1>3, HistoryIs DEF Held
  <2>2. UpTo(Span(later), 1) = 1 /\ 1 \in 1 .. LoginWindow /\ Within(g, 1) = Within(f, 0)
    BY <1>3, <1>6, HistoryIs DEF UpTo
  <2>3. Within(g, UpTo(Span(later), 1)) = 0
    BY <2>2 DEF Within
  <2> QED
    BY <1>2, <1>8, <2>1, <2>3 DEF Held, Less, g
<1>9. CASE l = 1
  <2>1. w \in 0 .. LoginWindow /\ Span(later) - 1 <= w
    BY <1>9, HistoryIs DEF Span, Current, UpTo
  <2>2. Within(g, Span(later)) <= Within(f, w) /\ Within(f, w) <= LoginLimit
    <3>1. Within(g, Span(later)) <= Within(f, w)
      BY <1>3, <1>4, <1>6, <2>1
    <3>2. Within(f, w) <= UpTo(LoginLimit, n) /\ UpTo(LoginLimit, n) <= LoginLimit
      BY <1>9, HistoryIs DEF Held, UpTo
    <3>3. UpTo(LoginLimit, n) \in Nat
      BY HistoryIs DEF UpTo
    <3> QED
      BY <1>5, <2>1, <3>1, <3>2, <3>3, HistoryIs
  <2>3. Within(g, Span(later)) <= LoginLimit
    BY <1>3, <1>5, <1>6, <2>1, <2>2, HistoryIs
  <2>4. UpTo(Span(later), 1) = 1 /\ 1 \in 1 .. LoginWindow /\ Within(g, 1) = Within(f, 0)
    BY <1>3, <1>6, HistoryIs DEF UpTo
  <2>5. Within(g, UpTo(Span(later), 1)) = 0
    BY <2>4 DEF Within
  <2> QED
    BY <1>2, <1>9, <2>3, <2>5 DEF Held, Less, g
<1>10. CASE l > 1
  <2>1. /\ w \in 0 .. LoginWindow /\ Current(later, l - 1) = w + 1 /\ w + 1 \in 1 .. LoginWindow
    BY <1>10, HistoryIs DEF Span, Current, UpTo
  <2>2. Within(g, Current(later, l - 1)) = Within(f, w)
    <3>1. w + 1 - 1 = w
      BY <2>1
    <3> QED
      BY <1>3, <2>1, <3>1
  <2>3. Within(f, w) <= UpTo(LoginLimit, n) /\ Within(f, s) <= Within(f, w) + LoginLimit
    BY <1>10 DEF Held
  <2>4. Within(g, Span(later)) <= Within(f, w) + LoginLimit
    BY <1>3, <1>5, <1>6, <1>7, <2>1, <2>3, HistoryIs
  <2>5. Less(l) = l - 1 /\ l - 1 # 0
    BY <1>10 DEF Less
  <2>6. Held(g, later, l - 1, n)
    <3> HIDE DEF later, w
    <3> QED
      BY <1>2, <2>2, <2>3, <2>4, <2>5 DEF Held
  <2> QED
    BY <1>10, <2>5, <2>6 DEF g
<1> QED
  BY <1>8, <1>9, <1>10

\* No client held to it has had too many passwords checked.
LEMMA HeldBounds ==
  ASSUME NEW f \in Histories, NEW d \in 0 .. LoginWindow + 1, NEW l \in 0 .. LoginWindow,
         NEW n \in 0 .. LoginLimit + 1, Held(f, d, l, n), f[LoginWindow - 1] > Burst
  PROVE  d <= LoginWindow
<1> SUFFICES ASSUME d = LoginWindow + 1 PROVE FALSE
  BY HistoryIs
<1>1. Span(d) = LoginWindow /\ Within(f, Span(d)) = f[LoginWindow - 1] /\ f[LoginWindow - 1] \in Nat
  BY HistoryIs DEF Span, UpTo, Within
<1>2. l = 0
  <2> SUFFICES ASSUME l # 0 PROVE FALSE
    OBVIOUS
  <2>1. Current(d, l) \in 1 .. LoginWindow /\ Current(d, l) - 1 \in Ages
    BY <1>1, HistoryIs DEF Current, UpTo
  <2>2. Within(f, Current(d, l)) \in Nat
    BY <2>1, HistoryIs DEF Within
  <2>3. Within(f, Current(d, l)) <= LoginLimit
    <3>1. UpTo(LoginLimit, n) <= LoginLimit /\ UpTo(LoginLimit, n) \in Nat
      BY HistoryIs DEF UpTo
    <3> QED
      BY <2>2, <3>1, HistoryIs DEF Held
  <2> QED
    BY <1>1, <2>2, <2>3, HistoryIs DEF Held
<1> QED
  BY <1>1, <1>2, HistoryIs DEF Held

\* What the limiter does for one client to all of them.
LEMMA ChecksLogin ==
  ASSUME AccessTypeOK, WindowsKept, NEW c \in Clients, CheckLogin(c)
  PROVE  LET opens == left[c] = 0
         IN  /\ windows' \in Seq(Clients) /\ IsInjective(windows') /\ Len(windows') <= LimiterEntries
             /\ count' \in [Clients -> 0 .. LoginLimit + 1] /\ left' \in [Clients -> 0 .. LoginWindow]
             /\ dropped' \in [Clients -> 0 .. LoginWindow + 1]
             /\ WindowsKept'
             /\ \A d \in Clients :
                  \/ left'[d] = 0 /\ dropped'[d] = 0
                  \/ d # c /\ left[d] = 0 /\ left'[d] = 0 /\ dropped'[d] = dropped[d]
                  \/ d # c /\ left'[d] = left[d] /\ count'[d] = count[d] /\ dropped'[d] = dropped[d]
                  \/ /\ d = c /\ dropped'[d] = dropped[d]
                     /\ left'[d] = IF opens THEN LoginWindow ELSE left[d]
                     /\ count'[d] = IF opens THEN 1 ELSE UpTo(LoginLimit + 1, count[d] + 1)
<1> DEFINE known == c \in ToSet(windows)
           keys == IF known THEN windows ELSE Append(windows, c)
           opens == ~known \/ left[c] = 0
           ticks == IF opens THEN [left EXCEPT ![c] = LoginWindow] ELSE left
           counted == IF opens THEN 1 ELSE UpTo(LoginLimit + 1, count[c] + 1)
           survivors == IF Len(keys) > LimiterEntries THEN Survivors(keys, ticks) ELSE keys
           Gone(d) == d \notin ToSet(survivors)
<1>1. /\ windows' = survivors
      /\ count' = [d \in Clients |-> IF Gone(d) THEN 0 ELSE IF d = c THEN counted ELSE count[d]]
      /\ left' = [d \in Clients |-> IF Gone(d) THEN 0 ELSE ticks[d]]
      /\ dropped' = [d \in Clients |-> IF d \in ToSet(keys) /\ Gone(d) /\ ticks[d] # 0 THEN 0 ELSE dropped[d]]
  BY DEF CheckLogin, Check
<1>2. /\ windows \in Seq(Clients) /\ IsInjective(windows) /\ Len(windows) <= LimiterEntries
      /\ count \in [Clients -> 0 .. LoginLimit + 1] /\ left \in [Clients -> 0 .. LoginWindow]
      /\ dropped \in [Clients -> 0 .. LoginWindow + 1]
      /\ LoginWindow \in Nat \ {0} /\ LoginLimit \in Nat \ {0} /\ LimiterEntries \in Nat \ {0}
  BY AccessConstants DEF AccessTypeOK
<1>3. opens <=> left[c] = 0
  BY DEF WindowsKept
<1>4. keys \in Seq(Clients) /\ IsInjective(keys) /\ ToSet(keys) = ToSet(windows) \cup {c}
  <2>1. CASE known
    BY <1>2, <2>1
  <2>2. CASE ~known
    <3>1. /\ keys = Append(windows, c) /\ keys \in Seq(Clients) /\ DOMAIN keys = 1 .. Len(windows) + 1
          /\ keys[Len(windows) + 1] = c /\ \A i \in 1 .. Len(windows) : keys[i] = windows[i] /\ windows[i] # c
          /\ DOMAIN windows = 1 .. Len(windows) /\ Len(windows) \in Nat
      BY <1>2, <2>2 DEF ToSet
    <3> HIDE DEF keys
    <3>2. IsInjective(keys)
      BY <1>2, <3>1 DEF IsInjective
    <3>3. ToSet(keys) = ToSet(windows) \cup {c}
      BY <3>1 DEF ToSet
    <3> QED
      BY <3>1, <3>2, <3>3
  <2> QED
    BY <2>1, <2>2
<1> HIDE DEF keys
<1>5. survivors \in Seq(Clients) /\ IsInjective(survivors) /\ Len(survivors) <= LimiterEntries
  <2>1. CASE Len(keys) > LimiterEntries
    BY <1>4, <2>1, SurvivorsAre
  <2>2. CASE ~(Len(keys) > LimiterEntries)
    BY <1>2, <1>4, <2>2
  <2> QED
    BY <2>1, <2>2
<1>6. /\ ticks \in [Clients -> 0 .. LoginWindow] /\ counted \in 0 .. LoginLimit + 1
      /\ ticks[c] = (IF opens THEN LoginWindow ELSE left[c]) /\ ticks[c] # 0
      /\ \A d \in Clients : d # c => ticks[d] = left[d]
  BY <1>2, <1>3 DEF UpTo
<1>7. \A d \in Clients : ticks[d] # 0 => d \in ToSet(keys)
  BY <1>4, <1>6 DEF WindowsKept
<1> HIDE DEF survivors, ticks, counted, opens
<1>8. count' \in [Clients -> 0 .. LoginLimit + 1] /\ left' \in [Clients -> 0 .. LoginWindow]
      /\ dropped' \in [Clients -> 0 .. LoginWindow + 1]
  BY <1>1, <1>2, <1>6
<1>9. WindowsKept'
  BY <1>1 DEF WindowsKept
<1>10. ASSUME NEW d \in Clients
       PROVE  \/ left'[d] = 0 /\ dropped'[d] = 0
              \/ d # c /\ left[d] = 0 /\ left'[d] = 0 /\ dropped'[d] = dropped[d]
              \/ d # c /\ left'[d] = left[d] /\ count'[d] = count[d] /\ dropped'[d] = dropped[d]
              \/ /\ d = c /\ dropped'[d] = dropped[d]
                 /\ left'[d] = IF opens THEN LoginWindow ELSE left[d]
                 /\ count'[d] = counted
  BY <1>1, <1>6, <1>7
<1> QED
  BY <1>1, <1>3, <1>5, <1>8, <1>9, <1>10 DEF counted

\* At first nobody has entered a password.
LEMMA AccessInitially == AccessInit => AccessInv
<1> SUFFICES ASSUME AccessInit PROVE AccessInv
  OBVIOUS
<1> USE AccessConstants
<1>1. AccessTypeOK
  <2>1. windows \in Seq(Clients) /\ IsInjective(windows) /\ Len(windows) <= LimiterEntries
    BY DEF AccessInit, IsInjective
  <2>2. /\ count \in [Clients -> 0 .. LoginLimit + 1] /\ left \in [Clients -> 0 .. LoginWindow]
        /\ session \in 0 .. SessionTtl /\ dropped \in [Clients -> 0 .. LoginWindow + 1] /\ entered \in 0 .. SessionTtl
    BY DEF AccessInit
  <2>3. checked \in [Clients -> [Ages -> 0 .. Burst + 1]]
    BY DEF AccessInit, Burst
  <2> QED
    BY <2>1, <2>2, <2>3 DEF AccessTypeOK
<1>2. WindowsKept /\ (session > 0 => session + entered = SessionTtl)
  BY DEF AccessInit, WindowsKept
<1>3. ASSUME NEW c \in Clients PROVE Held(checked[c], dropped[c], left[c], count[c])
  <2>1. checked[c] = [a \in Ages |-> 0] /\ left[c] = 0
    BY <1>3 DEF AccessInit
  <2>2. \A x \in 0 .. LoginWindow : Within(checked[c], x) = 0
    BY <2>1 DEF Within, Ages
  <2>3. Span(dropped[c]) \in 0 .. LoginWindow /\ UpTo(Span(dropped[c]), 1) \in 0 .. LoginWindow
    BY <1>1 DEF AccessTypeOK, Span, UpTo
  <2> QED
    BY <2>1, <2>2, <2>3 DEF Held
<1> QED
  BY <1>1, <1>2, <1>3 DEF AccessInv

\* A login keeps the invariant.
LEMMA LoginHolds ==
  ASSUME AccessInv, NEW c \in Clients, NEW correct \in BOOLEAN, Login(c, correct)
  PROVE  AccessInv'
<1> USE AccessConstants
<1>1. /\ windows' \in Seq(Clients) /\ IsInjective(windows') /\ Len(windows') <= LimiterEntries
      /\ count' \in [Clients -> 0 .. LoginLimit + 1] /\ left' \in [Clients -> 0 .. LoginWindow]
      /\ dropped' \in [Clients -> 0 .. LoginWindow + 1] /\ WindowsKept'
      /\ \A d \in Clients :
           \/ left'[d] = 0 /\ dropped'[d] = 0
           \/ d # c /\ left[d] = 0 /\ left'[d] = 0 /\ dropped'[d] = dropped[d]
           \/ d # c /\ left'[d] = left[d] /\ count'[d] = count[d] /\ dropped'[d] = dropped[d]
           \/ /\ d = c /\ dropped'[d] = dropped[d]
              /\ left'[d] = IF left[c] = 0 THEN LoginWindow ELSE left[d]
              /\ count'[d] = IF left[c] = 0 THEN 1 ELSE UpTo(LoginLimit + 1, count[d] + 1)
  BY ChecksLogin DEF AccessInv, Login
<1>2. /\ count \in [Clients -> 0 .. LoginLimit + 1] /\ left \in [Clients -> 0 .. LoginWindow]
      /\ dropped \in [Clients -> 0 .. LoginWindow + 1] /\ checked \in [Clients -> Histories]
      /\ session \in 0 .. SessionTtl /\ entered \in 0 .. SessionTtl
  BY DEF AccessInv, AccessTypeOK, Histories
<1>3. \A d \in Clients : /\ Held(checked[d], dropped[d], left[d], count[d])
                         /\ \A a, b \in Ages : a <= b => checked[d][a] <= checked[d][b]
  BY DEF AccessInv, Held
<1>4. IF ~Allowed(c) THEN UNCHANGED <<session, checked, entered>>
      ELSE /\ checked' = [checked EXCEPT ![c] = Incremented(checked[c])]
           /\ session' = IF correct THEN SessionTtl ELSE session
           /\ entered' = IF correct THEN 0 ELSE entered
  BY DEF Login, Incremented
<1>5. Incremented(checked[c]) \in Histories
      /\ \A a, b \in Ages : a <= b => Incremented(checked[c])[a] <= Incremented(checked[c])[b]
  BY <1>2, <1>3, IncrementedIs
<1>6. session' \in 0 .. SessionTtl /\ entered' \in 0 .. SessionTtl /\ (session' > 0 => session' + entered' = SessionTtl)
  BY <1>2, <1>4 DEF AccessInv
<1>7. checked' \in [Clients -> Histories]
      /\ \A d \in Clients : \A a, b \in Ages : a <= b => checked'[d][a] <= checked'[d][b]
  BY <1>2, <1>3, <1>4, <1>5
<1>8. ASSUME NEW d \in Clients PROVE Held(checked'[d], dropped'[d], left'[d], count'[d])
  <2>1. CASE left'[d] = 0 /\ dropped'[d] = 0
    BY <1>7, <2>1, HeldEvicted
  <2>2. CASE d # c /\ left[d] = 0 /\ left'[d] = 0 /\ dropped'[d] = dropped[d]
    <3>1. checked'[d] = checked[d]
      BY <1>2, <1>4, <2>2
    <3> QED
      BY <1>3, <2>2, <3>1 DEF Held
  <2>3. CASE d # c /\ left'[d] = left[d] /\ count'[d] = count[d] /\ dropped'[d] = dropped[d]
    <3>1. checked'[d] = checked[d]
      BY <1>2, <1>4, <2>3
    <3> QED
      BY <1>3, <2>3, <3>1
  <2>4. CASE /\ d = c /\ dropped'[d] = dropped[d]
             /\ left'[d] = IF left[c] = 0 THEN LoginWindow ELSE left[d]
             /\ count'[d] = IF left[c] = 0 THEN 1 ELSE UpTo(LoginLimit + 1, count[d] + 1)
    <3>1. CASE left[c] = 0
      <4>1. checked'[c] = Incremented(checked[c])
        BY <1>2, <1>4, <3>1 DEF Allowed
      <4> QED
        BY <1>2, <1>3, <2>4, <3>1, <4>1, HeldOpens
    <3>2. CASE left[c] # 0 /\ count[c] < LoginLimit
      <4>1. checked'[c] = Incremented(checked[c])
        BY <1>2, <1>4, <3>2 DEF Allowed
      <4>2. left[c] \in 1 .. LoginWindow
        BY <1>2, <3>2
      <4> QED
        BY <1>2, <1>3, <2>4, <3>2, <4>1, <4>2, HeldCounts
    <3>3. CASE left[c] # 0 /\ ~(count[c] < LoginLimit)
      <4>1. checked'[c] = checked[c]
        BY <1>2, <1>4, <3>3 DEF Allowed
      <4>2. left[c] \in 1 .. LoginWindow /\ count[c] >= LoginLimit /\ count[c] \in 0 .. LoginLimit + 1
        BY <1>2, <3>3
      <4> QED
        BY <1>2, <1>3, <2>4, <3>3, <4>1, <4>2, HeldRefused
    <3> QED
      BY <3>1, <3>2, <3>3
  <2> QED
    BY <1>1, <2>1, <2>2, <2>3, <2>4
<1>9. AccessTypeOK'
  BY <1>1, <1>6, <1>7 DEF AccessTypeOK, Histories
<1> QED
  BY <1>1, <1>6, <1>8, <1>9 DEF AccessInv

\* Every step keeps it.
LEMMA AccessStep == AccessInv /\ [AccessNext]_accessVars => AccessInv'
<1> SUFFICES ASSUME AccessInv, [AccessNext]_accessVars PROVE AccessInv'
  OBVIOUS
<1> USE AccessConstants
<1>1. ASSUME NEW c \in Clients, NEW correct \in BOOLEAN, Login(c, correct) PROVE AccessInv'
  BY <1>1, LoginHolds
<1>2. CASE Logout
  <2>1. /\ UNCHANGED <<windows, count, left, checked, dropped, entered>> /\ session' = 0
    BY <1>2 DEF Logout
  <2> QED
    BY <2>1 DEF AccessInv, AccessTypeOK, WindowsKept
<1>3. CASE AccessTick
  <2>1. /\ left' = [c \in Clients |-> Less(left[c])]
        /\ count' = [c \in Clients |-> IF left[c] <= 1 THEN 0 ELSE count[c]]
        /\ session' = Less(session)
        /\ checked' = [c \in Clients |-> Aged(checked[c])]
        /\ dropped' = [c \in Clients |-> UpTo(LoginWindow + 1, dropped[c] + 1)]
        /\ entered' = UpTo(SessionTtl, entered + 1)
        /\ windows' = windows
    BY <1>3 DEF AccessTick, Aged
  <2>2. /\ count \in [Clients -> 0 .. LoginLimit + 1] /\ left \in [Clients -> 0 .. LoginWindow]
        /\ dropped \in [Clients -> 0 .. LoginWindow + 1] /\ checked \in [Clients -> Histories]
        /\ session \in 0 .. SessionTtl /\ entered \in 0 .. SessionTtl
    BY DEF AccessInv, AccessTypeOK, Histories
  <2>3. /\ count' \in [Clients -> 0 .. LoginLimit + 1] /\ left' \in [Clients -> 0 .. LoginWindow]
        /\ dropped' \in [Clients -> 0 .. LoginWindow + 1]
        /\ session' \in 0 .. SessionTtl /\ entered' \in 0 .. SessionTtl
    BY <2>1, <2>2 DEF Less, UpTo
  <2>4. checked' \in [Clients -> Histories]
    <3>1. ASSUME NEW f \in Histories PROVE Aged(f) \in Histories
      <4>1. \A a \in Ages : a # 0 => a - 1 \in Ages
        BY DEF Ages
      <4>2. \A a \in Ages : (IF a = 0 THEN 0 ELSE f[a - 1]) \in 0 .. Burst + 1
        BY <4>1, HistoryIs
      <4> QED
        BY <4>2 DEF Aged, Histories
    <3> QED
      BY <2>1, <2>2, <3>1
  <2>5. AccessTypeOK'
    BY <2>1, <2>3, <2>4 DEF AccessTypeOK, AccessInv, Histories
  <2>6. WindowsKept' /\ (session' > 0 => session' + entered' = SessionTtl)
    BY <2>1, <2>2 DEF AccessInv, WindowsKept, Less, UpTo
  <2>7. ASSUME NEW c \in Clients PROVE Held(checked'[c], dropped'[c], left'[c], count'[c])
    <3>1. /\ left'[c] = Less(left[c]) /\ count'[c] = (IF left[c] <= 1 THEN 0 ELSE count[c])
          /\ checked'[c] = Aged(checked[c]) /\ dropped'[c] = UpTo(LoginWindow + 1, dropped[c] + 1)
      BY <2>1
    <3>2. /\ checked[c] \in Histories /\ dropped[c] \in 0 .. LoginWindow + 1 /\ left[c] \in 0 .. LoginWindow
          /\ count[c] \in 0 .. LoginLimit + 1 /\ Held(checked[c], dropped[c], left[c], count[c])
      BY <2>2 DEF AccessInv
    <3> QED
      BY <3>1, <3>2, HeldTick
  <2> QED
    BY <2>5, <2>6, <2>7 DEF AccessInv
<1>4. CASE UNCHANGED accessVars
  BY <1>4 DEF accessVars, AccessInv, AccessTypeOK, WindowsKept
<1> QED
  BY <1>1, <1>2, <1>3, <1>4 DEF AccessNext

\* The invariant of the limiter and the session.
LEMMA AccessHolds == AccessSpec => []AccessInv
<1> QED
  BY AccessInitially, AccessStep, PTL DEF AccessSpec

\* The limiter's map and the session keep their types, and no more windows are kept than
\* maxEntries (FixedWindowRateLimiter).
THEOREM AccessTypeCorrect == AccessSpec => []AccessTypeOK
<1>1. AccessInv => AccessTypeOK
  BY DEF AccessInv
<1> QED
  BY <1>1, AccessHolds, PTL

\* No address has more than twice the limit of passwords checked within a window's
\* length, unless its own live window was evicted; and a browser is served only for
\* SessionTtl after the right password was entered there.
THEOREM PasswordsLimited == AccessSpec => []LoginsBounded
<1>1. AccessInv => LoginsBounded
  <2> SUFFICES ASSUME AccessInv PROVE LoginsBounded
    OBVIOUS
  <2>1. ASSUME NEW c \in Clients, checked[c][LoginWindow - 1] > Burst PROVE dropped[c] <= LoginWindow
    <3>1. /\ checked[c] \in Histories /\ dropped[c] \in 0 .. LoginWindow + 1 /\ left[c] \in 0 .. LoginWindow
          /\ count[c] \in 0 .. LoginLimit + 1 /\ Held(checked[c], dropped[c], left[c], count[c])
      BY DEF AccessInv, AccessTypeOK, Histories
    <3> QED
      BY <2>1, <3>1, HeldBounds
  <2>2. Served => entered < SessionTtl
    BY AccessConstants DEF AccessInv, AccessTypeOK, Served
  <2> QED
    BY <2>1, <2>2 DEF LoginsBounded
<1> QED
  BY <1>1, AccessHolds, PTL

-----------------------------------------------------------------------------
(* ResponseCache.                                                          *)

\* A map without some keys has the others, in their order.
LEMMA WithoutIs ==
  ASSUME NEW keys \in Seq(Keys), IsInjective(keys), NEW gone
  PROVE  LET result == Without(keys, gone)
         IN  result \in Seq(Keys) /\ IsInjective(result) /\ ToSet(result) = ToSet(keys) \ gone
<1> DEFINE n == Len(keys)
           Body(g, i) == IF i = 0 THEN <<>>
                         ELSE IF keys[i] \in gone THEN g[i - 1] ELSE Append(g[i - 1], keys[i])
           All == Seq(Keys)
           empty == <<>>
           step == [i \in 1 .. n |-> [s \in All |-> IF keys[i] \in gone THEN s ELSE Append(s, keys[i])]]
<1>1. step \in [1 .. n -> [All -> All]]
  <2>1. \A i \in 1 .. n, s \in All : Append(s, keys[i]) \in All
    OBVIOUS
  <2> QED
    BY <2>1
<1>2. PICK g \in [0 .. n -> All] : g[0] = <<>> /\ \A i \in 1 .. n : g[i] = step[i][g[i - 1]]
  <2>1. empty \in All /\ n \in Nat
    OBVIOUS
  <2> HIDE DEF step, n, All, empty
  <2>2. \E g \in [0 .. n -> All] : g[0] = empty /\ \A i \in 1 .. n : g[i] = step[i][g[i - 1]]
    BY <1>1, <2>1, Iterated
  <2> QED
    BY <2>2 DEF empty
<1>3. g = [i \in 0 .. n |-> Body(g, i)]
  <2>1. \A i \in 1 .. n : g[i - 1] \in All /\ g[i] = Body(g, i)
    <3> SUFFICES ASSUME NEW i \in 1 .. n PROVE g[i - 1] \in All /\ g[i] = Body(g, i)
      OBVIOUS
    <3>1. i - 1 \in 0 .. n /\ i # 0
      OBVIOUS
    <3>2. g[i - 1] \in All
      BY <1>2, <3>1
    <3>3. step[i][g[i - 1]] = Body(g, i)
      <4> HIDE DEF All
      <4> QED
        BY <3>1, <3>2
    <3> QED
      BY <1>2, <3>2, <3>3
  <2>2. \A i \in 0 .. n : g[i] = Body(g, i)
    <3>1. g[0] = Body(g, 0) /\ \A i \in 0 .. n : i = 0 \/ i \in 1 .. n
      BY <1>2
    <3> HIDE DEF Body
    <3> QED
      BY <2>1, <3>1
  <2>3. g = [i \in 0 .. n |-> g[i]]
    BY <1>2
  <2> HIDE DEF Body
  <2> QED
    BY <2>2, <2>3
<1> DEFINE result == CHOOSE f : f = [i \in 0 .. n |-> Body(f, i)]
<1>4. Without(keys, gone) = result[n]
  BY DEF Without
<1>5. result = [i \in 0 .. n |-> Body(result, i)]
  <2> HIDE DEF Body
  <2> QED
    BY <1>3
<1> DEFINE Good(i) ==
             /\ result[i] \in Seq(Keys) /\ IsInjective(result[i])
             /\ ToSet(result[i]) = {keys[j] : j \in 1 .. i} \ gone
           bad == {i \in 0 .. n : ~Good(i)}
<1> HIDE DEF result, step
<1>6. Good(0)
  <2>1. result[0] = <<>>
    BY <1>5
  <2> QED
    BY <2>1 DEF IsInjective, ToSet
<1>7. ASSUME NEW i \in 1 .. n, Good(i - 1) PROVE Good(i)
  <2> DEFINE old == result[i - 1]
             seen == {keys[j] : j \in 1 .. i - 1}
  <2>1. result[i] = IF keys[i] \in gone THEN old ELSE Append(old, keys[i])
    <3>1. i \in 0 .. n /\ i # 0
      OBVIOUS
    <3>2. result[i] = Body(result, i)
      <4> HIDE DEF Body
      <4> QED
        BY <1>5, <3>1
    <3> QED
      BY <3>1, <3>2
  <2>2. old \in Seq(Keys) /\ IsInjective(old) /\ ToSet(old) = seen \ gone
    BY <1>7
  <2>3. {keys[j] : j \in 1 .. i} = seen \cup {keys[i]} /\ keys[i] \notin seen /\ keys[i] \in Keys
    BY DEF IsInjective
  <2> HIDE DEF old, seen, n
  <2>4. CASE keys[i] \in gone
    <3>1. ToSet(old) = (seen \cup {keys[i]}) \ gone
      BY <2>2, <2>4
    <3> QED
      BY <2>1, <2>2, <2>3, <2>4, <3>1
  <2>5. CASE keys[i] \notin gone
    <3> DEFINE new == Append(old, keys[i])
    <3>1. /\ new \in Seq(Keys) /\ DOMAIN new = 1 .. Len(old) + 1 /\ DOMAIN old = 1 .. Len(old) /\ Len(old) \in Nat
          /\ new[Len(old) + 1] = keys[i] /\ \A a \in 1 .. Len(old) : new[a] = old[a]
      BY <2>2, <2>3
    <3>2. \A a \in 1 .. Len(old) : old[a] # keys[i]
      BY <2>2, <2>3, <3>1 DEF ToSet
    <3> HIDE DEF new
    <3>3. IsInjective(new)
      <4>1. \A a, b \in 1 .. Len(old) : old[a] = old[b] => a = b
        BY <2>2, <3>1 DEF IsInjective
      <4> QED
        BY <3>1, <3>2, <4>1 DEF IsInjective
    <3>4. ToSet(new) = ToSet(old) \cup {keys[i]}
      <4>1. ToSet(old) \subseteq ToSet(new)
        BY <3>1 DEF ToSet
      <4>2. keys[i] \in ToSet(new)
        BY <3>1 DEF ToSet
      <4>3. DOMAIN new = DOMAIN old \cup {Len(old) + 1}
        BY <3>1
      <4>4. ToSet(new) \subseteq ToSet(old) \cup {keys[i]}
        BY <3>1, <4>3 DEF ToSet
      <4> QED
        BY <4>1, <4>2, <4>4
    <3>5. ToSet(new) = (seen \cup {keys[i]}) \ gone
      BY <2>2, <2>5, <3>4
    <3>6. result[i] = new
      BY <2>1, <2>5 DEF new
    <3> QED
      BY <2>3, <3>1, <3>3, <3>5, <3>6
  <2> QED
    BY <2>4, <2>5
<1> HIDE DEF Good
<1>8. bad = {}
  <2> SUFFICES ASSUME bad # {} PROVE FALSE
    OBVIOUS
  <2>1. PICK i \in bad : \A k \in bad : i <= k
    <3>1. bad \in SUBSET Nat
      OBVIOUS
    <3> HIDE DEF bad
    <3> QED
      BY <3>1, LeastOf
  <2>2. i \in 0 .. n /\ ~Good(i)
    BY <2>1
  <2>3. i # 0 => i \in 1 .. n /\ i - 1 \in 0 .. n /\ i - 1 \notin bad
    BY <2>1
  <2> QED
    BY <1>6, <1>7, <2>2, <2>3
<1>9. result[n] \in Seq(Keys) /\ IsInjective(result[n]) /\ ToSet(result[n]) = {keys[j] : j \in 1 .. n} \ gone
  BY <1>8 DEF Good
<1>10. ToSet(keys) = {keys[j] : j \in 1 .. n}
  BY DEF ToSet
<1> QED
  BY <1>4, <1>9, <1>10

\* A sequence without repetitions is as long as it has elements.
LEMMA LenIsCardinality ==
  ASSUME NEW S, NEW s \in Seq(S), IsInjective(s)
  PROVE  IsFiniteSet(ToSet(s)) /\ Cardinality(ToSet(s)) = Len(s)
<1>1. DOMAIN s = 1 .. Len(s) /\ Len(s) \in Nat /\ s \in [1 .. Len(s) -> S]
  OBVIOUS
<1>2. IsFiniteSet(1 .. Len(s)) /\ Cardinality(1 .. Len(s)) = Len(s)
  BY <1>1, FS_Interval
<1>3. s \in Bijection(1 .. Len(s), ToSet(s))
  BY <1>1 DEF Bijection, Injection, Surjection, IsInjective, ToSet
<1> QED
  BY <1>2, <1>3, FS_Bijection DEF ExistsBijection


-----------------------------------------------------------------------------
LoadSound(l) ==
  /\ ~Idle(l) => load[l].key \in Keys
  /\ load[l].pc = "loading" => /\ load[l].object \in Objects
                              /\ \A k \in Keys : slot[k] = load[l].object => k = load[l].key
  /\ load[l].pc # "loading" => load[l].object = NoObject

RefreshSound(k, l) ==
  slot[k] # NoObject /\ object[slot[k]].refresh = l => ~Idle(l) /\ load[l].key = k

CacheInv ==
  /\ CacheTypeOK
  /\ EntriesAccounted
  /\ \A l \in Loads : LoadSound(l)
  /\ \A k \in Keys, l \in Loads : RefreshSound(k, l)

USE ResponseCacheConstants DEF ResponseCacheConstants, NoLoad, NoObject, NoValue

\* A number of the keys, and of the loads, is a number.
LEMMA ObjectsAre ==
  /\ Cardinality(Keys) \in Nat /\ Cardinality(Loads) \in Nat
  /\ Objects \in SUBSET Nat /\ IsFiniteSet(Objects) /\ NoObject \notin Objects
  /\ Cardinality(Objects) = Cardinality(Keys) + Cardinality(Loads)
<1>1. Cardinality(Keys) \in Nat /\ Cardinality(Loads) \in Nat
  BY FS_CardinalityType
<1>2. Cardinality(Keys) + Cardinality(Loads) \in Nat
  BY <1>1
<1>3. IsFiniteSet(Objects) /\ Cardinality(Objects) = Cardinality(Keys) + Cardinality(Loads)
  <2> DEFINE n == Cardinality(Keys) + Cardinality(Loads)
  <2>1. n \in Nat /\ Objects = 1 .. n
    BY <1>2 DEF Objects
  <2> HIDE DEF n
  <2>2. IsFiniteSet(1 .. n) /\ Cardinality(1 .. n) = n
    BY <2>1, FS_Interval
  <2> QED
    BY <2>1, <2>2 DEF n
<1> QED
  BY <1>1, <1>2, <1>3 DEF Objects

\* An idle load and a key without an object leave an object free.
LEMMA NewObjectIsFree ==
  ASSUME NEW k \in Keys, slot \in [Keys -> Objects \cup {NoObject}], slot[k] = NoObject,
         NEW l \in Loads, load[l].object = NoObject
  PROVE  NewObject \in Objects \ Live(slot, load)
<1> DEFINE held == {slot[m] : m \in Keys \ {k}}
           loading == {load[m].object : m \in Loads \ {l}}
           taken == held \cup loading
<1>1. Live(slot, load) \subseteq taken \cup {NoObject}
  BY DEF Live
<1>2. IsFiniteSet(Keys \ {k}) /\ Cardinality(Keys \ {k}) = Cardinality(Keys) - 1
  BY FS_RemoveElement
<1>3. IsFiniteSet(Loads \ {l}) /\ Cardinality(Loads \ {l}) = Cardinality(Loads) - 1
  BY FS_RemoveElement
<1>4. IsFiniteSet(held) /\ Cardinality(held) <= Cardinality(Keys \ {k})
  <2> DEFINE f == [m \in Keys \ {k} |-> slot[m]]
  <2>1. f \in Surjection(Keys \ {k}, held)
    BY DEF Surjection
  <2> QED
    BY <1>2, <2>1, FS_Surjection
<1>5. IsFiniteSet(loading) /\ Cardinality(loading) <= Cardinality(Loads \ {l})
  <2> DEFINE f == [m \in Loads \ {l} |-> load[m].object]
  <2>1. f \in Surjection(Loads \ {l}, loading)
    BY DEF Surjection
  <2> QED
    BY <1>3, <2>1, FS_Surjection
<1>6. IsFiniteSet(taken) /\ Cardinality(taken) <= Cardinality(held) + Cardinality(loading)
  <2> HIDE DEF held, loading
  <2>1. IsFiniteSet(taken) /\ Cardinality(taken) = Cardinality(held) + Cardinality(loading) - Cardinality(held \cap loading)
    BY <1>4, <1>5, FS_Union
  <2>2. IsFiniteSet(held \cap loading)
    BY <1>4, FS_Intersection
  <2>3. Cardinality(held \cap loading) \in Nat /\ Cardinality(held) \in Nat /\ Cardinality(loading) \in Nat
    BY <1>4, <1>5, <2>2, FS_CardinalityType
  <2> QED
    BY <2>1, <2>3
<1>7. Objects \ Live(slot, load) # {}
  <2> SUFFICES ASSUME Objects \ Live(slot, load) = {} PROVE FALSE
    OBVIOUS
  <2>1. Objects \subseteq taken
    BY <1>1, ObjectsAre
  <2>2. Cardinality(Objects) <= Cardinality(taken)
    BY <1>6, <2>1, FS_Subset
  <2>3. Cardinality(held) \in Nat /\ Cardinality(loading) \in Nat /\ Cardinality(taken) \in Nat
    BY <1>4, <1>5, <1>6, FS_CardinalityType
  <2> HIDE DEF held, loading, taken
  <2> QED
    BY <1>2, <1>3, <1>4, <1>5, <1>6, <2>2, <2>3, ObjectsAre
<1>8. \E o \in Objects \ Live(slot, load) : \A p \in Objects \ Live(slot, load) : o <= p
  BY <1>7, ObjectsAre, LeastOf
<1> QED
  BY <1>8 DEF NewObject, Min

\* Evicting down to a size leaves the protected key, entries with a load,
\* and no more than the size if there is another entry.
LEMMA EvictedEnough ==
  ASSUME NEW obj \in [Objects -> [refreshedAt : NoValue .. CacheClock, accessedAt : 0 .. CacheClock,
                                  refresh : Loads \cup {NoLoad}]],
         CacheTypeOK, NEW k \in Keys, NEW size \in Nat, NEW gone, gone = EvictedTo(size, k, obj)
  PROVE  /\ gone \subseteq ToSet(order) \ {k}
         /\ \/ \A m \in ToSet(order) \ gone : m = k \/ obj[slot[m]].refresh # NoLoad
            \/ Cardinality(ToSet(order) \ gone) <= size
<1> DEFINE candidates == {m \in ToSet(order) \ {k} : obj[slot[m]].refresh = NoLoad}
           Older(m, c) == \/ obj[slot[m]].accessedAt < obj[slot[c]].accessedAt
                          \/ /\ obj[slot[m]].accessedAt = obj[slot[c]].accessedAt
                             /\ \E i, j \in DOMAIN order : i < j /\ order[i] = m /\ order[j] = c
           OlderThan(c) == {m \in candidates : Older(m, c)}
           excess == Len(order) - size
<1>1. gone = {c \in candidates : Cardinality(OlderThan(c)) < excess}
  BY DEF EvictedTo
<1>2. /\ order \in Seq(Keys) /\ Len(order) \in Nat /\ IsFiniteSet(ToSet(order))
      /\ Cardinality(ToSet(order)) = Len(order) /\ ToSet(order) \subseteq Keys
  <2>1. order \in Seq(Keys) /\ IsInjective(order)
    BY DEF CacheTypeOK
  <2>2. IsFiniteSet(ToSet(order)) /\ Cardinality(ToSet(order)) = Len(order)
    BY <2>1, LenIsCardinality
  <2> QED
    BY <2>1, <2>2 DEF ToSet
<1>3. candidates \subseteq ToSet(order)
  OBVIOUS
<1>4. \A m \in ToSet(order) : obj[slot[m]].accessedAt \in Nat
  <2> SUFFICES ASSUME NEW m \in ToSet(order) PROVE obj[slot[m]].accessedAt \in Nat
    OBVIOUS
  <2>1. slot[m] \in Objects
    BY <1>2 DEF CacheTypeOK
  <2> QED
    BY <2>1 DEF ResponseCacheConstants
<1>5. \A m, c, d \in ToSet(order) : Older(m, c) /\ Older(c, d) => Older(m, d)
  <2> SUFFICES ASSUME NEW m \in ToSet(order), NEW c \in ToSet(order), NEW d \in ToSet(order),
                      Older(m, c), Older(c, d)
               PROVE  Older(m, d)
    OBVIOUS
  <2>1. /\ obj[slot[m]].accessedAt \in Nat /\ obj[slot[c]].accessedAt \in Nat
        /\ obj[slot[d]].accessedAt \in Nat
    BY <1>4
  <2>2. CASE \/ obj[slot[m]].accessedAt < obj[slot[c]].accessedAt
             \/ obj[slot[c]].accessedAt < obj[slot[d]].accessedAt
    BY <2>1, <2>2
  <2>3. CASE /\ ~(obj[slot[m]].accessedAt < obj[slot[c]].accessedAt)
             /\ ~(obj[slot[c]].accessedAt < obj[slot[d]].accessedAt)
    <3>1. PICK i, j \in DOMAIN order : i < j /\ order[i] = m /\ order[j] = c
      BY <2>3
    <3>2. PICK p, q \in DOMAIN order : p < q /\ order[p] = c /\ order[q] = d
      BY <2>3
    <3>3. j = p /\ DOMAIN order \subseteq Nat
      BY <1>2, <3>1, <3>2 DEF CacheTypeOK, IsInjective
    <3>4. i < q /\ order[i] = m /\ order[q] = d /\ i \in DOMAIN order /\ q \in DOMAIN order
      BY <3>1, <3>2, <3>3
    <3> QED
      BY <2>3, <3>4
  <2> QED
    BY <2>2, <2>3
<1>6. \A c \in ToSet(order) : ~Older(c, c)
  <2> SUFFICES ASSUME NEW c \in ToSet(order), Older(c, c) PROVE FALSE
    OBVIOUS
  <2>1. obj[slot[c]].accessedAt \in Nat
    BY <1>4
  <2>2. PICK i, j \in DOMAIN order : i < j /\ order[i] = c /\ order[j] = c
    BY <2>1
  <2>3. i = j /\ DOMAIN order \subseteq Nat
    BY <1>2, <2>2 DEF CacheTypeOK, IsInjective
  <2> QED
    BY <2>2, <2>3
<1> HIDE DEF Older
<1>7. gone \subseteq candidates
  BY <1>1
<1>8. CASE candidates \subseteq gone
  <2>1. \A m \in ToSet(order) \ gone : m = k \/ obj[slot[m]].refresh # NoLoad
    BY <1>8
  <2> QED
    BY <1>7, <2>1
<1>9. ASSUME ~(candidates \subseteq gone)
      PROVE  Cardinality(ToSet(order) \ gone) <= size
  <2> DEFINE stay == candidates \ gone
             ranks == {Cardinality(OlderThan(c)) : c \in stay}
  <2>1. \A c : IsFiniteSet(OlderThan(c)) /\ Cardinality(OlderThan(c)) \in Nat
    <3> SUFFICES ASSUME NEW c PROVE IsFiniteSet(OlderThan(c))
      BY FS_CardinalityType
    <3>1. OlderThan(c) \subseteq ToSet(order)
      BY <1>3
    <3> HIDE DEF OlderThan
    <3> QED
      BY <1>2, <3>1, FS_Subset
  <2>2. PICK c \in stay : \A d \in stay : Cardinality(OlderThan(c)) <= Cardinality(OlderThan(d))
    <3>1. stay # {}
      BY <1>9
    <3> HIDE DEF stay, OlderThan
    <3>3. ranks \in SUBSET Nat /\ ranks # {}
      BY <2>1, <3>1
    <3>2. PICK r \in ranks : \A p \in ranks : r <= p
      <4> HIDE DEF ranks
      <4> QED
        BY <3>3, LeastOf
    <3> QED
      BY <3>2
  <2>3. OlderThan(c) \subseteq gone
    <3> SUFFICES ASSUME NEW m \in OlderThan(c), m \in stay PROVE FALSE
      BY <1>1
    <3>1. m \in ToSet(order) /\ c \in ToSet(order) /\ Older(m, c)
      OBVIOUS
    <3>2. OlderThan(m) \subseteq OlderThan(c) /\ m \notin OlderThan(m)
      BY <1>3, <1>5, <1>6, <3>1
    <3> HIDE DEF OlderThan, stay
    <3>3. Cardinality(OlderThan(m)) <= Cardinality(OlderThan(c))
          /\ (Cardinality(OlderThan(m)) = Cardinality(OlderThan(c)) => OlderThan(m) = OlderThan(c))
      BY <2>1, <3>2, FS_Subset
    <3> QED
      BY <2>1, <2>2, <3>2, <3>3
  <2>4. Cardinality(OlderThan(c)) >= excess
    <3>1. ~(Cardinality(OlderThan(c)) < excess)
      BY <1>1, <2>2
    <3> HIDE DEF OlderThan
    <3> QED
      BY <1>2, <2>1, <3>1
  <2>5. IsFiniteSet(gone) /\ gone \subseteq ToSet(order)
    <3>1. gone \subseteq ToSet(order)
      BY <1>3, <1>7
    <3> QED
      BY <1>2, <3>1, FS_Subset
  <2>6. Cardinality(OlderThan(c)) <= Cardinality(gone)
    <3> HIDE DEF OlderThan
    <3> QED
      BY <2>3, <2>5, FS_Subset
  <2>7. Cardinality(ToSet(order) \ gone) = Cardinality(ToSet(order)) - Cardinality(gone)
    <3>1. ToSet(order) \cap gone = gone
      BY <2>5
    <3> QED
      BY <1>2, <3>1, FS_Difference
  <2>8. Cardinality(gone) \in Nat
    BY <2>5, FS_CardinalityType
  <2> HIDE DEF OlderThan
  <2> QED
    BY <1>2, <2>1, <2>4, <2>6, <2>7, <2>8
<1> QED
  BY <1>3, <1>7, <1>8, <1>9

EntryObjects == [refreshedAt : NoValue .. CacheClock, accessedAt : 0 .. CacheClock,
                 refresh : Loads \cup {NoLoad}]
LoadRecords == [pc : {"idle", "loading", "settled"}, key : Keys \cup {NoLoad},
                object : Objects \cup {NoObject}]

\* As many loads are under way as the set of them has.
LEMMA PendingIs == IsFiniteSet(Pending) /\ Cardinality(Pending) \in Nat
<1>1. Pending \subseteq Loads
  BY DEF Pending
<1>2. IsFiniteSet(Pending)
  BY <1>1, FS_Subset
<1> QED
  BY <1>2, FS_CardinalityType

\* At first nothing is cached and nothing is under way.
LEMMA CacheInitially == CacheInit => CacheInv
<1> SUFFICES ASSUME CacheInit PROVE CacheInv
  OBVIOUS
<1> USE DEF CacheInit, Waiting, Blank
<1>1. CacheTypeOK
  <2>1. order \in Seq(Keys) /\ IsInjective(order) /\ ToSet(order) = {}
    BY DEF IsInjective, ToSet
  <2>2. Blank \in EntryObjects
    BY DEF EntryObjects
  <2>3. Waiting \in LoadRecords
    BY DEF LoadRecords
  <2>4. object \in [Objects -> EntryObjects] /\ load \in [Loads -> LoadRecords]
    BY <2>2, <2>3
  <2>5. slot \in [Keys -> Objects \cup {NoObject}] /\ cacheTime \in 0 .. CacheClock
    OBVIOUS
  <2>6. \A k \in Keys : slot[k] = NoObject
    OBVIOUS
  <2> QED
    BY <2>1, <2>4, <2>5, <2>6 DEF CacheTypeOK, EntryObjects, LoadRecords
<1>2. EntriesAccounted
  <2>1. Len(order) = 0
    OBVIOUS
  <2> QED
    BY <2>1, PendingIs DEF EntriesAccounted
<1>3. \A l \in Loads : LoadSound(l)
  BY DEF LoadSound, Idle
<1>4. \A k \in Keys, l \in Loads : RefreshSound(k, l)
  BY DEF RefreshSound
<1> QED
  BY <1>1, <1>2, <1>3, <1>4 DEF CacheInv

\* Answering from an entry, or joining its load, touches only the entry.
LEMMA CacheTouched ==
  ASSUME CacheInv, NEW k \in Keys, slot[k] # NoObject,
         object' = [object EXCEPT ![slot[k]].accessedAt = cacheTime],
         UNCHANGED <<order, slot, load, cacheTime>>
  PROVE  CacheInv'
<1>1. slot[k] \in Objects /\ object \in [Objects -> EntryObjects] /\ cacheTime \in 0 .. CacheClock
  BY DEF CacheInv, CacheTypeOK, EntryObjects
<1>2. /\ object' \in [Objects -> EntryObjects]
      /\ \A o \in Objects : /\ object'[o].refreshedAt = object[o].refreshedAt
                            /\ object'[o].refresh = object[o].refresh
  BY <1>1 DEF EntryObjects
<1>3. \A m \in Keys : slot[m] # NoObject => slot[m] \in Objects
  BY DEF CacheInv, CacheTypeOK
<1>4. CacheTypeOK'
  BY <1>2 DEF CacheInv, CacheTypeOK, EntryObjects
<1>5. EntriesAccounted'
  BY <1>2, <1>3 DEF CacheInv, EntriesAccounted, Pending, Idle, HasValue
<1>6. \A l \in Loads : LoadSound(l)'
  BY DEF CacheInv, LoadSound, Idle
<1>7. \A m \in Keys, l \in Loads : RefreshSound(m, l)'
  BY <1>2, <1>3 DEF CacheInv, RefreshSound, Idle
<1> QED
  BY <1>4, <1>5, <1>6, <1>7 DEF CacheInv

\* A load that begins adds itself to the loads under way.
LEMMA LoadBegins ==
  ASSUME CacheInv, NEW l \in Loads, Idle(l), NEW k \in Keys, NEW o \in Objects, Fetch(l, k, o)
  PROVE  /\ load' \in [Loads -> LoadRecords]
         /\ load'[l].pc = "loading" /\ load'[l].key = k /\ load'[l].object = o
         /\ \A m \in Loads \ {l} : load'[m] = load[m]
         /\ Cardinality(Pending') = Cardinality(Pending) + 1
<1>1. load \in [Loads -> LoadRecords]
  BY DEF CacheInv, CacheTypeOK, LoadRecords
<1>2. [pc |-> "loading", key |-> k, object |-> o] \in LoadRecords
  BY DEF LoadRecords
<1>3. load' \in [Loads -> LoadRecords]
  BY <1>1, <1>2 DEF Fetch
<1>4. load'[l] = [pc |-> "loading", key |-> k, object |-> o] /\ \A m \in Loads \ {l} : load'[m] = load[m]
  BY <1>1 DEF Fetch
<1>5. Pending' = Pending \cup {l} /\ l \notin Pending
  BY <1>4 DEF Pending, Idle
<1>6. Cardinality(Pending \cup {l}) = Cardinality(Pending) + 1
  BY <1>5, PendingIs, FS_AddElement
<1> QED
  BY <1>3, <1>4, <1>5, <1>6

\* The refresh of an expired entry, or the retry of one without a value.
LEMMA CacheRefreshed ==
  ASSUME CacheInv, NEW k \in Keys, slot[k] # NoObject, NEW l \in Loads, Idle(l),
         object[slot[k]].refresh = NoLoad,
         object' = [object EXCEPT ![slot[k]].accessedAt = cacheTime, ![slot[k]].refresh = l],
         Fetch(l, k, slot[k]), UNCHANGED <<order, slot, cacheTime>>
  PROVE  CacheInv'
<1>1. slot[k] \in Objects /\ object \in [Objects -> EntryObjects] /\ cacheTime \in 0 .. CacheClock
  BY DEF CacheInv, CacheTypeOK, EntryObjects
<1>2. /\ object' \in [Objects -> EntryObjects]
      /\ \A o \in Objects : object'[o].refreshedAt = object[o].refreshedAt
      /\ object'[slot[k]].refresh = l
      /\ \A o \in Objects \ {slot[k]} : object'[o].refresh = object[o].refresh
  BY <1>1 DEF EntryObjects
<1>3. \A m \in Keys : slot[m] # NoObject => slot[m] \in Objects /\ (m # k => slot[m] # slot[k])
  BY DEF CacheInv, CacheTypeOK
<1>4. /\ load' \in [Loads -> LoadRecords]
      /\ load'[l].pc = "loading" /\ load'[l].key = k /\ load'[l].object = slot[k]
      /\ \A m \in Loads \ {l} : load'[m] = load[m]
      /\ Cardinality(Pending') = Cardinality(Pending) + 1
  BY <1>1, LoadBegins
<1>5. CacheTypeOK'
  BY <1>2, <1>4 DEF CacheInv, CacheTypeOK, EntryObjects, LoadRecords
<1>6. EntriesAccounted'
  <2>1. Len(order) \in Nat /\ Len(order) <= MaxEntries + Cardinality(Pending) /\ Cardinality(Pending) \in Nat
    BY PendingIs DEF CacheInv, CacheTypeOK, EntriesAccounted
  <2>2. Len(order') <= MaxEntries + Cardinality(Pending')
    BY <1>4, <2>1
  <2>3. ASSUME NEW m \in Keys, slot[m] # NoObject
        PROVE  HasValue(slot[m])' \/ \E p \in Loads : load'[p].pc = "loading" /\ load'[p].object = slot[m]
    <3>1. CASE m = k
      BY <1>4, <3>1
    <3>2. CASE HasValue(slot[m])
      BY <1>2, <1>3, <2>3, <3>2 DEF HasValue
    <3>3. CASE \E p \in Loads : load[p].pc = "loading" /\ load[p].object = slot[m]
      BY <1>4, <3>3 DEF Idle
    <3> QED
      BY <2>3, <3>1, <3>2, <3>3 DEF CacheInv, EntriesAccounted
  <2> QED
    BY <2>2, <2>3 DEF EntriesAccounted
<1>7. \A p \in Loads : LoadSound(p)'
  <2>1. LoadSound(l)'
    BY <1>1, <1>3, <1>4 DEF LoadSound, Idle
  <2>2. \A p \in Loads \ {l} : LoadSound(p)'
    BY <1>4 DEF CacheInv, LoadSound, Idle
  <2> QED
    BY <2>1, <2>2
<1>8. \A m \in Keys, p \in Loads : RefreshSound(m, p)'
  <2> SUFFICES ASSUME NEW m \in Keys, NEW p \in Loads, slot[m] # NoObject, object'[slot[m]].refresh = p
               PROVE  ~Idle(p)' /\ load'[p].key = m
    BY DEF RefreshSound
  <2>1. CASE m = k
    BY <1>2, <1>4, <2>1 DEF Idle
  <2>2. CASE m # k
    <3>1. object[slot[m]].refresh = p
      BY <1>2, <1>3, <2>2
    <3>2. ~Idle(p) /\ load[p].key = m
      BY <3>1 DEF CacheInv, RefreshSound
    <3> QED
      BY <1>4, <3>2 DEF Idle
  <2> QED
    BY <2>1, <2>2
<1> QED
  BY <1>5, <1>6, <1>7, <1>8 DEF CacheInv

\* The first request for a key adds its entry and the load of it.
LEMMA CacheEntered ==
  ASSUME CacheInv, NEW k \in Keys, slot[k] = NoObject, NEW l \in Loads, Idle(l),
         order' = Append(order, k), slot' = [slot EXCEPT ![k] = NewObject],
         object' = [object EXCEPT ![NewObject] =
                      [refreshedAt |-> NoValue, accessedAt |-> cacheTime, refresh |-> l]],
         Fetch(l, k, NewObject), UNCHANGED cacheTime
  PROVE  CacheInv'
<1> DEFINE new == NewObject
           entry == [refreshedAt |-> NoValue, accessedAt |-> cacheTime, refresh |-> l]
<1>1. /\ slot \in [Keys -> Objects \cup {NoObject}] /\ object \in [Objects -> EntryObjects]
      /\ cacheTime \in 0 .. CacheClock /\ order \in Seq(Keys) /\ IsInjective(order)
      /\ \A m \in Keys : slot[m] # NoObject <=> m \in ToSet(order)
  BY DEF CacheInv, CacheTypeOK, EntryObjects
<1>2. new \in Objects \ Live(slot, load)
  BY <1>1, NewObjectIsFree DEF CacheInv, LoadSound, Idle
<1>3. (\A m \in Keys : slot[m] # new) /\ (\A p \in Loads : load[p].object # new) /\ new # NoObject
  BY <1>2, ObjectsAre DEF Live
<1> HIDE DEF new
<1>4. entry \in EntryObjects /\ entry.refresh = l /\ entry.refreshedAt = NoValue
  BY <1>1 DEF EntryObjects
<1>5. /\ object' \in [Objects -> EntryObjects]
      /\ object'[new] = entry /\ \A o \in Objects \ {new} : object'[o] = object[o]
  <2>1. object' = [object EXCEPT ![new] = entry]
    BY DEF new
  <2>2. object \in [Objects -> EntryObjects] /\ new \in Objects /\ entry \in EntryObjects
    BY <1>1, <1>2, <1>4
  <2> HIDE DEF entry
  <2>3. object' \in [Objects -> EntryObjects]
    BY <2>1, <2>2, Zenon
  <2>4. object'[new] = entry
    BY <2>1, <2>2, Zenon
  <2>5. \A o \in Objects \ {new} : object'[o] = object[o]
    BY <2>1, <2>2, Zenon
  <2> QED
    BY <2>3, <2>4, <2>5
<1> HIDE DEF entry
<1>6. /\ slot' \in [Keys -> Objects \cup {NoObject}] /\ slot'[k] = new
      /\ \A m \in Keys \ {k} : slot'[m] = slot[m]
  BY <1>1, <1>2 DEF new
<1>7. /\ load' \in [Loads -> LoadRecords]
      /\ load'[l].pc = "loading" /\ load'[l].key = k /\ load'[l].object = new
      /\ \A m \in Loads \ {l} : load'[m] = load[m]
      /\ Cardinality(Pending') = Cardinality(Pending) + 1
  BY <1>2, LoadBegins DEF new
<1>8. /\ order' \in Seq(Keys) /\ IsInjective(order') /\ ToSet(order') = ToSet(order) \cup {k}
      /\ Len(order') = Len(order) + 1 /\ Len(order) \in Nat
  <2>1. /\ order' \in Seq(Keys) /\ DOMAIN order' = 1 .. Len(order) + 1 /\ Len(order') = Len(order) + 1
        /\ DOMAIN order = 1 .. Len(order) /\ Len(order) \in Nat
        /\ order'[Len(order) + 1] = k /\ \A a \in 1 .. Len(order) : order'[a] = order[a]
    BY <1>1
  <2>2. DOMAIN order' = DOMAIN order \cup {Len(order) + 1}
    BY <2>1
  <2>3. \A a \in DOMAIN order : order[a] # k
    BY <1>1 DEF ToSet
  <2>4. IsInjective(order')
    <3>1. \A a, b \in DOMAIN order : order[a] = order[b] => a = b
      BY <1>1 DEF IsInjective
    <3> QED
      BY <2>1, <2>2, <2>3, <3>1 DEF IsInjective
  <2>5. ToSet(order') \subseteq ToSet(order) \cup {k}
    BY <2>1, <2>2 DEF ToSet
  <2>6. ToSet(order) \subseteq ToSet(order') /\ k \in ToSet(order')
    BY <2>1, <2>2 DEF ToSet
  <2> QED
    BY <2>1, <2>4, <2>5, <2>6
<1>9. CacheTypeOK'
  <2>1. \A m \in Keys : slot'[m] # NoObject <=> m \in ToSet(order')
    BY <1>1, <1>3, <1>6, <1>8
  <2>2. \A m, n \in Keys : slot'[m] = slot'[n] /\ m # n => slot'[m] = NoObject
    <3>1. \A m, n \in Keys : slot[m] = slot[n] /\ m # n => slot[m] = NoObject
      BY DEF CacheInv, CacheTypeOK
    <3> QED
      BY <1>3, <1>6, <3>1
  <2>3. object' \in [Objects -> EntryObjects] /\ load' \in [Loads -> LoadRecords]
        /\ cacheTime' \in 0 .. CacheClock
    BY <1>1, <1>5, <1>7
  <2> QED
    BY <1>6, <1>8, <2>1, <2>2, <2>3 DEF CacheTypeOK, EntryObjects, LoadRecords
<1>10. EntriesAccounted'
  <2>1. Len(order) <= MaxEntries + Cardinality(Pending) /\ Cardinality(Pending) \in Nat
    BY PendingIs DEF CacheInv, EntriesAccounted
  <2>2. Len(order') <= MaxEntries + Cardinality(Pending')
    BY <1>7, <1>8, <2>1
  <2>3. ASSUME NEW m \in Keys, slot'[m] # NoObject
        PROVE  HasValue(slot[m])' \/ \E p \in Loads : load'[p].pc = "loading" /\ load'[p].object = slot'[m]
    <3>1. CASE m = k
      BY <1>6, <1>7, <3>1
    <3>2. CASE m # k
      <4>1. slot'[m] = slot[m] /\ slot[m] \in Objects \ {new}
        BY <1>1, <1>3, <1>6, <2>3, <3>2
      <4>2. HasValue(slot[m]) \/ \E p \in Loads : load[p].pc = "loading" /\ load[p].object = slot[m]
        BY <2>3, <4>1 DEF CacheInv, EntriesAccounted
      <4>3. CASE HasValue(slot[m])
        BY <1>5, <4>1, <4>3 DEF HasValue
      <4>4. CASE \E p \in Loads : load[p].pc = "loading" /\ load[p].object = slot[m]
        BY <1>7, <4>1, <4>4 DEF Idle
      <4> QED
        BY <4>2, <4>3, <4>4
    <3> QED
      BY <3>1, <3>2
  <2> QED
    BY <2>2, <2>3 DEF EntriesAccounted
<1>11. \A p \in Loads : LoadSound(p)'
  <2>1. LoadSound(l)'
    BY <1>2, <1>3, <1>6, <1>7 DEF LoadSound, Idle
  <2>2. ASSUME NEW p \in Loads \ {l} PROVE LoadSound(p)'
    BY <1>3, <1>6, <1>7 DEF CacheInv, LoadSound, Idle
  <2> QED
    BY <2>1, <2>2
<1>12. \A m \in Keys, p \in Loads : RefreshSound(m, p)'
  <2> SUFFICES ASSUME NEW m \in Keys, NEW p \in Loads, slot'[m] # NoObject, object'[slot'[m]].refresh = p
               PROVE  ~Idle(p)' /\ load'[p].key = m
    BY DEF RefreshSound
  <2>1. CASE m = k
    BY <1>4, <1>5, <1>6, <1>7, <2>1 DEF Idle
  <2>2. CASE m # k
    <3>1. slot'[m] = slot[m] /\ slot[m] \in Objects \ {new}
      BY <1>1, <1>3, <1>6, <2>2
    <3>2. ~Idle(p) /\ load[p].key = m
      BY <1>5, <3>1 DEF CacheInv, RefreshSound
    <3> QED
      BY <1>7, <3>2 DEF Idle
  <2> QED
    BY <2>1, <2>2
<1> QED
  BY <1>9, <1>10, <1>11, <1>12 DEF CacheInv

\* A load whose promise has settled is still under way.
LEMMA LoadSettles ==
  ASSUME CacheInv, NEW l \in Loads, load[l].pc = "loading", Settled(l)
  PROVE  /\ load' \in [Loads -> LoadRecords]
         /\ load'[l].pc = "settled" /\ load'[l].key = load[l].key /\ load'[l].object = NoObject
         /\ \A m \in Loads \ {l} : load'[m] = load[m]
         /\ Pending' = Pending
<1>1. load \in [Loads -> LoadRecords]
  BY DEF CacheInv, CacheTypeOK, LoadRecords
<1>2. /\ load' \in [Loads -> LoadRecords]
      /\ load'[l].pc = "settled" /\ load'[l].key = load[l].key /\ load'[l].object = NoObject
      /\ \A m \in Loads \ {l} : load'[m] = load[m]
  BY <1>1 DEF LoadRecords, Settled
<1>3. \A m \in Loads : Idle(m)' <=> Idle(m)
  BY <1>2 DEF Idle
<1> QED
  BY <1>2, <1>3 DEF Pending

\* A load that is settled leaves the others sound.
LEMMA SettledIsSound ==
  ASSUME CacheInv, NEW l \in Loads, load[l].pc = "loading", Settled(l),
         \A k \in Keys : slot'[k] \in {slot[k], NoObject}
  PROVE  \A p \in Loads : LoadSound(p)'
<1>1. /\ load'[l].pc = "settled" /\ load'[l].key = load[l].key /\ load'[l].object = NoObject
      /\ \A m \in Loads \ {l} : load'[m] = load[m]
  BY LoadSettles
<1>2. LoadSound(l)'
  BY <1>1 DEF CacheInv, LoadSound, Idle
<1>3. ASSUME NEW p \in Loads \ {l} PROVE LoadSound(p)'
  <2>1. LoadSound(p) /\ load'[p] = load[p]
    BY <1>1 DEF CacheInv
  <2> QED
    BY <2>1, ObjectsAre DEF LoadSound, Idle
<1> QED
  BY <1>2, <1>3

\* The value that arrives is that of the object the load began with.
LEMMA CacheLoaded == ASSUME CacheInv, NEW l \in Loads, Loaded(l) PROVE CacheInv'
<1> DEFINE o == load[l].object
<1>1. load[l].pc = "loading" /\ Settled(l) /\ UNCHANGED <<order, slot, cacheTime>>
  BY DEF Loaded
<1>2. object \in [Objects -> EntryObjects] /\ cacheTime \in 0 .. CacheClock /\ o \in Objects
  BY <1>1 DEF CacheInv, CacheTypeOK, EntryObjects, LoadSound
<1>3. object' = [object EXCEPT ![o].refreshedAt = cacheTime, ![o].accessedAt = cacheTime]
  BY DEF Loaded
<1> HIDE DEF o
<1>4. /\ object' \in [Objects -> EntryObjects]
      /\ \A p \in Objects : object'[p].refresh = object[p].refresh
      /\ object'[o].refreshedAt = cacheTime /\ \A p \in Objects \ {o} : object'[p] = object[p]
  <2> DEFINE once == [object EXCEPT ![o].refreshedAt = cacheTime]
  <2>1. /\ once \in [Objects -> EntryObjects] /\ once[o].refreshedAt = cacheTime
        /\ once[o].refresh = object[o].refresh
        /\ \A p \in Objects \ {o} : once[p] = object[p]
    BY <1>2 DEF EntryObjects
  <2>2. object' = [once EXCEPT ![o].accessedAt = cacheTime]
    BY <1>2, <1>3
  <2> HIDE DEF once
  <2>3. /\ object' \in [Objects -> EntryObjects] /\ object'[o].refreshedAt = once[o].refreshedAt
        /\ object'[o].refresh = once[o].refresh
        /\ \A p \in Objects \ {o} : object'[p] = once[p]
    BY <1>2, <2>1, <2>2 DEF EntryObjects
  <2> QED
    BY <2>1, <2>3
<1>5. /\ load' \in [Loads -> LoadRecords] /\ Pending' = Pending
      /\ load'[l].pc = "settled" /\ load'[l].key = load[l].key
      /\ \A m \in Loads \ {l} : load'[m] = load[m]
  BY <1>1, LoadSettles
<1>6. cacheTime # NoValue
  BY <1>2
<1>7. \A m \in Keys : slot[m] # NoObject => slot[m] \in Objects
  BY DEF CacheInv, CacheTypeOK
<1>8. CacheTypeOK'
  BY <1>1, <1>4, <1>5 DEF CacheInv, CacheTypeOK, EntryObjects, LoadRecords
<1>9. EntriesAccounted'
  <2>1. Len(order') <= MaxEntries + Cardinality(Pending')
    BY <1>1, <1>5 DEF CacheInv, EntriesAccounted
  <2>2. ASSUME NEW m \in Keys, slot[m] # NoObject
        PROVE  HasValue(slot[m])' \/ \E p \in Loads : load'[p].pc = "loading" /\ load'[p].object = slot[m]
    <3>1. CASE slot[m] = o
      BY <1>1, <1>4, <1>6, <3>1 DEF HasValue
    <3>2. CASE slot[m] # o
      <4>1. CASE HasValue(slot[m])
        BY <1>1, <1>4, <1>7, <2>2, <3>2, <4>1 DEF HasValue
      <4>2. CASE \E p \in Loads : load[p].pc = "loading" /\ load[p].object = slot[m]
        BY <1>5, <3>2, <4>2 DEF o
      <4> QED
        BY <2>2, <4>1, <4>2 DEF CacheInv, EntriesAccounted
    <3> QED
      BY <3>1, <3>2
  <2> QED
    BY <1>1, <2>1, <2>2 DEF EntriesAccounted
<1>10. \A p \in Loads : LoadSound(p)'
  BY <1>1, SettledIsSound
<1>11. \A m \in Keys, p \in Loads : RefreshSound(m, p)'
  <2> SUFFICES ASSUME NEW m \in Keys, NEW p \in Loads, slot[m] # NoObject, object'[slot[m]].refresh = p
               PROVE  ~Idle(p)' /\ load'[p].key = m
    BY <1>1 DEF RefreshSound
  <2>1. ~Idle(p) /\ load[p].key = m
    BY <1>4, <1>7 DEF CacheInv, RefreshSound
  <2> QED
    BY <1>5, <2>1 DEF Idle
<1> QED
  BY <1>8, <1>9, <1>10, <1>11 DEF CacheInv

\* What is referred to is not collected.
LEMMA CollectedIs ==
  ASSUME NEW objects \in [Objects -> EntryObjects], NEW held, NEW loading
  PROVE  LET ongoing == Collected(objects, held, loading)
         IN  /\ ongoing \in [Objects -> EntryObjects]
             /\ \A o \in Objects \cap Live(held, loading) : ongoing[o] = objects[o]
<1>1. Blank \in EntryObjects
  BY DEF Blank, EntryObjects
<1> QED
  BY <1>1 DEF Collected

\* Keys that are deleted leave a map of the others.
LEMMA KeysDeleted ==
  ASSUME CacheTypeOK, NEW gone, order' = Without(order, gone),
         slot' = [m \in Keys |-> IF m \in gone THEN NoObject ELSE slot[m]]
  PROVE  /\ order' \in Seq(Keys) /\ IsInjective(order') /\ ToSet(order') = ToSet(order) \ gone
         /\ slot' \in [Keys -> Objects \cup {NoObject}]
         /\ \A k \in Keys : slot'[k] # NoObject <=> k \in ToSet(order')
         /\ \A k, m \in Keys : slot'[k] = slot'[m] /\ k # m => slot'[k] = NoObject
         /\ \A k \in Keys : slot'[k] # NoObject => slot'[k] = slot[k] /\ slot[k] \in Objects /\ k \notin gone
         /\ Len(order') <= Len(order)
<1>1. /\ order \in Seq(Keys) /\ IsInjective(order) /\ slot \in [Keys -> Objects \cup {NoObject}]
      /\ \A k \in Keys : slot[k] # NoObject <=> k \in ToSet(order)
      /\ \A k, m \in Keys : slot[k] = slot[m] /\ k # m => slot[k] = NoObject
  BY DEF CacheTypeOK
<1>2. order' \in Seq(Keys) /\ IsInjective(order') /\ ToSet(order') = ToSet(order) \ gone
  BY <1>1, WithoutIs
<1>3. slot' \in [Keys -> Objects \cup {NoObject}]
  BY <1>1
<1>4. \A k \in Keys : slot'[k] = IF k \in gone THEN NoObject ELSE slot[k]
  OBVIOUS
<1>5. Len(order') <= Len(order)
  <2>1. IsFiniteSet(ToSet(order)) /\ Cardinality(ToSet(order)) = Len(order)
    BY <1>1, LenIsCardinality
  <2>2. Cardinality(ToSet(order')) = Len(order')
    BY <1>2, LenIsCardinality
  <2>3. Cardinality(ToSet(order) \ gone) <= Cardinality(ToSet(order))
    BY <2>1, FS_Subset
  <2> QED
    BY <1>2, <2>1, <2>2, <2>3
<1> QED
  BY <1>1, <1>2, <1>3, <1>4, <1>5

\* A failure deletes an entry that has no value, whatever object it is.
LEMMA CacheFailed == ASSUME CacheInv, NEW l \in Loads, Failed(l) PROVE CacheInv'
<1> DEFINE key == load[l].key
           gone == IF HasValue(load[l].object) THEN {} ELSE {key}
<1>1. load[l].pc = "loading" /\ Settled(l) /\ UNCHANGED cacheTime
      /\ object' = Collected(object, slot', load')
  BY DEF Failed
<1>2. /\ key \in Keys /\ load[l].object \in Objects
      /\ \A k \in Keys : slot[k] = load[l].object => k = key
  BY <1>1 DEF CacheInv, LoadSound, Idle
<1>3. /\ load' \in [Loads -> LoadRecords] /\ Pending' = Pending
      /\ load'[l].pc = "settled" /\ load'[l].key = load[l].key
      /\ \A m \in Loads \ {l} : load'[m] = load[m]
  BY <1>1, LoadSettles
<1>4. object \in [Objects -> EntryObjects] /\ slot \in [Keys -> Objects \cup {NoObject}]
  BY DEF CacheInv, CacheTypeOK, EntryObjects
<1>5. /\ object' \in [Objects -> EntryObjects]
      /\ \A o \in Objects \cap Live(slot', load') : object'[o] = object[o]
  BY <1>1, <1>4, CollectedIs
<1>6. /\ order' \in Seq(Keys) /\ IsInjective(order') /\ Len(order') <= Len(order)
      /\ Len(order') \in Nat /\ Len(order) \in Nat
      /\ slot' \in [Keys -> Objects \cup {NoObject}]
      /\ \A k \in Keys : slot'[k] # NoObject <=> k \in ToSet(order')
      /\ \A k, m \in Keys : slot'[k] = slot'[m] /\ k # m => slot'[k] = NoObject
      /\ \A k \in Keys : slot'[k] # NoObject => slot'[k] = slot[k] /\ slot[k] \in Objects /\ k \notin gone
  <2>1. CASE HasValue(load[l].object)
    <3>1. order' = order /\ slot' = slot
      BY <2>1 DEF Failed
    <3> QED
      BY <2>1, <3>1 DEF CacheInv, CacheTypeOK
  <2>2. CASE ~HasValue(load[l].object)
    <3>1. order' = Without(order, {key}) /\ slot' = [slot EXCEPT ![key] = NoObject]
      BY <2>2 DEF Failed
    <3>2. slot' = [m \in Keys |-> IF m \in {key} THEN NoObject ELSE slot[m]]
      BY <1>2, <1>4, <3>1
    <3>3. gone = {key} /\ order \in Seq(Keys)
      BY <2>2 DEF CacheInv, CacheTypeOK
    <3> HIDE DEF key
    <3>4. CacheTypeOK
      BY DEF CacheInv
    <3> DEFINE deleted == {key}
    <3>5. order' = Without(order, deleted) /\ slot' = [m \in Keys |-> IF m \in deleted THEN NoObject ELSE slot[m]]
      BY <3>1, <3>2
    <3> HIDE DEF deleted
    <3>6. /\ order' \in Seq(Keys) /\ IsInjective(order') /\ Len(order') <= Len(order)
          /\ slot' \in [Keys -> Objects \cup {NoObject}]
          /\ \A k \in Keys : slot'[k] # NoObject <=> k \in ToSet(order')
          /\ \A k, m \in Keys : slot'[k] = slot'[m] /\ k # m => slot'[k] = NoObject
          /\ \A k \in Keys : slot'[k] # NoObject => slot'[k] = slot[k] /\ slot[k] \in Objects /\ k \notin deleted
      BY <3>4, <3>5, KeysDeleted
    <3>7. Len(order') \in Nat /\ Len(order) \in Nat
      BY <3>3, <3>6
    <3>8. deleted = gone
      BY <3>3 DEF deleted
    <3> HIDE DEF gone
    <3> QED
      BY <3>6, <3>7, <3>8
  <2> QED
    BY <2>1, <2>2
<1>7. \A k \in Keys : slot'[k] # NoObject => object'[slot[k]] = object[slot[k]]
  BY <1>5, <1>6 DEF Live
<1>8. CacheTypeOK'
  BY <1>1, <1>3, <1>5, <1>6 DEF CacheInv, CacheTypeOK, EntryObjects, LoadRecords
<1>9. EntriesAccounted'
  <2>1. Len(order') <= MaxEntries + Cardinality(Pending')
    BY <1>3, <1>6, PendingIs DEF CacheInv, EntriesAccounted
  <2>2. ASSUME NEW k \in Keys, slot'[k] # NoObject
        PROVE  HasValue(slot[k])' \/ \E p \in Loads : load'[p].pc = "loading" /\ load'[p].object = slot'[k]
    <3>1. slot'[k] = slot[k] /\ slot[k] \in Objects /\ k \notin gone /\ object'[slot[k]] = object[slot[k]]
          /\ slot[k] # NoObject
      BY <1>6, <1>7, <2>2
    <3>2. CASE HasValue(slot[k])
      BY <3>1, <3>2 DEF HasValue
    <3>3. ASSUME NEW p \in Loads, load[p].pc = "loading", load[p].object = slot[k], ~HasValue(slot[k])
          PROVE  load'[p].pc = "loading" /\ load'[p].object = slot'[k]
      <4>1. p # l
        BY <1>2, <3>1, <3>3
      <4> QED
        BY <1>3, <3>1, <3>3, <4>1
    <3> QED
      BY <3>1, <3>2, <3>3 DEF CacheInv, EntriesAccounted
  <2> QED
    BY <2>1, <2>2 DEF EntriesAccounted
<1>10. \A p \in Loads : LoadSound(p)'
  <2>1. \A k \in Keys : slot'[k] \in {slot[k], NoObject}
    BY <1>6
  <2> QED
    BY <1>1, <2>1, SettledIsSound
<1>11. \A k \in Keys, p \in Loads : RefreshSound(k, p)'
  <2> SUFFICES ASSUME NEW k \in Keys, NEW p \in Loads, slot'[k] # NoObject, object'[slot'[k]].refresh = p
               PROVE  ~Idle(p)' /\ load'[p].key = k
    BY DEF RefreshSound
  <2>1. slot'[k] = slot[k] /\ object'[slot[k]] = object[slot[k]] /\ slot[k] # NoObject
    BY <1>6, <1>7
  <2>2. ~Idle(p) /\ load[p].key = k
    BY <2>1 DEF CacheInv, RefreshSound
  <2> QED
    BY <1>1, <1>3, <2>2 DEF Idle
<1> QED
  BY <1>8, <1>9, <1>10, <1>11 DEF CacheInv

\* What pruning leaves over the capacity is result by a load under way.
LEMMA PrunedEnough ==
  ASSUME CacheInv, NEW l \in Loads, ~Idle(l),
         NEW obj \in [Objects -> EntryObjects],
         \A m \in Keys \ {load[l].key} : slot[m] # NoObject => obj[slot[m]] = object[slot[m]],
         NEW gone, gone = Evicted(load[l].key, obj)
  PROVE  Cardinality(ToSet(order) \ gone) <= MaxEntries + Cardinality(Pending \ {l})
<1> DEFINE key == load[l].key
           rest == ToSet(order) \ gone
           others == rest \ {key}
           ongoing == Pending \ {l}
<1>1. key \in Keys
  BY DEF CacheInv, LoadSound
<1>2. /\ order \in Seq(Keys) /\ IsInjective(order) /\ ToSet(order) \subseteq Keys
      /\ \A m \in ToSet(order) : slot[m] # NoObject /\ slot[m] \in Objects
  <2>1. order \in Seq(Keys) /\ IsInjective(order)
    BY DEF CacheInv, CacheTypeOK
  <2>2. ToSet(order) \subseteq Keys
    BY <2>1 DEF ToSet
  <2> QED
    BY <2>1, <2>2 DEF CacheInv, CacheTypeOK
<1>3. IsFiniteSet(ToSet(order))
  BY <1>2, LenIsCardinality
<1>4. IsFiniteSet(rest) /\ Cardinality(rest) \in Nat
  <2>1. IsFiniteSet(rest)
    BY <1>3, FS_Subset
  <2> QED
    BY <2>1, FS_CardinalityType
<1>5. IsFiniteSet(ongoing) /\ Cardinality(ongoing) \in Nat
  <2>1. IsFiniteSet(ongoing)
    BY PendingIs, FS_Subset
  <2> QED
    BY <2>1, FS_CardinalityType
<1>6. \/ \A m \in rest : m = key \/ obj[slot[m]].refresh # NoLoad
      \/ Cardinality(rest) <= MaxEntries
  <2>1. CacheTypeOK /\ MaxEntries \in Nat /\ gone = EvictedTo(MaxEntries, key, obj)
    BY DEF CacheInv, Evicted
  <2>2. obj \in [Objects -> [refreshedAt : NoValue .. CacheClock, accessedAt : 0 .. CacheClock,
                             refresh : Loads \cup {NoLoad}]]
    BY DEF EntryObjects
  <2> HIDE DEF key
  <2> QED
    BY <1>1, <2>1, <2>2, EvictedEnough
<1>7. CASE Cardinality(rest) <= MaxEntries
  BY <1>4, <1>5, <1>7
<1>8. ASSUME \A m \in rest : m = key \/ obj[slot[m]].refresh # NoLoad
      PROVE  Cardinality(rest) <= MaxEntries + Cardinality(ongoing)
  <2> DEFINE loadOf == [m \in others |-> object[slot[m]].refresh]
  <2>1. ASSUME NEW m \in others
        PROVE  loadOf[m] \in ongoing /\ load[loadOf[m]].key = m
    <3>1. m \in Keys /\ m # key /\ slot[m] # NoObject /\ slot[m] \in Objects /\ m \in rest
      BY <1>2
    <3>2. object[slot[m]].refresh \in Loads
      <4>1. obj[slot[m]].refresh \in Loads
        BY <1>8, <3>1 DEF EntryObjects
      <4> QED
        BY <3>1, <4>1
    <3>3. loadOf[m] \in Loads /\ ~Idle(loadOf[m]) /\ load[loadOf[m]].key = m
      BY <3>1, <3>2 DEF CacheInv, RefreshSound
    <3> QED
      BY <3>1, <3>3 DEF Pending
  <2>2. loadOf \in Injection(others, ongoing)
    <3>1. loadOf \in [others -> ongoing]
      BY <2>1
    <3> HIDE DEF loadOf, others, ongoing
    <3> QED
      BY <2>1, <3>1 DEF Injection, IsInjective
  <2>3. Cardinality(others) <= Cardinality(ongoing)
    <3> HIDE DEF loadOf, others, ongoing
    <3> QED
      BY <1>5, <2>2, FS_Injection
  <2>4. Cardinality(others) = IF key \in rest THEN Cardinality(rest) - 1 ELSE Cardinality(rest)
    <3> HIDE DEF rest, key
    <3> QED
      BY <1>4, FS_RemoveElement
  <2>5. MaxEntries >= 1 /\ MaxEntries \in Nat
    OBVIOUS
  <2> HIDE DEF others, ongoing, rest, key
  <2> QED
    BY <1>4, <1>5, <2>3, <2>4, <2>5
<1> QED
  BY <1>6, <1>7, <1>8

\* The end of a load enforces the capacity the other loads leave.
LEMMA CacheFinally == ASSUME CacheInv, NEW l \in Loads, Finally(l) PROVE CacheInv'
<1> DEFINE key == load[l].key
           cleared == IF slot[key] = NoObject THEN object
                      ELSE [object EXCEPT ![slot[key]].refresh = NoLoad]
           gone == Evicted(key, cleared)
<1>1. /\ load[l].pc = "settled" /\ order' = Without(order, gone)
      /\ slot' = [m \in Keys |-> IF m \in gone THEN NoObject ELSE slot[m]]
      /\ load' = [load EXCEPT ![l] = Waiting]
      /\ object' = Collected(cleared, slot', load') /\ cacheTime' = cacheTime
  BY DEF Finally
<1>2. /\ object \in [Objects -> EntryObjects] /\ slot \in [Keys -> Objects \cup {NoObject}]
      /\ load \in [Loads -> LoadRecords] /\ order \in Seq(Keys)
      /\ \A k, m \in Keys : slot[k] = slot[m] /\ k # m => slot[k] = NoObject
  BY DEF CacheInv, CacheTypeOK, EntryObjects, LoadRecords
<1>3. key \in Keys /\ ~Idle(l)
  BY <1>1 DEF CacheInv, LoadSound, Idle
<1>4. /\ cleared \in [Objects -> EntryObjects]
      /\ \A o \in Objects : cleared[o].refreshedAt = object[o].refreshedAt
      /\ \A o \in Objects : o # slot[key] => cleared[o] = object[o]
      /\ slot[key] # NoObject => cleared[slot[key]].refresh = NoLoad
  <2>1. CASE slot[key] = NoObject
    BY <1>2, <2>1
  <2>2. CASE slot[key] # NoObject
    <3>1. slot[key] \in Objects
      BY <1>2, <1>3, <2>2
    <3>2. cleared = [object EXCEPT ![slot[key]].refresh = NoLoad]
      BY <2>2
    <3> HIDE DEF cleared, key
    <3> QED
      BY <1>2, <3>1, <3>2 DEF EntryObjects
  <2> QED
    BY <2>1, <2>2
<1> HIDE DEF cleared
<1>5. \A m \in Keys \ {key} : slot[m] # NoObject => cleared[slot[m]] = object[slot[m]]
  BY <1>2, <1>3, <1>4
<1>6. Cardinality(ToSet(order) \ gone) <= MaxEntries + Cardinality(Pending \ {l})
  <2> DEFINE away == gone
  <2>1. away = Evicted(load[l].key, cleared)
    OBVIOUS
  <2>2. cleared \in [Objects -> EntryObjects]
    BY <1>4
  <2>3. \A m \in Keys \ {load[l].key} : slot[m] # NoObject => cleared[slot[m]] = object[slot[m]]
    BY <1>5
  <2> HIDE DEF away, gone, key
  <2>4. Cardinality(ToSet(order) \ away) <= MaxEntries + Cardinality(Pending \ {l})
    BY <1>3, <2>1, <2>2, <2>3, PrunedEnough
  <2> QED
    BY <2>4 DEF away
<1> HIDE DEF gone, key
<1>7. /\ order' \in Seq(Keys) /\ IsInjective(order') /\ ToSet(order') = ToSet(order) \ gone
      /\ slot' \in [Keys -> Objects \cup {NoObject}]
      /\ \A k \in Keys : slot'[k] # NoObject <=> k \in ToSet(order')
      /\ \A k, m \in Keys : slot'[k] = slot'[m] /\ k # m => slot'[k] = NoObject
      /\ \A k \in Keys : slot'[k] # NoObject => slot'[k] = slot[k] /\ slot[k] \in Objects /\ k \notin gone
  BY <1>1, KeysDeleted DEF CacheInv
<1>8. Waiting \in LoadRecords /\ Waiting.pc = "idle" /\ Waiting.object = NoObject
  BY DEF Waiting, LoadRecords
<1>9. load' \in [Loads -> LoadRecords] /\ load'[l] = Waiting /\ \A p \in Loads \ {l} : load'[p] = load[p]
  BY <1>1, <1>2, <1>8
<1>10. Pending' = Pending \ {l}
  BY <1>8, <1>9 DEF Pending, Idle
<1>11. /\ object' \in [Objects -> EntryObjects]
       /\ \A k \in Keys : slot'[k] # NoObject => object'[slot[k]] = cleared[slot[k]]
  <2>1. /\ object' \in [Objects -> EntryObjects]
        /\ \A o \in Objects \cap Live(slot', load') : object'[o] = cleared[o]
    BY <1>1, <1>4, CollectedIs
  <2>2. \A k \in Keys : slot'[k] # NoObject => slot[k] \in Objects \cap Live(slot', load')
    BY <1>7 DEF Live
  <2> QED
    BY <2>1, <2>2
<1>12. CacheTypeOK'
  BY <1>1, <1>7, <1>9, <1>11 DEF CacheInv, CacheTypeOK, EntryObjects, LoadRecords
<1>13. EntriesAccounted'
  <2>1. Len(order') <= MaxEntries + Cardinality(Pending')
    <3>1. Cardinality(ToSet(order')) = Len(order')
      BY <1>7, LenIsCardinality
    <3> QED
      BY <1>6, <1>7, <1>10, <3>1
  <2>2. ASSUME NEW k \in Keys, slot'[k] # NoObject
        PROVE  HasValue(slot[k])' \/ \E p \in Loads : load'[p].pc = "loading" /\ load'[p].object = slot'[k]
    <3>1. slot'[k] = slot[k] /\ slot[k] \in Objects /\ object'[slot[k]].refreshedAt = object[slot[k]].refreshedAt
          /\ slot[k] # NoObject
      BY <1>4, <1>7, <1>11, <2>2
    <3>2. CASE HasValue(slot[k])
      BY <3>1, <3>2 DEF HasValue
    <3>3. ASSUME NEW p \in Loads, load[p].pc = "loading", load[p].object = slot[k]
          PROVE  load'[p].pc = "loading" /\ load'[p].object = slot'[k]
      BY <1>1, <1>9, <3>1, <3>3
    <3> QED
      BY <3>1, <3>2, <3>3 DEF CacheInv, EntriesAccounted
  <2> QED
    BY <2>1, <2>2 DEF EntriesAccounted
<1>14. \A p \in Loads : LoadSound(p)'
  <2>1. LoadSound(l)'
    BY <1>8, <1>9 DEF LoadSound, Idle
  <2>2. ASSUME NEW p \in Loads \ {l} PROVE LoadSound(p)'
    <3>1. LoadSound(p) /\ load'[p] = load[p]
      BY <1>9 DEF CacheInv
    <3> QED
      BY <1>7, <3>1, ObjectsAre DEF LoadSound, Idle
  <2> QED
    BY <2>1, <2>2
<1>15. \A k \in Keys, p \in Loads : RefreshSound(k, p)'
  <2> SUFFICES ASSUME NEW k \in Keys, NEW p \in Loads, slot'[k] # NoObject, object'[slot'[k]].refresh = p
               PROVE  ~Idle(p)' /\ load'[p].key = k
    BY DEF RefreshSound
  <2>1. slot'[k] = slot[k] /\ cleared[slot[k]].refresh = p /\ slot[k] # NoObject
    BY <1>7, <1>11
  <2>2. k # key
    BY <1>4, <2>1
  <2>3. object[slot[k]].refresh = p
    BY <1>5, <2>1, <2>2
  <2>4. ~Idle(p) /\ load[p].key = k /\ p # l
    BY <2>1, <2>2, <2>3 DEF CacheInv, RefreshSound, key
  <2> QED
    BY <1>9, <2>4 DEF Idle
<1> QED
  BY <1>12, <1>13, <1>14, <1>15 DEF CacheInv

\* Every step of the cache keeps the invariant.
LEMMA CacheStep == CacheInv /\ [CacheNext]_cacheVars => CacheInv'
<1> SUFFICES ASSUME CacheInv, [CacheNext]_cacheVars PROVE CacheInv'
  OBVIOUS
<1>1. ASSUME NEW k \in Keys, Get(k) PROVE CacheInv'
  <2>1. CASE /\ slot[k] # NoObject
             /\ object' = [object EXCEPT ![slot[k]].accessedAt = cacheTime]
             /\ UNCHANGED <<order, slot, load, cacheTime>>
    BY <2>1, CacheTouched
  <2>2. ASSUME NEW l \in Loads, Idle(l), slot[k] # NoObject, object[slot[k]].refresh = NoLoad,
               object' = [object EXCEPT ![slot[k]].accessedAt = cacheTime, ![slot[k]].refresh = l],
               Fetch(l, k, slot[k]), UNCHANGED <<order, slot, cacheTime>>
        PROVE  CacheInv'
    BY <2>2, CacheRefreshed
  <2>3. ASSUME NEW l \in Loads, Idle(l), slot[k] = NoObject,
               order' = Append(order, k), slot' = [slot EXCEPT ![k] = NewObject],
               object' = [object EXCEPT ![NewObject] =
                            [refreshedAt |-> NoValue, accessedAt |-> cacheTime, refresh |-> l]],
               Fetch(l, k, NewObject), UNCHANGED cacheTime
        PROVE  CacheInv'
    BY <2>3, CacheEntered
  <2> QED
    BY <1>1, <2>1, <2>2, <2>3, Zenon DEF Get
<1>2. ASSUME NEW l \in Loads, Loaded(l) PROVE CacheInv'
  BY <1>2, CacheLoaded
<1>3. ASSUME NEW l \in Loads, Failed(l) PROVE CacheInv'
  BY <1>3, CacheFailed
<1>4. ASSUME NEW l \in Loads, Finally(l) PROVE CacheInv'
  BY <1>4, CacheFinally
<1>5. CASE CacheTick
  <2>1. cacheTime' \in 0 .. CacheClock /\ UNCHANGED <<order, slot, object, load>>
    BY <1>5 DEF CacheTick, CacheInv, CacheTypeOK
  <2>2. CacheTypeOK'
    BY <2>1 DEF CacheInv, CacheTypeOK
  <2>3. EntriesAccounted'
    BY <2>1 DEF CacheInv, EntriesAccounted, Pending, Idle, HasValue
  <2>4. (\A l \in Loads : LoadSound(l)') /\ \A k \in Keys, l \in Loads : RefreshSound(k, l)'
    BY <2>1 DEF CacheInv, LoadSound, RefreshSound, Idle
  <2> QED
    BY <2>2, <2>3, <2>4 DEF CacheInv
<1>6. CASE UNCHANGED cacheVars
  <2>1. UNCHANGED <<order, slot, object, load, cacheTime>>
    BY <1>6 DEF cacheVars
  <2>2. CacheTypeOK'
    BY <2>1 DEF CacheInv, CacheTypeOK
  <2>3. EntriesAccounted'
    BY <2>1 DEF CacheInv, EntriesAccounted, Pending, Idle, HasValue
  <2>4. (\A l \in Loads : LoadSound(l)') /\ \A k \in Keys, l \in Loads : RefreshSound(k, l)'
    BY <2>1 DEF CacheInv, LoadSound, RefreshSound, Idle
  <2> QED
    BY <2>2, <2>3, <2>4 DEF CacheInv
<1> QED
  BY <1>1, <1>2, <1>3, <1>4, <1>5, <1>6 DEF CacheNext

\* The cache keeps its invariant.
LEMMA CacheHolds == CacheSpec => []CacheInv
<1> QED
  BY CacheInitially, CacheStep, PTL DEF CacheSpec

\* The cache keeps its types: a key is in the map exactly if it has an
\* object, and no object is held under two keys (get, prune).
THEOREM CacheTypeCorrect == CacheSpec => []CacheTypeOK
<1>1. CacheInv => CacheTypeOK
  BY DEF CacheInv
<1> QED
  BY <1>1, CacheHolds, PTL

\* Entries over the capacity, and entries without a value, are only there
\* for a load under way, however loads and failures overlap (refresh).
THEOREM EntriesAlwaysAccounted == CacheSpec => []EntriesAccounted
<1>1. CacheInv => EntriesAccounted
  BY DEF CacheInv
<1> QED
  BY <1>1, CacheHolds, PTL

-----------------------------------------------------------------------------
(* BackfillAdmission.  The inductive invariant counts the jobs that may    *)
(* still create a run together with the runs that live; a start is         *)
(* admitted only when there is neither, or it is one of the slips the      *)
(* model names.                                                            *)

USE AdmissionConstants DEF AdmissionConstants

(* In the first state nothing lives and nothing is queued.                 *)
LEMMA AdmissionInitially == AdmissionInit => AdmissionInv
<1> SUFFICES ASSUME AdmissionInit PROVE AdmissionInv
  OBVIOUS
<1>1. 0 \in 0 .. MaxLive /\ 0 \in 0 .. StartAttempts - 1 /\ 0 \in 0 .. StartAttempts
  OBVIOUS
<1>2. AdmissionTypeOK
  BY ONLY <1>1, AdmissionInit, Zenon DEF AdmissionInit, AdmissionTypeOK, NoStart, NoControl
<1>3. live = 0 /\ startJob.waits = FALSE /\ control.pc = "idle"
  BY DEF AdmissionInit, NoStart, NoControl
<1>4. live + Creators <= 1
  BY <1>3 DEF Creators
<1> QED
  BY <1>2, <1>4 DEF AdmissionInv

(* Every step keeps the types and the count of runs and of the jobs that   *)
(* may create one.                                                         *)
LEMMA AdmissionStep == AdmissionInv /\ [AdmissionNext]_admissionVars => AdmissionInv'
<1> SUFFICES ASSUME AdmissionInv, [AdmissionNext]_admissionVars PROVE AdmissionInv'
  OBVIOUS
<1> USE DEF AdmissionInv, AdmissionTypeOK, Creators
<1>1. CASE StartChecksRuns
  BY <1>1 DEF StartChecksRuns
<1>2. CASE StartChecksJobs
  <2>1. CASE StartAnyway /\ ~SchedulerQueued
    <3>1. startJob' \in [waits : BOOLEAN, tries : 0 .. StartAttempts - 1]
      BY <2>1 DEF StartAnyway
    <3>2. startJob'.waits /\ UNCHANGED <<live, resumeJob, control>> /\ starting' = FALSE
      BY <2>1 DEF StartAnyway
    <3>3. slipped' \in BOOLEAN
      BY ONLY <2>1, Zenon DEF StartAnyway
    <3>4. slipped' \/ (~slipped /\ ~(live > 0) /\ ~(Executing /\ control.tries = StartAttempts))
      BY ONLY <2>1, Zenon DEF StartAnyway
    <3>5. ~(control.pc \in {"start", "died"} /\ control.tries < StartAttempts) /\ ~startJob.waits
      BY <2>1 DEF SchedulerQueued, Executing
    <3>6. ~slipped' => live' + Creators' <= 1
      BY <3>2, <3>4, <3>5 DEF Executing
    <3> QED
      BY <3>1, <3>2, <3>3, <3>6
  <2>2. CASE UNCHANGED <<live, startJob, resumeJob, control, slipped>> /\ starting' = FALSE
    BY <2>2
  <2> QED
    BY <1>2, <2>1, <2>2 DEF StartChecksJobs
<1>3. CASE ResumeRun
  BY <1>3 DEF ResumeRun
<1>4. CASE TakeStart
  BY <1>4 DEF TakeStart, NoStart
<1>5. CASE TakeResume
  <2>1. control.pc = "idle" /\ control'.pc = "resume"
    BY <1>5 DEF TakeResume, NoControl
  <2>2. 0 \in 0 .. StartAttempts
    OBVIOUS
  <2>3. control' = [pc |-> "resume", tries |-> 0] /\ resumeJob' = FALSE
    BY <1>5 DEF TakeResume, NoControl
  <2>4. UNCHANGED <<live, starting, startJob, slipped>>
    BY <1>5 DEF TakeResume
  <2>5. AdmissionTypeOK'
    BY <2>2, <2>3, <2>4, Zenon
  <2> QED
    BY <2>1, <2>4, <2>5
<1>6. CASE CreateRun
  BY <1>6 DEF CreateRun
<1>7. CASE ControlEnds
  BY <1>7 DEF ControlEnds, NoControl
<1>8. CASE CreationFails
  BY <1>8 DEF CreationFails, Retried, NoControl
<1>9. CASE StarterDies
  <2>1. slipped' \in BOOLEAN
    BY ONLY <1>9, Zenon DEF StarterDies
  <2>2. slipped' \/ (~slipped /\ ~(control.pc = "created" /\ control.tries < StartAttempts))
    BY ONLY <1>9, Zenon DEF StarterDies
  <2>3. control' = [control EXCEPT !.pc = "died"] /\ control.pc \in {"start", "created"}
    BY <1>9 DEF StarterDies
  <2>4. UNCHANGED <<live, starting, startJob, resumeJob>>
    BY <1>9 DEF StarterDies
  <2>5. control' \in [pc : {"idle", "start", "created", "died", "resume"}, tries : 0 .. StartAttempts]
    BY <2>3
  <2>6. ~slipped' => live' + Creators' <= 1
    BY <2>2, <2>3, <2>4
  <2> QED
    BY <2>1, <2>4, <2>5, <2>6
<1>10. CASE LockExpires
  BY <1>10 DEF LockExpires, Retried, NoControl
<1>11. CASE RunEnds
  BY <1>11 DEF RunEnds
<1>12. CASE UNCHANGED admissionVars
  BY <1>12 DEF admissionVars
<1> QED
  BY <1>1, <1>2, <1>3, <1>4, <1>5, <1>6, <1>7, <1>8, <1>9, <1>10, <1>11, <1>12 DEF AdmissionNext

(* At most one run lives in every reachable state, unless a start slipped  *)
(* past the admission in one of the three ways the code leaves open.       *)
THEOREM OneRunAtATime == AdmissionSpec => []OneLiveRun
<1>1. AdmissionInv => OneLiveRun
  BY DEF AdmissionInv, AdmissionTypeOK, OneLiveRun, Creators
<1> QED
  BY <1>1, AdmissionInitially, AdmissionStep, PTL DEF AdmissionSpec

-----------------------------------------------------------------------------
(* MCServices: the components as one system, each in behaviours of its own. *)

\* A component takes only its own steps.
LEMMA ComponentsRunApart ==
  ServicesSpec => /\ CacheSpec /\ StorageSpec /\ AccessSpec /\ SourceSpec /\ DashboardSpec
                  /\ AdmissionSpec /\ [](part \in Components)
<1>1. ServicesInit => /\ CacheInit /\ StorageInit /\ AccessInit /\ SourceInit /\ DashboardInit
                      /\ AdmissionInit /\ part \in Components
  BY DEF ServicesInit
<1>2. ASSUME [ServicesNext]_servicesVars
      PROVE  /\ [CacheNext]_cacheVars /\ [StorageNext]_storageVars /\ [AccessNext]_accessVars
             /\ [SourceNext]_sourceVars /\ [DashboardNext]_dashboardVars
             /\ [AdmissionNext]_admissionVars /\ UNCHANGED part
  <2>1. CASE UNCHANGED servicesVars
    BY <2>1, Zenon DEF servicesVars
  <2>2. ASSUME NEW name, Others(name)
        PROVE  /\ name # "cache" => UNCHANGED cacheVars
               /\ name # "storage" => UNCHANGED storageVars
               /\ name # "access" => UNCHANGED accessVars
               /\ name # "source" => UNCHANGED sourceVars
               /\ name # "dashboard" => UNCHANGED dashboardVars
               /\ name # "admission" => UNCHANGED admissionVars
               /\ UNCHANGED part
    BY <2>2, Zenon DEF Others
  <2>3. CASE CacheNext /\ Others("cache")
    BY <2>2, <2>3
  <2>4. CASE StorageNext /\ Others("storage")
    BY <2>2, <2>4
  <2>5. CASE AccessNext /\ Others("access")
    BY <2>2, <2>5
  <2>6. CASE SourceNext /\ Others("source")
    BY <2>2, <2>6
  <2>7. CASE DashboardNext /\ Others("dashboard")
    BY <2>2, <2>7
  <2>8. CASE AdmissionNext /\ Others("admission")
    BY <2>2, <2>8
  <2> QED
    BY <1>2, <2>1, <2>3, <2>4, <2>5, <2>6, <2>7, <2>8 DEF ServicesNext
<1>3. part \in Components /\ UNCHANGED part => (part \in Components)'
  OBVIOUS
<1> QED
  BY <1>1, <1>2, <1>3, PTL
  DEF ServicesSpec, CacheSpec, StorageSpec, AccessSpec, SourceSpec, DashboardSpec, AdmissionSpec

\* At most one run, from the invariant of the admission.
LEMMA AdmissionHolds == AdmissionSpec => []AdmissionInv
<1> QED
  BY AdmissionInitially, AdmissionStep, PTL DEF AdmissionSpec

\* Every component keeps its types.
THEOREM ServicesTypeCorrect == ServicesSpec => []ServicesTypeOK
<1>1. AdmissionInv => AdmissionTypeOK
  BY DEF AdmissionInv
<1>2. SourceInv => SourceTypeOK
  BY DEF SourceInv
<1>3. SourceSpec => []SourceInv
  BY SourceInitially, SourceStep, PTL DEF SourceSpec
<1> QED
  BY <1>1, <1>2, <1>3, ComponentsRunApart, CacheTypeCorrect, StorageTypeCorrect, AccessTypeCorrect,
     DashboardTyped, AdmissionHolds, PTL DEF ServicesTypeOK

\* What holds of each component holds of them together: the entries of the
\* cache are accounted for, no stage of a migration leaves anything, logins
\* are bounded, and there is one chain of polls and one live run.
THEOREM ServicesAreSafe ==
  ServicesSpec => [](EntriesAccounted /\ StageLeavesNothing /\ LoginsBounded /\ OneChain /\ OneLiveRun)
<1> QED
  BY ComponentsRunApart, EntriesAlwaysAccounted, StagesLeaveNothing, PasswordsLimited,
     OnePollingChain, OneRunAtATime, PTL
=============================================================================
