---------------------------- MODULE SavedWorkspace ----------------------------
(***************************************************************************)
(* The saved cars and views of a browser.  They are one value of           *)
(* localStorage, which every tab renders and which every click writes as a *)
(* whole: a handler changes the state its tab has rendered, not the stored *)
(* one.  A write shows in its own tab at once and in the others when their *)
(* storage event comes.  A stored value beyond the limits of its schema    *)
(* does not parse, and is shown, and later overwritten, as empty.          *)
(*                                                                         *)
(* Titles are left out: they are cut to their limits before they are       *)
(* saved.  So are addresses over their limit of 6000 characters.           *)
(***************************************************************************)
EXTENDS Integers, FiniteSets

CONSTANTS
  Tabs, SavedCars, SavedViews,
  CompareLimit,    \* cars in a comparison
  ShortlistLimit,  \* MAX_SAVED_CARS
  ViewLimit,       \* saved searches
  MaxWrites        \* bound on the writes of a behaviour

ASSUME SavedConstants ==
  /\ IsFiniteSet(SavedCars) /\ IsFiniteSet(SavedViews)
  /\ CompareLimit \in Nat /\ ShortlistLimit \in Nat /\ CompareLimit <= ShortlistLimit
  /\ ViewLimit \in Nat /\ MaxWrites \in Nat

VARIABLES
  stored,     \* the value under the current key, if any
  earlier,    \* the value under the key of version 1, if any
  rendered,   \* what each tab shows
  writes      \* history: writes so far

savedVars == <<stored, earlier, rendered, writes>>

Empty == [cars |-> {}, shortlist |-> {}, searches |-> {}]
Workspace == [cars : SUBSET SavedCars, shortlist : SUBSET SavedCars, searches : SUBSET SavedViews]
Parses(s) ==
  /\ Cardinality(s.cars) <= CompareLimit
  /\ Cardinality(s.shortlist) <= ShortlistLimit
  /\ Cardinality(s.searches) <= ViewLimit

(* The value a tab reads: a value of version 1 has no shortlist, and its   *)
(* cars are taken for one.                                                 *)
ParsedState(s) == IF Parses(s) THEN s ELSE Empty
Version1(s) == [s EXCEPT !.shortlist = s.cars]
Snapshot(current, old) ==
  IF current # {} THEN ParsedState(CHOOSE s \in current : TRUE)
  ELSE IF old # {} THEN ParsedState(CHOOSE s \in old : TRUE) ELSE Empty

SavedTypeOK ==
  /\ stored \subseteq Workspace /\ Cardinality(stored) <= 1
  /\ earlier \subseteq Workspace /\ Cardinality(earlier) <= 1
  /\ rendered \in [Tabs -> Workspace]
  /\ writes \in 0 .. MaxWrites

SavedInit ==
  /\ stored = {}
  /\ earlier \in {{}} \cup {{Version1([Empty EXCEPT !.cars = c])} :
                            c \in {x \in SUBSET SavedCars : Cardinality(x) = CompareLimit}}
  /\ rendered = [t \in Tabs |-> Snapshot({}, earlier)]
  /\ writes = 0

-----------------------------------------------------------------------------
(* save: a failing write of the browser changes nothing but a message.     *)
Save(t, next) ==
  /\ writes < MaxWrites
  /\ writes' = writes + 1
  /\ stored' = {next}
  /\ rendered' = [rendered EXCEPT ![t] = Snapshot({next}, earlier)]
  /\ UNCHANGED earlier

(* The storage event of another tab's write.                               *)
StorageEvent(t) ==
  /\ rendered[t] # Snapshot(stored, earlier)
  /\ rendered' = [rendered EXCEPT ![t] = Snapshot(stored, earlier)]
  /\ UNCHANGED <<stored, earlier, writes>>

ToggledCars(s, car) ==
  [s EXCEPT !.cars = IF car \in s.cars THEN s.cars \ {car} ELSE s.cars \cup {car}]
ToggledShortlist(s, car) ==
  [s EXCEPT !.shortlist = IF car \in s.shortlist THEN s.shortlist \ {car} ELSE s.shortlist \cup {car}]

SaveCarClick(t, car) ==
  /\ car \in rendered[t].shortlist \/ Cardinality(rendered[t].shortlist) < ShortlistLimit
  /\ Save(t, ToggledShortlist(rendered[t], car))

(* Mutant: the change is applied to what is stored now.                    *)
CompareStored(t, car) ==
  /\ car \in rendered[t].cars \/ Cardinality(rendered[t].cars) < CompareLimit
  /\ Save(t, ToggledCars(Snapshot(stored, earlier), car))

CompareClick(t, car) ==
  /\ car \in rendered[t].cars \/ Cardinality(rendered[t].cars) < CompareLimit
  /\ Save(t, ToggledCars(rendered[t], car))

ClearSelection(t) ==
  /\ rendered[t].cars # {}
  /\ Save(t, [rendered[t] EXCEPT !.cars = {}])

(* The cars of the compared view replace the selection.                    *)
ChooseMore(t) ==
  \E shown \in SUBSET SavedCars :
    /\ Cardinality(shown) \in 1 .. CompareLimit - 1
    /\ Save(t, [rendered[t] EXCEPT !.cars = shown])

SaveView(t, href) ==
  /\ href \in rendered[t].searches \/ Cardinality(rendered[t].searches) < ViewLimit
  /\ Save(t, [rendered[t] EXCEPT !.searches = @ \cup {href}])

RemoveView(t, href) ==
  /\ href \in rendered[t].searches
  /\ Save(t, [rendered[t] EXCEPT !.searches = @ \ {href}])

SavedNext == \E t \in Tabs :
  \/ StorageEvent(t)
  \/ \E car \in SavedCars : SaveCarClick(t, car) \/ CompareClick(t, car)
  \/ ClearSelection(t) \/ ChooseMore(t)
  \/ \E href \in SavedViews : SaveView(t, href) \/ RemoveView(t, href)

SavedSpec == SavedInit /\ [][SavedNext]_savedVars

-----------------------------------------------------------------------------
(* Whatever the tabs have rendered when they write, the stored value stays *)
(* within the limits of its schema, so that no tab ever shows, and writes  *)
(* back, an empty workspace in its place.                                  *)
SavedReadable == \A s \in stored \cup earlier : Parses(s)
=============================================================================
