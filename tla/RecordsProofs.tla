---------------------------- MODULE RecordsProofs ----------------------------
(***************************************************************************)
(* Theorems about the records of the market and the pages that show them,  *)
(* for any instance: the browser's saved workspace, the market filter      *)
(* form, the archive of hero images, the links between pages, the market   *)
(* over time, the answers of the public API and the parser of detail       *)
(* pages.  The last section proves them of the composition.  The lemmas    *)
(* about numbers are those of ListingHistoryProofs.                        *)
(***************************************************************************)
EXTENDS ListingHistoryProofs, MCRecords, FiniteSetTheorems

-----------------------------------------------------------------------------
(* SavedWorkspace.                                                         *)

\* The workspaces a schema accepts.
Saveable == {s \in Workspace : Parses(s)}

(* Whatever is stored parses, and so does whatever a tab shows: a click    *)
(* changes what is shown, within limits it checks against the shown value. *)
SavedInv ==
  /\ SavedTypeOK
  /\ stored \subseteq Saveable /\ earlier \subseteq Saveable
  /\ rendered \in [Tabs -> Saveable]

\* Nothing saved is a workspace the schema accepts.
LEMMA EmptySaveable == Empty \in Saveable
<1>1. Empty \in Workspace
  BY DEF Empty, Workspace
<1>2. Parses(Empty)
  BY SavedConstants, FS_EmptySet DEF Empty, Parses
<1> QED
  BY <1>1, <1>2 DEF Saveable

\* What a tab reads of acceptable values is acceptable, and of one value that value.
LEMMA SnapshotSaveable ==
  ASSUME NEW current \in SUBSET Saveable, NEW old \in SUBSET Saveable
  PROVE  /\ Snapshot(current, old) \in Saveable
         /\ \A s : current = {s} => Snapshot(current, old) = s
<1>1. \A s \in Saveable : ParsedState(s) = s
  BY DEF ParsedState, Saveable
<1>2. current # {} => (CHOOSE s \in current : TRUE) \in current
  OBVIOUS
<1>3. old # {} => (CHOOSE s \in old : TRUE) \in old
  OBVIOUS
<1>4. Snapshot(current, old) \in Saveable
  BY <1>1, <1>2, <1>3, EmptySaveable DEF Snapshot
<1>5. ASSUME NEW s, current = {s} PROVE Snapshot(current, old) = s
  BY <1>1, <1>2, <1>5 DEF Snapshot
<1> QED
  BY <1>4, <1>5

\* The sets of a workspace are finite.
LEMMA SavedFinite ==
  /\ \A S \in SUBSET SavedCars : IsFiniteSet(S) /\ Cardinality(S) \in Nat
  /\ \A S \in SUBSET SavedViews : IsFiniteSet(S) /\ Cardinality(S) \in Nat
<1>1. ASSUME NEW S \in SUBSET SavedCars PROVE IsFiniteSet(S) /\ Cardinality(S) \in Nat
  BY SavedConstants, FS_Subset, FS_CardinalityType
<1>2. ASSUME NEW S \in SUBSET SavedViews PROVE IsFiniteSet(S) /\ Cardinality(S) \in Nat
  BY SavedConstants, FS_Subset, FS_CardinalityType
<1> QED
  BY <1>1, <1>2

\* A set below its limit takes one more, and one taken out leaves no more.
LEMMA OneMore ==
  ASSUME NEW S, IsFiniteSet(S), Cardinality(S) \in Nat, NEW limit \in Nat, NEW x
  PROVE  /\ Cardinality(S) < limit \/ (x \in S /\ Cardinality(S) <= limit) => Cardinality(S \cup {x}) <= limit
         /\ Cardinality(S) <= limit => Cardinality(S \ {x}) <= limit
<1>1. Cardinality(S \cup {x}) = IF x \in S THEN Cardinality(S) ELSE Cardinality(S) + 1
  BY FS_AddElement
<1>2. Cardinality(S \ {x}) = IF x \in S THEN Cardinality(S) - 1 ELSE Cardinality(S)
  BY FS_RemoveElement
<1> QED
  BY <1>1, <1>2

\* The first page reads the value of version 1, or nothing.
LEMMA SavedInitially == SavedInit => SavedInv
<1> SUFFICES ASSUME SavedInit PROVE SavedInv
  OBVIOUS
<1>1. earlier \subseteq Saveable /\ Cardinality(earlier) <= 1
  <2>1. CASE earlier = {}
    BY <2>1, FS_EmptySet
  <2>2. ASSUME NEW c \in SUBSET SavedCars, Cardinality(c) = CompareLimit,
               earlier = {Version1([Empty EXCEPT !.cars = c])}
        PROVE  earlier \subseteq Saveable /\ Cardinality(earlier) <= 1
    <3>1. Version1([Empty EXCEPT !.cars = c]) = [cars |-> c, shortlist |-> c, searches |-> {}]
      <4>1. [Empty EXCEPT !.cars = c] = [cars |-> c, shortlist |-> {}, searches |-> {}]
        BY DEF Empty
      <4>2. Version1([cars |-> c, shortlist |-> {}, searches |-> {}]) = [cars |-> c, shortlist |-> c, searches |-> {}]
        BY DEF Version1
      <4> QED
        BY <4>1, <4>2, Zenon
    <3>2. [cars |-> c, shortlist |-> c, searches |-> {}] \in Saveable
      BY <2>2, SavedConstants, FS_EmptySet DEF Saveable, Workspace, Parses
    <3> QED
      BY <2>2, <3>1, <3>2, FS_Singleton
  <2> QED
    BY <2>1, <2>2 DEF SavedInit
<1>2. stored = {} /\ Cardinality(stored) <= 1 /\ writes \in 0 .. MaxWrites
  BY SavedConstants, FS_EmptySet DEF SavedInit
<1>3. rendered \in [Tabs -> Saveable]
  BY <1>1, SnapshotSaveable DEF SavedInit
<1> QED
  BY <1>1, <1>2, <1>3 DEF SavedInv, SavedTypeOK, Saveable

\* To save an acceptable workspace keeps all of them acceptable.
LEMMA SaveKeeps ==
  ASSUME SavedInv, NEW t \in Tabs, NEW next \in Saveable, Save(t, next)
  PROVE  SavedInv'
<1>1. stored' = {next} /\ UNCHANGED earlier /\ writes' \in 0 .. MaxWrites
  BY SavedConstants DEF Save, SavedInv, SavedTypeOK
<1>2. Cardinality(stored') <= 1
  BY <1>1, FS_Singleton
<1>3. rendered' \in [Tabs -> Saveable]
  <2>1. Snapshot({next}, earlier) \in Saveable
    BY SnapshotSaveable DEF SavedInv
  <2> QED
    BY <2>1 DEF Save, SavedInv
<1> QED
  BY <1>1, <1>2, <1>3 DEF SavedInv, SavedTypeOK, Saveable

\* A click on what is shown asks to save an acceptable workspace.
LEMMA ClicksSaveable ==
  ASSUME SavedInv, NEW t \in Tabs
  PROVE  /\ \A car \in SavedCars :
              /\ SaveCarClick(t, car) => ToggledShortlist(rendered[t], car) \in Saveable
              /\ CompareClick(t, car) => ToggledCars(rendered[t], car) \in Saveable
         /\ [rendered[t] EXCEPT !.cars = {}] \in Saveable
         /\ \A shown \in SUBSET SavedCars :
              Cardinality(shown) \in 1 .. CompareLimit - 1 => [rendered[t] EXCEPT !.cars = shown] \in Saveable
         /\ \A href \in SavedViews :
              /\ SaveView(t, href) => [rendered[t] EXCEPT !.searches = @ \cup {href}] \in Saveable
              /\ RemoveView(t, href) => [rendered[t] EXCEPT !.searches = @ \ {href}] \in Saveable
<1> DEFINE s == rendered[t]
<1>1. s \in Workspace /\ Parses(s)
  BY DEF SavedInv, Saveable
<1>2. /\ s.cars \in SUBSET SavedCars /\ s.shortlist \in SUBSET SavedCars /\ s.searches \in SUBSET SavedViews
      /\ Cardinality(s.cars) <= CompareLimit /\ Cardinality(s.shortlist) <= ShortlistLimit
      /\ Cardinality(s.searches) <= ViewLimit
  BY <1>1 DEF Workspace, Parses
<1>3. /\ IsFiniteSet(s.cars) /\ Cardinality(s.cars) \in Nat
      /\ IsFiniteSet(s.shortlist) /\ Cardinality(s.shortlist) \in Nat
      /\ IsFiniteSet(s.searches) /\ Cardinality(s.searches) \in Nat
  BY <1>2, SavedFinite
<1>4. ASSUME NEW c \in SUBSET SavedCars, Cardinality(c) <= CompareLimit
      PROVE  [s EXCEPT !.cars = c] \in Saveable
  BY <1>1, <1>4 DEF Saveable, Workspace, Parses
<1>5. ASSUME NEW c \in SUBSET SavedCars, Cardinality(c) <= ShortlistLimit
      PROVE  [s EXCEPT !.shortlist = c] \in Saveable
  BY <1>1, <1>5 DEF Saveable, Workspace, Parses
<1>6. ASSUME NEW c \in SUBSET SavedViews, Cardinality(c) <= ViewLimit
      PROVE  [s EXCEPT !.searches = c] \in Saveable
  BY <1>1, <1>6 DEF Saveable, Workspace, Parses
<1>7. ASSUME NEW car \in SavedCars, SaveCarClick(t, car) PROVE ToggledShortlist(s, car) \in Saveable
  <2>1. car \in s.shortlist \/ Cardinality(s.shortlist) < ShortlistLimit
    BY <1>7 DEF SaveCarClick
  <2>2. CASE car \in s.shortlist
    <3>1. Cardinality(s.shortlist \ {car}) <= ShortlistLimit
      BY <1>2, <1>3, SavedConstants, OneMore
    <3> QED
      BY <1>2, <1>5, <2>2, <3>1 DEF ToggledShortlist
  <2>3. CASE car \notin s.shortlist
    <3>1. Cardinality(s.shortlist \cup {car}) <= ShortlistLimit
      BY <1>2, <1>3, <2>1, <2>3, SavedConstants, OneMore
    <3> QED
      BY <1>2, <1>5, <2>3, <3>1 DEF ToggledShortlist
  <2> QED
    BY <2>2, <2>3
<1>8. ASSUME NEW car \in SavedCars, CompareClick(t, car) PROVE ToggledCars(s, car) \in Saveable
  <2>1. car \in s.cars \/ Cardinality(s.cars) < CompareLimit
    BY <1>8 DEF CompareClick
  <2>2. CASE car \in s.cars
    <3>1. Cardinality(s.cars \ {car}) <= CompareLimit
      BY <1>2, <1>3, SavedConstants, OneMore
    <3> QED
      BY <1>2, <1>4, <2>2, <3>1 DEF ToggledCars
  <2>3. CASE car \notin s.cars
    <3>1. Cardinality(s.cars \cup {car}) <= CompareLimit
      BY <1>2, <1>3, <2>1, <2>3, SavedConstants, OneMore
    <3> QED
      BY <1>2, <1>4, <2>3, <3>1 DEF ToggledCars
  <2> QED
    BY <2>2, <2>3
<1>9. [s EXCEPT !.cars = {}] \in Saveable
  BY <1>4, FS_EmptySet, SavedConstants
<1>10. ASSUME NEW shown \in SUBSET SavedCars, Cardinality(shown) \in 1 .. CompareLimit - 1
       PROVE  [s EXCEPT !.cars = shown] \in Saveable
  BY <1>4, <1>10, SavedConstants
<1>11. ASSUME NEW href \in SavedViews
       PROVE  /\ SaveView(t, href) => [s EXCEPT !.searches = @ \cup {href}] \in Saveable
              /\ RemoveView(t, href) => [s EXCEPT !.searches = @ \ {href}] \in Saveable
  <2>1. SaveView(t, href) => href \in s.searches \/ Cardinality(s.searches) < ViewLimit
    BY DEF SaveView
  <2>2. SaveView(t, href) => Cardinality(s.searches \cup {href}) <= ViewLimit
    BY <1>2, <1>3, <2>1, SavedConstants, OneMore
  <2>3. Cardinality(s.searches \ {href}) <= ViewLimit
    BY <1>2, <1>3, SavedConstants, OneMore
  <2>4. s.searches \cup {href} \in SUBSET SavedViews /\ s.searches \ {href} \in SUBSET SavedViews
    BY <1>2
  <2> QED
    BY <1>6, <2>2, <2>3, <2>4
<1> QED
  BY <1>7, <1>8, <1>9, <1>10, <1>11

\* Every step keeps what is stored and what is shown within the limits.
LEMMA SavedStep == SavedInv /\ [SavedNext]_savedVars => SavedInv'
<1> SUFFICES ASSUME SavedInv, [SavedNext]_savedVars PROVE SavedInv'
  OBVIOUS
<1>1. ASSUME NEW t \in Tabs, StorageEvent(t) PROVE SavedInv'
  <2>1. Snapshot(stored, earlier) \in Saveable
    BY SnapshotSaveable DEF SavedInv
  <2> QED
    BY <1>1, <2>1 DEF StorageEvent, SavedInv, SavedTypeOK, Saveable
<1>2. ASSUME NEW t \in Tabs, NEW car \in SavedCars, SaveCarClick(t, car) \/ CompareClick(t, car) PROVE SavedInv'
  <2>1. CASE SaveCarClick(t, car)
    BY <2>1, ClicksSaveable, SaveKeeps DEF SaveCarClick
  <2>2. CASE CompareClick(t, car)
    BY <2>2, ClicksSaveable, SaveKeeps DEF CompareClick
  <2> QED
    BY <1>2, <2>1, <2>2
<1>3. ASSUME NEW t \in Tabs, ClearSelection(t) PROVE SavedInv'
  BY <1>3, ClicksSaveable, SaveKeeps DEF ClearSelection
<1>4. ASSUME NEW t \in Tabs, ChooseMore(t) PROVE SavedInv'
  BY <1>4, ClicksSaveable, SaveKeeps DEF ChooseMore
<1>5. ASSUME NEW t \in Tabs, NEW href \in SavedViews, SaveView(t, href) \/ RemoveView(t, href) PROVE SavedInv'
  <2>1. CASE SaveView(t, href)
    BY <2>1, ClicksSaveable, SaveKeeps DEF SaveView
  <2>2. CASE RemoveView(t, href)
    BY <2>2, ClicksSaveable, SaveKeeps DEF RemoveView
  <2> QED
    BY <1>5, <2>1, <2>2
<1>6. CASE UNCHANGED savedVars
  BY <1>6 DEF savedVars, SavedInv, SavedTypeOK
<1> QED
  BY <1>1, <1>2, <1>3, <1>4, <1>5, <1>6 DEF SavedNext

\* What the saved workspace keeps in every reachable state.
LEMMA SavedHolds == SavedSpec => []SavedInv
  BY SavedInitially, SavedStep, PTL DEF SavedSpec

(* The variables of the saved workspace keep their types in every          *)
(* behaviour, whatever the number of tabs, cars and views.                 *)
THEOREM SavedTypeCorrect == SavedSpec => []SavedTypeOK
<1>1. SavedInv => SavedTypeOK
  BY DEF SavedInv
<1> QED
  BY <1>1, SavedHolds, PTL

(* The stored workspace stays within the limits of its schema, whatever    *)
(* the tabs have rendered when they write it.                              *)
THEOREM SavedStaysReadable == SavedSpec => []SavedReadable
<1>1. SavedInv => SavedReadable
  BY DEF SavedInv, SavedReadable, Saveable
<1> QED
  BY <1>1, SavedHolds, PTL

-----------------------------------------------------------------------------
(* FilterForm.                                                             *)

\* What is under way is the last request, for models of a make.
FormInv ==
  /\ FormTypeOK /\ OptionsMatchMake
  /\ requests \in Seq([make : MakeChoices, open : BOOLEAN]) /\ Len(requests) = request
  /\ modelsError => models = {} /\ ~modelsLoading
  /\ request > 0 /\ requests[request].open => modelsLoading
  /\ modelsLoading => request > 0 /\ selectedMake # Unselected

\* A form comes with the models of its make.
LEMMA FormInitially == FormInit => FormInv
<1> SUFFICES ASSUME FormInit PROVE FormInv
  OBVIOUS
<1>1. request = 0 /\ requests = <<>> /\ 0 \in 0 .. MaxRequests
  BY FormConstants DEF FormInit
<1>2. FormTypeOK
  <2>1. modelsLoading \in BOOLEAN /\ modelsError \in BOOLEAN
    BY Zenon DEF FormInit
  <2> QED
    BY <1>1, <2>1 DEF FormInit, FormTypeOK, MakeChoices, ModelsOf
<1> QED
  BY <1>1, <1>2 DEF FormInit, FormInv, OptionsMatchMake

\* A choice of a make leaves the form as its request, if any, must find it.
LEMMA FormChooses ==
  ASSUME FormInv, NEW make \in MakeChoices, SelectMake(make)
  PROVE  FormInv'
<1>1. PICK known \in SUBSET Makes, ask \in BOOLEAN :
        /\ Choose(make, known, ask)
        /\ ask => make # Unselected /\ known = {}
        /\ ~ask => known = ModelsOf(make)
  BY DEF SelectMake, MakeChoices, ModelsOf, Unselected
<1>2. /\ request \in Nat /\ request' = request + 1 /\ request' \in 0 .. MaxRequests
      /\ selectedMake' = make /\ selectedModel' = Unselected /\ models' = known
      /\ UNCHANGED initialMake
  BY <1>1, FormConstants DEF Choose, FormInv, FormTypeOK
<1>3. modelsError' = FALSE /\ modelsLoading' = ask
  BY <1>1, Zenon DEF Choose
<1> DEFINE sent == [make |-> make, open |-> ask]
<1>4. sent \in [make : MakeChoices, open : BOOLEAN] /\ sent.make = make
  OBVIOUS
<1>5. sent.open = ask
  BY Zenon
<1>6. requests' = Append(requests, sent)
  BY <1>1, Zenon DEF Choose
<1>7. /\ requests' \in Seq([make : MakeChoices, open : BOOLEAN]) /\ Len(requests') = request'
      /\ requests'[request'] = sent
  <2> HIDE DEF sent
  <2> QED
    BY <1>2, <1>4, <1>6 DEF FormInv
<1>8. FormTypeOK'
  <2>1. \A r \in DOMAIN requests' : requests'[r] \in [make : MakeChoices, open : BOOLEAN]
    <3> DEFINE Asked == [make : MakeChoices, open : BOOLEAN]
    <3>1. requests' \in Seq(Asked)
      BY <1>7
    <3>2. \A r \in DOMAIN requests' : requests'[r] \in Asked
      <4> HIDE DEF Asked
      <4> QED
        BY <3>1
    <3> QED
      BY ONLY <3>2
  <2>2. initialMake \in MakeChoices /\ Unselected \in MakeChoices
    BY DEF FormInv, FormTypeOK, MakeChoices
  <2>3. modelsError' \in BOOLEAN /\ modelsLoading' \in BOOLEAN
    BY <1>3, Zenon
  <2> QED
    BY <1>2, <2>1, <2>2, <2>3 DEF FormTypeOK
<1>9. requests'[request'].open = ask /\ requests'[request'].make = make
  BY <1>4, <1>5, <1>7, Zenon
<1>10. OptionsMatchMake'
  BY <1>1, <1>2, <1>3, <1>9, Zenon DEF OptionsMatchMake
<1>11. request' > 0
  BY <1>2
<1> QED
  BY <1>1, <1>2, <1>3, <1>7, <1>8, <1>9, <1>10, <1>11, Zenon DEF FormInv

\* The end of a request changes the form only when it is the one waited for.
LEMMA FormRequestEnds ==
  ASSUME FormInv, NEW r \in DOMAIN requests, ModelsArrive(r) \/ ModelsFail(r)
  PROVE  FormInv'
<1> DEFINE Asked == [make : MakeChoices, open : BOOLEAN]
<1>1. /\ requests[r].open /\ requests' = [requests EXCEPT ![r].open = FALSE]
      /\ UNCHANGED <<initialMake, selectedMake, selectedModel, request>>
  BY Zenon DEF ModelsArrive, ModelsFail, Ends
<1>2. requests \in Seq(Asked) /\ Len(requests) = request /\ request \in Nat /\ r \in 1 .. request
  BY DEF FormInv, FormTypeOK
<1> DEFINE ended == [requests[r] EXCEPT !.open = FALSE]
<1>3. ended \in Asked /\ ended.make = requests[r].make /\ ended.open = FALSE
  <2>1. requests[r] \in Asked
    <3> HIDE DEF Asked
    <3> QED
      BY <1>2
  <2> QED
    BY ONLY <2>1
<1>4. /\ requests' \in Seq(Asked) /\ Len(requests') = request' /\ requests'[r] = ended
      /\ \A q \in DOMAIN requests : q # r => requests'[q] = requests[q]
  <2>1. requests' = [requests EXCEPT ![r] = ended]
    BY <1>1, Zenon
  <2>2. ended \in Asked /\ request' = request
    BY <1>1, <1>3
  <2> HIDE DEF ended, Asked
  <2> QED
    BY ONLY <1>2, <2>1, <2>2
<1>5. models' \subseteq Makes /\ modelsLoading' \in BOOLEAN /\ modelsError' \in BOOLEAN
  <2>1. r = request => requests[r].make \in Makes
    BY <1>1, <1>2 DEF FormInv, OptionsMatchMake, FormTypeOK, MakeChoices
  <2>2. models \subseteq Makes /\ modelsLoading \in BOOLEAN /\ modelsError \in BOOLEAN
    BY DEF FormInv, FormTypeOK
  <2> QED
    BY <2>1, <2>2, Zenon DEF ModelsArrive, ModelsFail, Ends
<1>6. FormTypeOK'
  <2>1. \A q \in DOMAIN requests' : requests'[q] \in Asked
    <3> HIDE DEF Asked
    <3> QED
      BY <1>4
  <2>2. /\ initialMake \in MakeChoices /\ selectedMake \in MakeChoices /\ selectedModel \in MakeChoices
        /\ request \in 0 .. MaxRequests
    BY DEF FormInv, FormTypeOK
  <2> QED
    BY <1>1, <1>5, <2>1, <2>2, Zenon DEF FormTypeOK
<1>7. CASE r # request
  <2>1. UNCHANGED <<models, modelsLoading, modelsError>> /\ request' = request
    BY <1>1, <1>7, Zenon DEF ModelsArrive, ModelsFail
  <2>2. request > 0 => requests'[request] = requests[request]
    BY <1>2, <1>4, <1>7
  <2>3. modelsLoading => request > 0
    BY DEF FormInv
  <2> QED
    BY <1>1, <1>4, <1>6, <2>1, <2>2, <2>3, Zenon DEF FormInv, OptionsMatchMake
<1>8. CASE r = request
  <2>1. modelsLoading /\ requests[r].make = selectedMake /\ selectedMake # Unselected
    BY <1>1, <1>2, <1>8 DEF FormInv, OptionsMatchMake
  <2>2. ~modelsLoading' /\ ~requests'[request'].open /\ request' = request /\ selectedMake' = selectedMake
    BY <1>1, <1>3, <1>4, <1>8, Zenon DEF ModelsArrive, ModelsFail
  <2>3. ~modelsError
    BY <2>1 DEF FormInv
  <2>4. /\ ~modelsError' => models' = ModelsOf(selectedMake)
        /\ modelsError' => models' = {}
    <3>1. CASE ModelsArrive(r)
      <4>1. models' = {requests[r].make} /\ UNCHANGED modelsError
        BY <1>8, <3>1, Zenon DEF ModelsArrive
      <4>2. ModelsOf(selectedMake) = {selectedMake}
        BY <2>1, Zenon DEF ModelsOf
      <4> QED
        BY <2>1, <2>3, <4>1, <4>2, Zenon
    <3>2. CASE ModelsFail(r)
      <4>1. modelsError' /\ models' = {}
        BY <1>8, <3>2, Zenon DEF ModelsFail
      <4> QED
        BY <4>1, Zenon
    <3> QED
      BY <3>1, <3>2, Zenon
  <2>5. ~modelsLoading' /\ (modelsError' => models' = {})
    BY <2>2, <2>4, Zenon
  <2>6. OptionsMatchMake'
    <3>1. ~modelsError' => models' = ModelsOf(selectedMake')
      BY <2>2, <2>4, Zenon
    <3>2. selectedModel' # Unselected => selectedModel' = selectedMake'
      BY <1>1, Zenon DEF FormInv, OptionsMatchMake
    <3> QED
      BY <2>5, <3>1, <3>2, Zenon DEF OptionsMatchMake
  <2> QED
    BY <1>4, <1>6, <2>2, <2>5, <2>6, Zenon DEF FormInv
<1> QED
  BY <1>7, <1>8

\* Every step of the form keeps it so.
LEMMA FormStep == FormInv /\ [FormNext]_formVars => FormInv'
<1> SUFFICES ASSUME FormInv, [FormNext]_formVars PROVE FormInv'
  OBVIOUS
<1>1. CASE ChooseMake \/ RetryModels
  BY <1>1, FormChooses DEF ChooseMake, RetryModels, FormInv, FormTypeOK
<1>2. ASSUME NEW make \in MakeChoices, NEW model \in MakeChoices,
             model # Unselected => model = make, Rendered(make, model)
      PROVE  FormInv'
  <2>1. 0 \in 0 .. MaxRequests
    BY FormConstants
  <2>2. FormTypeOK'
    <3>1. modelsLoading' \in BOOLEAN /\ modelsError' \in BOOLEAN
      BY <1>2, Zenon DEF Rendered
    <3>2. \A r \in DOMAIN requests' : requests'[r] \in [make : MakeChoices, open : BOOLEAN]
      BY <1>2 DEF Rendered
    <3> QED
      BY <1>2, <2>1, <3>1, <3>2 DEF Rendered, FormTypeOK, MakeChoices, ModelsOf
  <2> QED
    BY <1>2, <2>2 DEF Rendered, FormInv, OptionsMatchMake
<1>3. CASE Navigate
  BY <1>2, <1>3 DEF Navigate, FormInv, FormTypeOK, OptionsMatchMake, MakeChoices
<1>4. ASSUME NEW make \in Makes, ChooseModel(make) PROVE FormInv'
  <2>1. make = selectedMake
    BY <1>4 DEF ChooseModel, FormInv, OptionsMatchMake, ModelsOf
  <2> QED
    BY <1>4, <2>1 DEF ChooseModel, FormInv, FormTypeOK, OptionsMatchMake, MakeChoices
<1>5. ASSUME NEW r \in DOMAIN requests, ModelsArrive(r) \/ ModelsFail(r) PROVE FormInv'
  BY <1>5, FormRequestEnds
<1>6. CASE UNCHANGED formVars
  BY <1>6 DEF formVars, FormInv, FormTypeOK, OptionsMatchMake
<1> QED
  BY <1>1, <1>3, <1>4, <1>5, <1>6 DEF FormNext

\* What the form keeps in every reachable state.
LEMMA FormHolds == FormSpec => []FormInv
  BY FormInitially, FormStep, PTL DEF FormSpec

(* The variables of the form keep their types in every behaviour, whatever *)
(* the makes of the market and the number of requests.                     *)
THEOREM FormTypeCorrect == FormSpec => []FormTypeOK
<1>1. FormInv => FormTypeOK
  BY DEF FormInv
<1> QED
  BY <1>1, FormHolds, PTL

(* The models on offer are those of the selected make, however answers,    *)
(* time-outs and choices interleave.                                       *)
THEOREM OptionsFollowMake == FormSpec => []OptionsMatchMake
<1>1. FormInv => OptionsMatchMake
  BY DEF FormInv
<1> QED
  BY <1>1, FormHolds, PTL

-----------------------------------------------------------------------------
(* HeroArchive.                                                            *)

\* Sets of listings are finite, and the numbers below one fewer.
LEMMA BoundedFinite ==
  ASSUME NEW N \in Nat
  PROVE  \A T \in SUBSET (1 .. N) :
           /\ IsFiniteSet(T) /\ Cardinality(T) \in Nat
           /\ \A U \in SUBSET T : Cardinality(U) <= Cardinality(T)
<1>1. IsFiniteSet(1 .. N)
  BY FS_Interval
<1>2. ASSUME NEW T \in SUBSET (1 .. N) PROVE IsFiniteSet(T) /\ Cardinality(T) \in Nat
  BY <1>1, FS_Subset, FS_CardinalityType
<1>3. ASSUME NEW T \in SUBSET (1 .. N), NEW U \in SUBSET T PROVE Cardinality(U) <= Cardinality(T)
  BY <1>2, FS_Subset
<1> QED
  BY <1>2, <1>3

\* A batch of the n lowest listings that leaves one out is full, and all below it.
LEMMA LowestAreFull ==
  ASSUME NEW N \in Nat, NEW S \in SUBSET (1 .. N), NEW n \in Nat \ {0},
         NEW l \in S, l \notin Lowest(n, S)
  PROVE  Cardinality(Lowest(n, S)) = n /\ \A b \in Lowest(n, S) : b < l
<1> DEFINE Below(k) == {m \in S : m < k}
           B == Lowest(n, S)
<1>0. \A m \in S : m \in Nat
  OBVIOUS
<1>1. B \in SUBSET S /\ S \in SUBSET Nat /\ \A k \in S : k \in B <=> Cardinality(Below(k)) < n
  BY DEF Lowest
<1>2. \A k \in S : Below(k) \in SUBSET (1 .. N) /\ Cardinality(Below(k)) \in Nat
  BY BoundedFinite
<1>3. IsFiniteSet(B) /\ Cardinality(B) \in Nat
  BY <1>1, BoundedFinite
<1>4. \A j, k \in S : j <= k => Cardinality(Below(j)) <= Cardinality(Below(k))
  <2>1. ASSUME NEW j \in S, NEW k \in S, j <= k PROVE Below(j) \in SUBSET Below(k)
    <3>1. j \in Nat /\ k \in Nat
      BY <1>0
    <3>2. ASSUME NEW m \in S, m < j PROVE m < k
      BY <1>0, <2>1, <3>1, <3>2
    <3> QED
      BY <3>2
  <2> HIDE DEF Below
  <2> QED
    BY <1>2, <2>1, BoundedFinite
<1> HIDE DEF B, Below
<1>5. ASSUME NEW b \in B, NEW k \in S, k \notin B PROVE b < k
  BY <1>1, <1>2, <1>4, <1>5
<1>6. PICK k \in S \ B : \A j \in S \ B : k <= j
  BY <1>1, LeastNumber DEF B
<1>7. Below(k) = B
  <2>1. ASSUME NEW m \in S, m < k PROVE m \in B
    BY <1>0, <1>6, <2>1
  <2>2. \A m \in B : m \in S /\ m < k
    BY <1>1, <1>5, <1>6
  <2> QED
    BY <2>1, <2>2 DEF Below
<1>8. Cardinality(B) >= n
  BY <1>1, <1>2, <1>6, <1>7
<1>9. B # {}
  BY <1>8, FS_EmptySet
<1>10. PICK b \in B : \A j \in B : j <= b
  BY <1>1, <1>9, GreatestNumber
<1>11. B \in SUBSET (Below(b) \cup {b}) /\ b \in S
  BY <1>1, <1>10 DEF Below
<1>12. /\ IsFiniteSet(Below(b)) /\ Cardinality(Below(b)) \in Nat /\ Cardinality(Below(b)) < n
  BY <1>1, <1>2, <1>10, <1>11, BoundedFinite
<1>13. /\ IsFiniteSet(Below(b) \cup {b})
       /\ Cardinality(Below(b) \cup {b}) <= Cardinality(Below(b)) + 1
       /\ Cardinality(Below(b) \cup {b}) \in Nat
  <2>1. IsFiniteSet(Below(b) \cup {b})
    BY <1>12, FS_AddElement
  <2>2. Cardinality(Below(b) \cup {b}) = IF b \in Below(b) THEN Cardinality(Below(b)) ELSE Cardinality(Below(b)) + 1
    BY <1>12, FS_AddElement
  <2> QED
    BY <1>12, <2>1, <2>2
<1>14. Cardinality(B) <= Cardinality(Below(b) \cup {b})
  BY <1>11, <1>13, FS_Subset
<1>15. Cardinality(B) = n
  BY <1>3, <1>8, <1>12, <1>13, <1>14
<1> QED
  BY <1>5, <1>15 DEF B

\* A batch takes every listing without a hero after its id, or is followed by one that starts before it.
LEMMA BatchTakesOrFollows ==
  ASSUME HeroTypeOK, NEW job \in sweep
  PROVE  /\ WithoutHeroes(job) \in SUBSET Listed
         /\ Followed(WithoutHeroes(job)) => Max(WithoutHeroes(job)) \in Listed
         /\ \A l \in Listed : l > job.after /\ hero[l] = NoPhoto /\ gallery[l] # "none"
              => \/ l \in WithoutHeroes(job)
                 \/ Followed(WithoutHeroes(job)) /\ Max(WithoutHeroes(job)) < l
<1> DEFINE S == {l \in Listed : l > job.after /\ hero[l] = NoPhoto /\ gallery[l] # "none"}
           batch == WithoutHeroes(job)
<1>1. HeroListings \in Nat /\ HeroBatch \in Nat \ {0}
  BY HeroConstants
<1>2. S \in SUBSET (1 .. HeroListings) /\ batch = Lowest(HeroBatch, S)
  BY DEF WithoutHeroes, Listed
<1> HIDE DEF S
<1>3. batch \in SUBSET S
  BY <1>2 DEF Lowest
<1> HIDE DEF batch
<1>4. ASSUME Followed(batch) PROVE Max(batch) \in batch
  <2>1. batch # {}
    BY <1>1, <1>4, FS_EmptySet DEF Followed
  <2>0. batch \in SUBSET (1 .. HeroListings)
    BY <1>2, <1>3
  <2>2. \E m \in batch : \A k \in batch : k <= m
    BY <1>1, <2>0, <2>1, GreatestNumber, Zenon
  <2>3. batch \in SUBSET Nat
    BY <2>0
  <2>4. \E m \in batch : \A k \in batch : m >= k
    BY <2>2, <2>3
  <2> QED
    BY <2>4 DEF Max
<1>5. ASSUME NEW l \in S, l \notin batch PROVE Followed(batch) /\ Max(batch) < l
  <2>1. Cardinality(batch) = HeroBatch /\ \A b \in batch : b < l
    BY <1>1, <1>2, <1>5, LowestAreFull
  <2>2. Followed(batch)
    BY <2>1 DEF Followed
  <2> QED
    BY <1>4, <2>1, <2>2
<1> QED
  BY <1>2, <1>3, <1>4, <1>5 DEF S, batch, Listed

(* A listing the sweep was started for is asked for, has a hero, or comes  *)
(* after a job of the sweep.                                               *)
Reached(l) == l \in asked \/ hero[l] # NoPhoto \/ \E job \in sweep : job.after < l

(* A hero and a photo about to be inserted are files; what is archived is  *)
(* of a listing; and a sweep that was not declined reaches all it was      *)
(* started for.                                                            *)
HeroInv ==
  /\ HeroTypeOK
  /\ \A l \in Listed : hero[l] # NoPhoto => hero[l] \in files
  /\ \A a \in Archivers : archiver[a].pc # "idle" => archiver[a].listing \in Listed
  /\ \A a \in Archivers : archiver[a].pc = "insert" => archiver[a].photo \in files
  /\ ~declined => \A l \in meant : gallery[l] # "none" /\ Reached(l)

\* The sweep that was queued starts before every listing.
LEMMA HeroInitially == HeroInit => HeroInv
<1> SUFFICES ASSUME HeroInit PROVE HeroInv
  OBVIOUS
<1>1. \A l \in Listed : l \in Nat /\ 0 < l
  BY HeroConstants DEF Listed
<1>2. sweep \subseteq SweepJobs /\ \A job \in sweep : job.after = 0
  <2>1. [after |-> 0, dead |-> FALSE] \in SweepJobs
    BY HeroConstants DEF SweepJobs
  <2> QED
    BY <2>1 DEF HeroInit
<1>3. NoArchive \in [pc : {"idle", "fetch", "insert"}, listing : 0 .. HeroListings, photo : Photos \cup {NoPhoto}]
  BY HeroConstants DEF NoArchive
<1>4. HeroTypeOK
  BY <1>2, <1>3 DEF HeroInit, HeroTypeOK, HeroRows
<1>5. \A l \in meant : gallery[l] # "none" /\ Reached(l)
  <2>1. PICK job \in sweep : job.after = 0
    BY <1>2 DEF HeroInit
  <2> QED
    BY <1>1, <2>1 DEF HeroInit, Reached
<1> QED
  BY <1>4, <1>5 DEF HeroInit, HeroInv, NoArchive

\* A batch that is queued and followed when it is full leaves no listing behind.
LEMMA SweepKeepsReach ==
  ASSUME HeroInv, NEW job \in sweep, UNCHANGED <<gallery, hero, meant>>,
         /\ Queue(WithoutHeroes(job))
         /\ sweep' = IF Followed(WithoutHeroes(job)) THEN Added(sweep \ {job}, Max(WithoutHeroes(job)))
                     ELSE sweep \ {job}
  PROVE  sweep' \subseteq SweepJobs /\ (~declined => \A l \in meant : gallery'[l] # "none" /\ Reached(l)')
<1> DEFINE batch == WithoutHeroes(job)
           new == [after |-> Max(batch), dead |-> FALSE]
<1>1. /\ batch \in SUBSET Listed
      /\ Followed(batch) => Max(batch) \in Listed
      /\ \A l \in Listed : l > job.after /\ hero[l] = NoPhoto /\ gallery[l] # "none"
           => l \in batch \/ (Followed(batch) /\ Max(batch) < l)
  <2>1. HeroTypeOK
    BY DEF HeroInv
  <2> QED
    BY <2>1, BatchTakesOrFollows
<1>2. asked' = asked \cup batch
  BY DEF Queue
<1>3. sweep' = IF Followed(batch) THEN {j \in sweep \ {job} : j.after # Max(batch)} \cup {new} ELSE sweep \ {job}
  BY DEF Added
<1>4. sweep \subseteq SweepJobs /\ meant \subseteq Listed
  BY DEF HeroInv, HeroTypeOK
<1>5. new.after = Max(batch) /\ (Followed(batch) => new \in SweepJobs)
  BY <1>1, HeroConstants DEF SweepJobs, Listed
<1> HIDE DEF batch, new
<1>6. sweep' \subseteq SweepJobs
  BY <1>3, <1>4, <1>5
<1>7. ASSUME ~declined, NEW l \in meant PROVE gallery'[l] # "none" /\ Reached(l)'
  <2>1. gallery[l] # "none" /\ Reached(l) /\ l \in Listed /\ l \in Nat
    BY <1>4, <1>7, HeroConstants DEF HeroInv, Listed
  <2>2. CASE l \in asked \/ hero[l] # NoPhoto
    BY <1>2, <2>1, <2>2 DEF Reached
  <2>3. ASSUME NEW other \in sweep, other.after < l, hero[l] = NoPhoto, l \notin asked PROVE Reached(l)'
    <3>1. CASE other = job
      <4>1. job.after \in Nat
        BY <1>4 DEF SweepJobs
      <4>2. l \in batch \/ (Followed(batch) /\ Max(batch) < l)
        BY <1>1, <2>1, <2>3, <3>1, <4>1
      <4>3. Followed(batch) => new \in sweep'
        BY <1>3
      <4> QED
        BY <1>2, <1>5, <4>2, <4>3 DEF Reached
    <3>2. CASE other # job
      <4>1. CASE other \in sweep'
        BY <2>3, <4>1 DEF Reached
      <4>2. CASE other \notin sweep'
        <5>1. Followed(batch) /\ other.after = Max(batch)
          BY <1>3, <3>2, <4>2
        <5>2. new \in sweep' /\ new.after < l
          BY <1>3, <1>5, <2>3, <5>1
        <5> QED
          BY <5>2 DEF Reached
      <4> QED
        BY <4>1, <4>2
    <3> QED
      BY <3>1, <3>2
  <2> QED
    BY <2>1, <2>2, <2>3 DEF Reached
<1> QED
  BY <1>6, <1>7

\* A sweep job that fails goes on where it was, alive or dead, and what it added stays.
LEMMA FailingKeepsReach ==
  ASSUME HeroInv, NEW job \in sweep, SweepFails(job)
  PROVE  /\ sweep' \subseteq SweepJobs /\ asked' \subseteq Listed /\ archive' \subseteq Listed
         /\ ~declined => \A l \in meant : gallery'[l] # "none" /\ Reached(l)'
<1> DEFINE batch == WithoutHeroes(job)
<1>0. /\ sweep \subseteq SweepJobs /\ meant \subseteq Listed /\ asked \subseteq Listed /\ archive \subseteq Listed
      /\ job \in SweepJobs
  BY DEF HeroInv, HeroTypeOK
<1>1. /\ batch \in SUBSET Listed
      /\ Followed(batch) => Max(batch) \in Listed
  BY BatchTakesOrFollows DEF HeroInv
<1>2. PICK dead \in BOOLEAN, added \in SUBSET Listed :
        /\ asked' = asked \cup added /\ archive' = archive \cup added
        /\ LET retried == (sweep \ {job}) \cup {[job EXCEPT !.dead = dead]} IN
           \/ sweep' = retried
           \/ Followed(batch) /\ sweep' = Added(retried, Max(batch))
  <2>1. \A n : Lowest(n, batch) \in SUBSET Listed
    BY <1>1 DEF Lowest
  <2> HIDE DEF batch
  <2>2. PICK dead \in BOOLEAN : LET retried == (sweep \ {job}) \cup {[job EXCEPT !.dead = dead]} IN
          \/ \E n \in 0 .. HeroBatch : Queue(Lowest(n, batch)) /\ sweep' = retried
          \/ Followed(batch) /\ Queue(batch) /\ sweep' = Added(retried, Max(batch))
    BY Zenon DEF SweepFails, batch
  <2>3. CASE \E n \in 0 .. HeroBatch : Queue(Lowest(n, batch)) /\ sweep' = (sweep \ {job}) \cup {[job EXCEPT !.dead = dead]}
    BY <2>1, <2>3, Zenon DEF Queue
  <2>4. CASE Followed(batch) /\ Queue(batch) /\ sweep' = Added((sweep \ {job}) \cup {[job EXCEPT !.dead = dead]}, Max(batch))
    BY <1>1, <2>4, Zenon DEF Queue
  <2> QED
    BY <2>2, <2>3, <2>4
<1> DEFINE again == [job EXCEPT !.dead = dead]
           retried == (sweep \ {job}) \cup {again}
           new == [after |-> Max(batch), dead |-> FALSE]
<1>3. again \in SweepJobs /\ again.after = job.after
  BY <1>0 DEF SweepJobs
<1>4. new.after = Max(batch) /\ (Followed(batch) => new \in SweepJobs)
  BY <1>1, HeroConstants DEF SweepJobs, Listed
<1>5. \/ sweep' = retried
      \/ Followed(batch) /\ sweep' = {j \in retried : j.after # Max(batch)} \cup {new}
  BY <1>2, Zenon DEF Added
<1> HIDE DEF batch, again, new
<1>6. sweep' \subseteq SweepJobs
  BY <1>0, <1>3, <1>4, <1>5
<1>7. \A j \in sweep : \E k \in sweep' : k.after = j.after
  BY <1>3, <1>4, <1>5
<1>8. UNCHANGED <<gallery, hero, meant>>
  BY DEF SweepFails
<1>9. ASSUME ~declined, NEW l \in meant PROVE gallery'[l] # "none" /\ Reached(l)'
  <2>1. gallery[l] # "none" /\ Reached(l)
    BY <1>9 DEF HeroInv
  <2>2. (\E j \in sweep : j.after < l) => \E k \in sweep' : k.after < l
    BY <1>7
  <2> QED
    BY <1>2, <1>8, <2>1, <2>2 DEF Reached
<1> QED
  BY <1>0, <1>2, <1>6, <1>9

\* What an archiver does leaves the sweep and what it was started for alone.
LEMMA ArchivingKeepsReach ==
  ASSUME HeroInv, UNCHANGED <<sweep, meant, asked>>,
         \A l \in Listed : gallery[l] # "none" => gallery'[l] # "none",
         \A l \in Listed : hero[l] # NoPhoto => hero'[l] = hero[l]
  PROVE  ~declined => \A l \in meant : gallery'[l] # "none" /\ Reached(l)'
BY DEF HeroInv, HeroTypeOK, Reached

\* An archiver starts, puts an image beside the others, or comes to its end.
ArchiverTyped(a) == a \in [pc : {"idle", "fetch", "insert"}, listing : 0 .. HeroListings,
                           photo : Photos \cup {NoPhoto}]

\* What the steps of an archiver leave of it and of the heroes.
LEMMA ArchiverStep ==
  ASSUME HeroInv, NEW a \in Archivers,
         NEW next, ArchiverTyped(next), next.pc # "idle" => next.listing \in Listed,
         archiver' = [archiver EXCEPT ![a] = next], files \subseteq files',
         next.pc = "insert" => next.photo \in files'
  PROVE  /\ archiver' \in [Archivers -> [pc : {"idle", "fetch", "insert"}, listing : 0 .. HeroListings,
                                         photo : Photos \cup {NoPhoto}]]
         /\ \A b \in Archivers : archiver'[b].pc # "idle" => archiver'[b].listing \in Listed
         /\ \A b \in Archivers : archiver'[b].pc = "insert" => archiver'[b].photo \in files'
<1> DEFINE Type == [pc : {"idle", "fetch", "insert"}, listing : 0 .. HeroListings, photo : Photos \cup {NoPhoto}]
<1>1. archiver \in [Archivers -> Type] /\ next \in Type
  BY DEF HeroInv, HeroTypeOK, ArchiverTyped
<1> HIDE DEF Type
<1>2. archiver' \in [Archivers -> Type] /\ archiver'[a] = next
      /\ \A b \in Archivers : b # a => archiver'[b] = archiver[b]
  BY <1>1
<1>3. /\ \A b \in Archivers : archiver'[b].pc # "idle" => archiver'[b].listing \in Listed
      /\ \A b \in Archivers : archiver'[b].pc = "insert" => archiver'[b].photo \in files'
  BY <1>2 DEF HeroInv
<1> QED
  BY <1>2, <1>3 DEF Type

\* Every step keeps heroes in files and every listing within reach of the sweep.
LEMMA HeroStep == HeroInv /\ [HeroNext]_heroVars => HeroInv'
<1> SUFFICES ASSUME HeroInv, [HeroNext]_heroVars PROVE HeroInv'
  OBVIOUS
<1>0. /\ HeroTypeOK /\ \A l \in Listed : hero[l] # NoPhoto => hero[l] \in files
      /\ \A b \in Archivers : archiver[b].pc # "idle" => archiver[b].listing \in Listed
      /\ \A b \in Archivers : archiver[b].pc = "insert" => archiver[b].photo \in files
  BY DEF HeroInv
<1>a. ArchiverTyped(NoArchive) /\ NoArchive.pc = "idle"
  BY HeroConstants DEF NoArchive, ArchiverTyped
<1>1. ASSUME NEW job \in sweep, SweepBatch(job) PROVE HeroInv'
  <2>1. /\ UNCHANGED <<enabled, gallery, hero, files, archiver, meant, declined>> /\ Queue(WithoutHeroes(job))
        /\ sweep' = IF Followed(WithoutHeroes(job)) THEN Added(sweep \ {job}, Max(WithoutHeroes(job)))
                    ELSE sweep \ {job}
    BY <1>1 DEF SweepBatch
  <2>2. sweep' \subseteq SweepJobs /\ (~declined => \A l \in meant : gallery'[l] # "none" /\ Reached(l)')
    BY <2>1, SweepKeepsReach
  <2>3. asked' \subseteq Listed /\ archive' \subseteq Listed
    BY <1>0, <2>1, BatchTakesOrFollows DEF Queue, HeroTypeOK
  <2> QED
    BY <1>0, <2>1, <2>2, <2>3 DEF HeroInv, HeroTypeOK
<1>2. ASSUME NEW job \in sweep, SweepFails(job) PROVE HeroInv'
  <2>1. UNCHANGED <<enabled, gallery, hero, files, archiver, meant, declined>>
    BY <1>2 DEF SweepFails
  <2>2. /\ sweep' \subseteq SweepJobs /\ asked' \subseteq Listed /\ archive' \subseteq Listed
        /\ ~declined => \A l \in meant : gallery'[l] # "none" /\ Reached(l)'
    BY <1>2, FailingKeepsReach
  <2> QED
    BY <1>0, <2>1, <2>2 DEF HeroInv, HeroTypeOK
<1>3. ASSUME NEW l \in Listed, TakeArchive(l) PROVE HeroInv'
  <2> DEFINE next == [pc |-> "fetch", listing |-> l, photo |-> NoPhoto]
  <2>1. ArchiverTyped(next) /\ next.listing = l /\ next.pc = "fetch"
    BY HeroConstants DEF ArchiverTyped, Listed
  <2>2. /\ UNCHANGED <<enabled, gallery, hero, files, sweep, meant, asked, declined>>
        /\ UNCHANGED archiver \/ archiver' = [archiver EXCEPT !["queue"] = next]
        /\ archive' \subseteq archive
    BY <1>3 DEF TakeArchive, Becomes, Ended, historyOfSweep
  <2>3. ~declined => \A k \in meant : gallery'[k] # "none" /\ Reached(k)'
    BY <2>2, ArchivingKeepsReach
  <2> HIDE DEF next
  <2>4. CASE UNCHANGED archiver
    BY <1>0, <2>2, <2>3, <2>4 DEF HeroInv, HeroTypeOK
  <2>5. CASE archiver' = [archiver EXCEPT !["queue"] = next]
    <3>1. "queue" \in Archivers
      BY DEF Archivers
    <3> QED
      BY <1>0, <2>1, <2>2, <2>3, <2>5, <3>1, ArchiverStep DEF HeroInv, HeroTypeOK
  <2> QED
    BY <2>2, <2>4, <2>5
<1>4. ASSUME NEW l \in Listed, PageArchives(l) PROVE HeroInv'
  <2> DEFINE next == [pc |-> "fetch", listing |-> l, photo |-> NoPhoto]
  <2>1. ArchiverTyped(next) /\ next.listing = l /\ next.pc = "fetch"
    BY HeroConstants DEF ArchiverTyped, Listed
  <2>2. /\ UNCHANGED <<enabled, hero, files, sweep, archive, meant, asked, declined>>
        /\ UNCHANGED archiver \/ archiver' = [archiver EXCEPT !["page"] = next]
        /\ gallery' = [gallery EXCEPT ![l] = "readable"]
    BY <1>4 DEF PageArchives, Becomes, historyOfSweep
  <2>3. gallery' \in [Listed -> {"none", "readable", "overlapping"}]
        /\ \A k \in Listed : gallery[k] # "none" => gallery'[k] # "none"
    BY <1>0, <2>2 DEF HeroTypeOK
  <2>4. ~declined => \A k \in meant : gallery'[k] # "none" /\ Reached(k)'
    BY <2>2, <2>3, ArchivingKeepsReach
  <2> HIDE DEF next
  <2>5. CASE UNCHANGED archiver
    BY <1>0, <2>2, <2>3, <2>4, <2>5 DEF HeroInv, HeroTypeOK
  <2>6. CASE archiver' = [archiver EXCEPT !["page"] = next]
    <3>1. "page" \in Archivers
      BY DEF Archivers
    <3> QED
      BY <1>0, <2>1, <2>2, <2>3, <2>4, <2>6, <3>1, ArchiverStep DEF HeroInv, HeroTypeOK
  <2> QED
    BY <2>2, <2>5, <2>6
<1>5. ASSUME NEW a \in Archivers, ArchiveSkips(a) \/ ArchiveThrows(a) PROVE HeroInv'
  <2>1. /\ UNCHANGED <<enabled, gallery, hero, files, sweep, meant, asked, declined>>
        /\ archiver' = [archiver EXCEPT ![a] = NoArchive] /\ archive' \subseteq archive
    BY <1>5 DEF ArchiveSkips, ArchiveThrows, Rests, Threw, Ended, historyOfSweep
  <2>2. ~declined => \A k \in meant : gallery'[k] # "none" /\ Reached(k)'
    BY <2>1, ArchivingKeepsReach
  <2> QED
    BY <1>0, <1>a, <2>1, <2>2, ArchiverStep DEF HeroInv, HeroTypeOK
<1>6. ASSUME NEW a \in Archivers, InsertHero(a) PROVE HeroInv'
  <2> DEFINE here == archiver[a].listing
             photo == archiver[a].photo
  <2>1. here \in Listed /\ photo \in files /\ photo \in Photos \cup {NoPhoto}
    BY <1>0, <1>6 DEF InsertHero, HeroTypeOK
  <2>2. hero' = [hero EXCEPT ![here] = IF hero[here] = NoPhoto THEN photo ELSE hero[here]]
    BY <1>6 DEF InsertHero, Inserted
  <2>3. /\ UNCHANGED <<enabled, gallery, files, sweep, meant, asked, declined>>
        /\ archiver' = [archiver EXCEPT ![a] = NoArchive] /\ archive' \subseteq archive
    BY <1>6 DEF InsertHero, Rests, Ended, historyOfSweep
  <2> HIDE DEF here, photo
  <2>4. /\ hero' \in HeroRows
        /\ \A l \in Listed : hero'[l] = IF l = here /\ hero[l] = NoPhoto THEN photo ELSE hero[l]
    BY <1>0, <2>1, <2>2 DEF HeroTypeOK, HeroRows
  <2>5. \A l \in Listed : hero'[l] # NoPhoto => hero'[l] \in files
    BY <1>0, <2>1, <2>4
  <2>6. ~declined => \A k \in meant : gallery'[k] # "none" /\ Reached(k)'
    BY <2>3, <2>4, ArchivingKeepsReach
  <2> QED
    BY <1>0, <1>a, <2>3, <2>4, <2>5, <2>6, ArchiverStep DEF HeroInv, HeroTypeOK
<1>7. ASSUME NEW a \in Archivers, NEW photo \in Photos, StoreFile(a, photo) PROVE HeroInv'
  <2> DEFINE next == [pc |-> "insert", listing |-> archiver[a].listing, photo |-> photo]
  <2>1. archiver[a].listing \in Listed
    BY <1>0, <1>7 DEF StoreFile
  <2>2. ArchiverTyped(next) /\ next.listing = archiver[a].listing /\ next.photo = photo
    BY <2>1, HeroConstants DEF ArchiverTyped, Listed
  <2>3. /\ UNCHANGED <<enabled, gallery, hero, sweep, archive, meant, asked, declined>>
        /\ archiver' = [archiver EXCEPT ![a] = next] /\ files' = files \cup {photo}
    BY <1>7 DEF StoreFile, Becomes, historyOfSweep
  <2>4. ~declined => \A k \in meant : gallery'[k] # "none" /\ Reached(k)'
    BY <2>3, ArchivingKeepsReach
  <2> HIDE DEF next
  <2> QED
    BY <1>0, <2>1, <2>2, <2>3, <2>4, ArchiverStep DEF HeroInv, HeroTypeOK
<1>8. ASSUME NEW l \in Listed, Overlap(l) PROVE HeroInv'
  <2>1. /\ UNCHANGED <<enabled, hero, files, sweep, archive, archiver, meant, asked, declined>>
        /\ gallery' \in [Listed -> {"none", "readable", "overlapping"}]
        /\ \A k \in Listed : gallery[k] # "none" => gallery'[k] # "none"
    BY <1>0, <1>8 DEF Overlap, HeroTypeOK, historyOfSweep
  <2>2. ~declined => \A k \in meant : gallery'[k] # "none" /\ Reached(k)'
    BY <2>1, ArchivingKeepsReach
  <2> QED
    BY <1>0, <2>1, <2>2 DEF HeroInv, HeroTypeOK
<1>9. ASSUME NEW job \in sweep, SweepDeclined(job) PROVE HeroInv'
  <2>1. /\ UNCHANGED <<enabled, gallery, hero, files, archive, archiver, meant, asked>>
        /\ declined' = TRUE /\ sweep' \subseteq sweep
    BY <1>9 DEF SweepDeclined
  <2> QED
    BY <1>0, <2>1 DEF HeroInv, HeroTypeOK
<1>10. ASSUME NEW l \in Listed, CardQueues(l) PROVE HeroInv'
  <2>1. /\ UNCHANGED <<enabled, gallery, hero, files, sweep, archiver, meant, asked, declined>>
        /\ archive' = archive \cup {l}
    BY <1>10 DEF CardQueues, historyOfSweep
  <2>2. ~declined => \A k \in meant : gallery'[k] # "none" /\ Reached(k)'
    BY <2>1, ArchivingKeepsReach
  <2> QED
    BY <1>0, <2>1, <2>2 DEF HeroInv, HeroTypeOK
<1>11. CASE SwitchArchive
  <2>1. /\ UNCHANGED <<gallery, hero, files, sweep, archive, archiver, meant, asked, declined>>
        /\ enabled' \in BOOLEAN
    BY <1>11 DEF SwitchArchive, historyOfSweep
  <2>2. ~declined => \A k \in meant : gallery'[k] # "none" /\ Reached(k)'
    BY <2>1, ArchivingKeepsReach
  <2> QED
    BY <1>0, <2>1, <2>2 DEF HeroInv, HeroTypeOK
<1>12. CASE UNCHANGED heroVars
  BY <1>12 DEF heroVars, HeroInv, HeroTypeOK, Reached
<1> QED
  BY <1>1, <1>2, <1>3, <1>4, <1>5, <1>6, <1>7, <1>8, <1>9, <1>10, <1>11, <1>12 DEF HeroNext

\* What the archive keeps in every reachable state.
LEMMA HeroHolds == HeroSpec => []HeroInv
  BY HeroInitially, HeroStep, PTL DEF HeroSpec

(* The variables of the archive keep their types, for any number of        *)
(* listings and size of the batches.                                       *)
THEOREM HeroTypeCorrect == HeroSpec => []HeroTypeOK
<1>1. HeroInv => HeroTypeOK
  BY DEF HeroInv
<1> QED
  BY <1>1, HeroHolds, PTL

(* A sweep without jobs has asked for every listing it was started for, or *)
(* found it with a hero, whatever failed on the way, unless a job of it    *)
(* found the archive switched off.                                         *)
THEOREM SweepReachesAll == HeroSpec => []SweepCovers
<1>1. HeroInv => SweepCovers
  BY DEF HeroInv, SweepCovers, Reached
<1> QED
  BY <1>1, HeroHolds, PTL

(* A hero stays the same in every step, and its file is there.             *)
THEOREM HeroesNeverChange == HeroSpec => HeroesStand
<1>1. HeroInv /\ [HeroNext]_heroVars =>
        [\A l \in Listed : hero[l] # NoPhoto => hero[l]' = hero[l] /\ hero[l] \in files]_heroVars
  <2> SUFFICES ASSUME HeroInv, HeroNext, NEW l \in Listed, hero[l] # NoPhoto
               PROVE  hero'[l] = hero[l] /\ hero[l] \in files
    BY DEF heroVars
  <2>1. hero[l] \in files /\ hero \in HeroRows
    BY DEF HeroInv, HeroTypeOK
  <2>2. ASSUME NEW a \in Archivers, InsertHero(a) PROVE hero'[l] = hero[l]
    <3> DEFINE here == archiver[a].listing
               new == IF hero[here] = NoPhoto THEN archiver[a].photo ELSE hero[here]
    <3>1. hero' = [hero EXCEPT ![here] = new]
      BY <2>2 DEF InsertHero, Inserted
    <3>2. here = l => new = hero[l]
      BY Zenon
    <3> HIDE DEF here, new
    <3> QED
      BY <2>1, <3>1, <3>2 DEF HeroRows
  <2>3. CASE UNCHANGED hero
    BY <2>1, <2>3
  <2> QED
    BY <2>1, <2>2, <2>3 DEF HeroNext, SweepBatch, SweepFails, SweepDeclined, TakeArchive, PageArchives, CardQueues, Overlap,
       SwitchArchive, ArchiveSkips, ArchiveThrows, StoreFile
<1> QED
  BY <1>1, HeroHolds, PTL DEF HeroSpec, HeroesStand

-----------------------------------------------------------------------------
(* FilterLinks.                                                            *)

(* Filters, addresses and scopes by their fields.                          *)
FiltersOf(v, c, f, s, p) == [availability |-> v, activity |-> c, from |-> f, sort |-> s, page |-> p]
AddressOf(h, q, b, k) == [path |-> h, primary |-> q, comparing |-> b, comparison |-> k]
ScopeOf(h, q, ks) == [path |-> h, primary |-> q, comparison |-> ks]

Typed(v, c, f, s, p) ==
  /\ v \in {Absent, "all", "current"} /\ c \in {Absent, "priceReduced"} /\ f \in {Absent, "2026-01-01"}
  /\ s \in Sorts \cup {Absent} /\ p \in Pages \cup {Absent}
  /\ c = Absent \/ f = Absent

\* The filters of an address are those with the values it may have.
LEMMA ParamsAre ==
  /\ \A v, c, f, s, p : Typed(v, c, f, s, p) <=> FiltersOf(v, c, f, s, p) \in Params
  /\ \A q \in Params : \E v, c, f, s, p : Typed(v, c, f, s, p) /\ q = FiltersOf(v, c, f, s, p)
<1>1. ASSUME NEW v, NEW c, NEW f, NEW s, NEW p
      PROVE  Typed(v, c, f, s, p) <=> FiltersOf(v, c, f, s, p) \in Params
  BY DEF Typed, FiltersOf, Params, Absent, Sorts
<1>2. ASSUME NEW q \in Params
      PROVE  q = FiltersOf(q.availability, q.activity, q.from, q.sort, q.page)
  BY DEF FiltersOf, Params
<1>3. ASSUME NEW q \in Params
      PROVE  Typed(q.availability, q.activity, q.from, q.sort, q.page)
  BY DEF Typed, Params, Absent, Sorts
<1> QED
  BY <1>1, <1>2, <1>3

\* What the operators on filters make of their fields.
LEMMA ParseIs ==
  ASSUME NEW v, NEW c, NEW f, NEW s, NEW p
  PROVE  Parse(FiltersOf(v, c, f, s, p)) = FiltersOf(Or(v, "all"), c, f, Or(s, "lastSeenDesc"), Or(p, "1"))
<1> DEFINE q == FiltersOf(v, c, f, s, p)
           first == [q EXCEPT !.availability = Or(v, "all")]
           second == [first EXCEPT !.sort = Or(s, "lastSeenDesc")]
           third == [second EXCEPT !.page = Or(p, "1")]
<1>1. q.availability = v /\ q.sort = s /\ q.page = p
  BY DEF FiltersOf
<1> HIDE DEF q
<1>2. Parse(q) = third
  BY <1>1 DEF Parse
<1>3. first = FiltersOf(Or(v, "all"), c, f, s, p)
  BY DEF FiltersOf, q
<1> HIDE DEF first
<1>4. second = FiltersOf(Or(v, "all"), c, f, Or(s, "lastSeenDesc"), p)
  BY <1>3 DEF FiltersOf
<1> HIDE DEF second
<1>5. third = FiltersOf(Or(v, "all"), c, f, Or(s, "lastSeenDesc"), Or(p, "1"))
  BY <1>4 DEF FiltersOf
<1> QED
  BY <1>2, <1>5 DEF q

\* Of its fields, the API's formatter leaves out the page's default only.
LEMMA PageFiltersAre ==
  ASSUME NEW v, NEW c, NEW f, NEW s, NEW p
  PROVE  FormatPageFilters(FiltersOf(v, c, f, s, p)) = FiltersOf(v, c, f, s, Unless(p, "1"))
<1> DEFINE q == FiltersOf(v, c, f, s, p)
           first == [q EXCEPT !.availability = Unless(v, "all")]
           second == [first EXCEPT !.sort = Unless(s, "lastSeenDesc")]
           third == [second EXCEPT !.page = Unless(p, "1")]
           fourth == [third EXCEPT !.availability = v]
           fifth == [fourth EXCEPT !.sort = s]
<1>1. q.availability = v /\ q.sort = s /\ q.page = p
  BY DEF FiltersOf
<1> HIDE DEF q
<1>2. FormatQuery(q) = third
  BY <1>1 DEF FormatQuery
<1>3. first = FiltersOf(Unless(v, "all"), c, f, s, p)
  BY DEF FiltersOf, q
<1> HIDE DEF first
<1>4. second = FiltersOf(Unless(v, "all"), c, f, Unless(s, "lastSeenDesc"), p)
  BY <1>3 DEF FiltersOf
<1> HIDE DEF second
<1>5. third = FiltersOf(Unless(v, "all"), c, f, Unless(s, "lastSeenDesc"), Unless(p, "1"))
  BY <1>4 DEF FiltersOf
<1> HIDE DEF third
<1>6. FormatPageFilters(q) = fifth
  BY <1>1, <1>2 DEF FormatPageFilters
<1>7. fourth = FiltersOf(v, c, f, Unless(s, "lastSeenDesc"), Unless(p, "1"))
  BY <1>5 DEF FiltersOf
<1> HIDE DEF fourth
<1>8. fifth = FiltersOf(v, c, f, s, Unless(p, "1"))
  BY <1>7 DEF FiltersOf
<1> QED
  BY <1>6, <1>8 DEF q

\* An analysis has neither sort nor page.
LEMMA AnalysisIs ==
  ASSUME NEW v, NEW c, NEW f, NEW s, NEW p
  PROVE  /\ ToAnalysis(FiltersOf(v, c, f, s, p)) = FiltersOf(v, c, f, "lastSeenDesc", "1")
         /\ FormatAnalysis(FiltersOf(v, c, f, s, p)) = FiltersOf(v, c, f, Absent, Absent)
<1> DEFINE q == FiltersOf(v, c, f, s, p)
           first == [q EXCEPT !.sort = "lastSeenDesc"]
           second == [first EXCEPT !.page = "1"]
<1>1. first = FiltersOf(v, c, f, "lastSeenDesc", p)
  BY DEF FiltersOf
<1> HIDE DEF q
<1>2. ToAnalysis(q) = second
  BY DEF ToAnalysis
<1> HIDE DEF first
<1>3. second = FiltersOf(v, c, f, "lastSeenDesc", "1")
  BY <1>1 DEF FiltersOf
<1> HIDE DEF second
<1> DEFINE written == FormatPageFilters(second)
           third == [written EXCEPT !.sort = Absent]
           fourth == [third EXCEPT !.page = Absent]
<1>4. written = FiltersOf(v, c, f, "lastSeenDesc", Unless("1", "1"))
  BY <1>3, PageFiltersAre
<1> HIDE DEF written
<1>5. FormatAnalysis(q) = fourth
  BY <1>2 DEF FormatAnalysis, written
<1>6. third = FiltersOf(v, c, f, Absent, Unless("1", "1"))
  BY <1>4 DEF FiltersOf
<1> HIDE DEF third
<1>7. fourth = FiltersOf(v, c, f, Absent, Absent)
  BY <1>6 DEF FiltersOf
<1> QED
  BY <1>2, <1>3, <1>5, <1>7 DEF q

\* A research page reads its filters with the listings that are current.
LEMMA ResearchIs ==
  ASSUME NEW v, NEW c, NEW f, NEW s, NEW p
  PROVE  ResearchQuery(FiltersOf(v, c, f, s, p)) =
         FiltersOf(Or(v, "current"), c, f, Or(s, "lastSeenDesc"), Or(p, "1"))
<1> DEFINE q == FiltersOf(v, c, f, s, p)
           first == [q EXCEPT !.availability = Or(v, "current")]
<1>1. q.availability = v
  BY DEF FiltersOf
<1>2. first = FiltersOf(Or(v, "current"), c, f, s, p)
  BY DEF FiltersOf
<1> HIDE DEF q
<1>3. ResearchQuery(q) = Parse(first)
  BY <1>1 DEF ResearchQuery
<1> HIDE DEF first
<1>4. Or(Or(v, "current"), "all") = Or(v, "current")
  BY DEF Or, Absent
<1> QED
  BY <1>2, <1>3, <1>4, ParseIs DEF q

\* A page renders from its params with its own defaults.
LEMMA PageParamsAre ==
  ASSUME NEW h, NEW v, NEW c, NEW f, NEW s, NEW p, NEW b, NEW k
  PROVE  PageParams(AddressOf(h, FiltersOf(v, c, f, s, p), b, k)) =
         AddressOf(h, FiltersOf(Or(v, "current"), c, f, IF h = "/listings" THEN Or(s, "firstSeenDesc") ELSE s, p),
                   b, k)
<1> DEFINE q == FiltersOf(v, c, f, s, p)
           a == AddressOf(h, q, b, k)
           sorted == IF h = "/listings" THEN Or(s, "firstSeenDesc") ELSE s
           first == [q EXCEPT !.availability = Or(v, "current")]
           second == [first EXCEPT !.sort = sorted]
<1>1. q.availability = v /\ q.sort = s
  BY DEF FiltersOf
<1>2. first = FiltersOf(Or(v, "current"), c, f, s, p)
  BY DEF FiltersOf
<1> HIDE DEF q
<1>3. a.path = h /\ a.primary = q
  BY DEF AddressOf
<1>4. PageParams(a) = [[a EXCEPT !.primary.availability = Or(v, "current")] EXCEPT !.primary.sort = sorted]
  BY <1>1, <1>3 DEF PageParams
<1>5. [a EXCEPT !.primary.availability = Or(v, "current")] = AddressOf(h, first, b, k)
  BY DEF AddressOf
<1> HIDE DEF first, sorted
<1>6. [AddressOf(h, first, b, k) EXCEPT !.primary.sort = sorted] = AddressOf(h, second, b, k)
  BY DEF AddressOf
<1>7. second = FiltersOf(Or(v, "current"), c, f, sorted, p)
  BY <1>2 DEF FiltersOf
<1> HIDE DEF second
<1> QED
  BY <1>4, <1>5, <1>6, <1>7 DEF sorted, q

\* A value in place of one that is absent or a default.
LEMMA Defaults ==
  ASSUME NEW x, NEW d
  PROVE  /\ x # Absent => Or(x, d) = x
         /\ Or(Absent, d) = d
         /\ x # Absent => Or(Unless(x, d), d) = x
<1> QED
  BY DEF Or, Unless, Absent

(* What the links replace in filters, in an address (With, At) and in a     *)
(* scope (To).                                                             *)
WithPage(q, z) == [q EXCEPT !.page = z]
WithSort(q, w, z) == [q EXCEPT !.sort = w, !.page = z]
WithFrom(q, y, x, z) == [q EXCEPT !.from = y, !.activity = x, !.page = z]
WithForm(q, w, x, y) == [q EXCEPT !.availability = w, !.activity = x, !.from = y]
WithFormAndPage(q, w, x, y, z) == [q EXCEPT !.availability = w, !.activity = x, !.from = y, !.page = z]
WithPrimary(a, r) == [a EXCEPT !.primary = r]
WithComparison(a, r) == [a EXCEPT !.comparison = r]
WithPath(a, r) == [a EXCEPT !.path = r]
WithGroups(a, r, g) == [a EXCEPT !.primary = r, !.comparison = g]
AtPage(a, z) == [a EXCEPT !.primary.page = z]
AtSort(a, w, z) == [a EXCEPT !.primary.sort = w, !.primary.page = z]
AtFrom(a, y, x, z) == [a EXCEPT !.primary.from = y, !.primary.activity = x, !.primary.page = z]
AtOtherPage(a, z) == [a EXCEPT !.comparison.page = z]
AtOtherSort(a, w, z) == [a EXCEPT !.comparison.sort = w, !.comparison.page = z]
Cloned(a, z, r, g) == [a EXCEPT !.primary.page = z, !.comparing = r, !.comparison = g]
ToPrimary(m, r) == [m EXCEPT !.primary = r]
ToComparison(m, r) == [m EXCEPT !.comparison = r]
ToGroups(m, r, g) == [m EXCEPT !.primary = r, !.comparison = g]
ToPath(m, g, r) == [m EXCEPT !.path = g, !.primary = r]
ToPage(m, z) == [m EXCEPT !.primary.page = z]
ToCloned(m, z, g) == [m EXCEPT !.primary.page = z, !.comparison = g]
ToSort(m, w, z) == [m EXCEPT !.primary.sort = w, !.primary.page = z]
ToFrom(m, y, x, z) == [m EXCEPT !.primary.from = y, !.primary.activity = x, !.primary.page = z]
ToForm(m, w, x, y, z) == [m EXCEPT !.primary.availability = w, !.primary.activity = x, !.primary.from = y, !.primary.page = z]

\* Another page: each operator replaces the fields it names and no other.
LEMMA WithPageIs ==
  ASSUME NEW v, NEW c, NEW f, NEW s, NEW p, NEW z
  PROVE  WithPage(FiltersOf(v, c, f, s, p), z) = FiltersOf(v, c, f, s, z)
<1> QED
  BY DEF WithPage, FiltersOf

\* Another order and page.
LEMMA WithSortIs ==
  ASSUME NEW v, NEW c, NEW f, NEW s, NEW p, NEW w, NEW z
  PROVE  WithSort(FiltersOf(v, c, f, s, p), w, z) = FiltersOf(v, c, f, w, z)
<1> DEFINE q == FiltersOf(v, c, f, s, p)
           first == [q EXCEPT !.sort = w]
           second == [first EXCEPT !.page = z]
<1>1. WithSort(q, w, z) = second
  BY DEF WithSort
<1>2. first = FiltersOf(v, c, f, w, p)
  BY DEF FiltersOf
<1> HIDE DEF first
<1>3. second = FiltersOf(v, c, f, w, z)
  BY <1>2 DEF FiltersOf
<1> HIDE DEF second
<1> QED
  BY <1>1, <1>3

\* A first day, an activity and a page.
LEMMA WithFromIs ==
  ASSUME NEW v, NEW c, NEW f, NEW s, NEW p, NEW y, NEW x, NEW z
  PROVE  WithFrom(FiltersOf(v, c, f, s, p), y, x, z) = FiltersOf(v, x, y, s, z)
<1> DEFINE q == FiltersOf(v, c, f, s, p)
           first == [q EXCEPT !.from = y]
           second == [first EXCEPT !.activity = x]
           third == [second EXCEPT !.page = z]
<1>1. WithFrom(q, y, x, z) = third
  BY DEF WithFrom
<1>2. first = FiltersOf(v, c, y, s, p)
  BY DEF FiltersOf
<1> HIDE DEF first
<1>3. second = FiltersOf(v, x, y, s, p)
  BY <1>2 DEF FiltersOf
<1> HIDE DEF second
<1>4. third = FiltersOf(v, x, y, s, z)
  BY <1>3 DEF FiltersOf
<1> HIDE DEF third
<1> QED
  BY <1>1, <1>4

\* The fields of a form.
LEMMA WithFormIs ==
  ASSUME NEW v, NEW c, NEW f, NEW s, NEW p, NEW w, NEW x, NEW y
  PROVE  WithForm(FiltersOf(v, c, f, s, p), w, x, y) = FiltersOf(w, x, y, s, p)
<1> DEFINE q == FiltersOf(v, c, f, s, p)
           first == [q EXCEPT !.availability = w]
           second == [first EXCEPT !.activity = x]
           third == [second EXCEPT !.from = y]
<1>1. WithForm(q, w, x, y) = third
  BY DEF WithForm
<1>2. first = FiltersOf(w, c, f, s, p)
  BY DEF FiltersOf
<1> HIDE DEF first
<1>3. second = FiltersOf(w, x, f, s, p)
  BY <1>2 DEF FiltersOf
<1> HIDE DEF second
<1>4. third = FiltersOf(w, x, y, s, p)
  BY <1>3 DEF FiltersOf
<1> HIDE DEF third
<1> QED
  BY <1>1, <1>4

\* The fields of a form, and a page.
LEMMA WithFormAndPageIs ==
  ASSUME NEW v, NEW c, NEW f, NEW s, NEW p, NEW w, NEW x, NEW y, NEW z
  PROVE  WithFormAndPage(FiltersOf(v, c, f, s, p), w, x, y, z) = FiltersOf(w, x, y, s, z)
<1> DEFINE q == FiltersOf(v, c, f, s, p)
           first == [q EXCEPT !.availability = w]
           second == [first EXCEPT !.activity = x]
           third == [second EXCEPT !.from = y]
           fourth == [third EXCEPT !.page = z]
<1>1. WithFormAndPage(q, w, x, y, z) = fourth
  BY DEF WithFormAndPage
<1>2. first = FiltersOf(w, c, f, s, p)
  BY DEF FiltersOf
<1> HIDE DEF first
<1>3. second = FiltersOf(w, x, f, s, p)
  BY <1>2 DEF FiltersOf
<1> HIDE DEF second
<1>4. third = FiltersOf(w, x, y, s, p)
  BY <1>3 DEF FiltersOf
<1> HIDE DEF third
<1>5. fourth = FiltersOf(w, x, y, s, z)
  BY <1>4 DEF FiltersOf
<1> HIDE DEF fourth
<1> QED
  BY <1>1, <1>5

\* Another first group in an address.
LEMMA WithPrimaryIs ==
  ASSUME NEW h, NEW q, NEW b, NEW k, NEW r
  PROVE  WithPrimary(AddressOf(h, q, b, k), r) = AddressOf(h, r, b, k)
<1> QED
  BY DEF WithPrimary, AddressOf

\* Another second group in an address.
LEMMA WithComparisonIs ==
  ASSUME NEW h, NEW q, NEW b, NEW k, NEW r
  PROVE  WithComparison(AddressOf(h, q, b, k), r) = AddressOf(h, q, b, r)
<1> QED
  BY DEF WithComparison, AddressOf

\* Another path.
LEMMA WithPathIs ==
  ASSUME NEW h, NEW q, NEW b, NEW k, NEW r
  PROVE  WithPath(AddressOf(h, q, b, k), r) = AddressOf(r, q, b, k)
<1> QED
  BY DEF WithPath, AddressOf

\* Both groups of an address.
LEMMA WithGroupsIs ==
  ASSUME NEW h, NEW q, NEW b, NEW k, NEW r, NEW g
  PROVE  WithGroups(AddressOf(h, q, b, k), r, g) = AddressOf(h, r, b, g)
<1> DEFINE a == AddressOf(h, q, b, k)
<1>1. a.primary = q /\ a.comparison = k
  BY DEF AddressOf
<1>2. WithGroups(a, r, g) =
      [[a EXCEPT !.primary = r] EXCEPT !.comparison = g]
  BY DEF WithGroups
<1>3. [a EXCEPT !.primary = r] =
      AddressOf(h, r, b, k)
  BY <1>1 DEF AddressOf
<1>4. [AddressOf(h, r, b, k) EXCEPT !.comparison = g] =
      AddressOf(h, r, b, g)
  BY <1>1 DEF AddressOf
<1> HIDE DEF a
<1>5. WithGroups(a, r, g) = AddressOf(h, r, b, g)
  BY <1>2, <1>3, <1>4
<1> QED
  BY <1>5 DEF a

\* Another page of the first group of an address.
LEMMA AtPageIs ==
  ASSUME NEW h, NEW q, NEW b, NEW k, NEW z
  PROVE  AtPage(AddressOf(h, q, b, k), z) = AddressOf(h, WithPage(q, z), b, k)
<1> DEFINE a == AddressOf(h, q, b, k)
<1>1. a.primary = q /\ a.comparison = k
  BY DEF AddressOf
<1>2. AtPage(a, z) =
      [a EXCEPT !.primary = [a.primary EXCEPT !.page = z]]
  BY DEF AtPage
<1> QED
  BY <1>1, <1>2 DEF AddressOf, WithPage

\* Another order of the first group of an address.
LEMMA AtSortIs ==
  ASSUME NEW h, NEW q, NEW b, NEW k, NEW w, NEW z
  PROVE  AtSort(AddressOf(h, q, b, k), w, z) = AddressOf(h, WithSort(q, w, z), b, k)
<1> DEFINE a == AddressOf(h, q, b, k)
<1>1. a.primary = q /\ a.comparison = k
  BY DEF AddressOf
<1>2. AtSort(a, w, z) =
      [a EXCEPT !.primary = [a.primary EXCEPT !.sort = w, !.page = z]]
  BY DEF AtSort
<1> QED
  BY <1>1, <1>2 DEF AddressOf, WithSort

\* Another first day of the first group of an address.
LEMMA AtFromIs ==
  ASSUME NEW h, NEW q, NEW b, NEW k, NEW y, NEW x, NEW z
  PROVE  AtFrom(AddressOf(h, q, b, k), y, x, z) = AddressOf(h, WithFrom(q, y, x, z), b, k)
<1> DEFINE a == AddressOf(h, q, b, k)
<1>1. a.primary = q /\ a.comparison = k
  BY DEF AddressOf
<1>2. AtFrom(a, y, x, z) =
      [a EXCEPT !.primary = [a.primary EXCEPT !.from = y, !.activity = x, !.page = z]]
  BY DEF AtFrom
<1> QED
  BY <1>1, <1>2 DEF AddressOf, WithFrom

\* Another page of the second group of an address.
LEMMA AtOtherPageIs ==
  ASSUME NEW h, NEW q, NEW b, NEW k, NEW z
  PROVE  AtOtherPage(AddressOf(h, q, b, k), z) = AddressOf(h, q, b, WithPage(k, z))
<1> DEFINE a == AddressOf(h, q, b, k)
<1>1. a.primary = q /\ a.comparison = k
  BY DEF AddressOf
<1>2. AtOtherPage(a, z) =
      [a EXCEPT !.comparison = [a.comparison EXCEPT !.page = z]]
  BY DEF AtOtherPage
<1> QED
  BY <1>1, <1>2 DEF AddressOf, WithPage

\* Another order of the second group of an address.
LEMMA AtOtherSortIs ==
  ASSUME NEW h, NEW q, NEW b, NEW k, NEW w, NEW z
  PROVE  AtOtherSort(AddressOf(h, q, b, k), w, z) = AddressOf(h, q, b, WithSort(k, w, z))
<1> DEFINE a == AddressOf(h, q, b, k)
<1>1. a.primary = q /\ a.comparison = k
  BY DEF AddressOf
<1>2. AtOtherSort(a, w, z) =
      [a EXCEPT !.comparison = [a.comparison EXCEPT !.sort = w, !.page = z]]
  BY DEF AtOtherSort
<1> QED
  BY <1>1, <1>2 DEF AddressOf, WithSort

\* A second group beside the first page of the first.
LEMMA ClonedIs ==
  ASSUME NEW h, NEW q, NEW b, NEW k, NEW z, NEW r, NEW g
  PROVE  Cloned(AddressOf(h, q, b, k), z, r, g) = AddressOf(h, WithPage(q, z), r, g)
<1> DEFINE a == AddressOf(h, q, b, k)
<1>1. a.primary = q /\ a.comparison = k
  BY DEF AddressOf
<1>2. Cloned(a, z, r, g) =
      [[[a EXCEPT !.primary = [a.primary EXCEPT !.page = z]] EXCEPT !.comparing = r] EXCEPT !.comparison = g]
  BY DEF Cloned
<1>3. [a EXCEPT !.primary = [a.primary EXCEPT !.page = z]] =
      AddressOf(h, WithPage(q, z), b, k)
  BY <1>1 DEF AddressOf, WithPage
<1>4. [AddressOf(h, WithPage(q, z), b, k) EXCEPT !.comparing = r] =
      AddressOf(h, WithPage(q, z), r, k)
  BY <1>1 DEF AddressOf, WithPage
<1>5. [AddressOf(h, WithPage(q, z), r, k) EXCEPT !.comparison = g] =
      AddressOf(h, WithPage(q, z), r, g)
  BY <1>1 DEF AddressOf, WithPage
<1> HIDE DEF a
<1>6. Cloned(a, z, r, g) = AddressOf(h, WithPage(q, z), r, g)
  BY <1>2, <1>3, <1>4, <1>5
<1> QED
  BY <1>6 DEF a

\* Another first group in a scope.
LEMMA ToPrimaryIs ==
  ASSUME NEW h, NEW q, NEW ks, NEW r
  PROVE  ToPrimary(ScopeOf(h, q, ks), r) = ScopeOf(h, r, ks)
<1> QED
  BY DEF ToPrimary, ScopeOf

\* Another second group in a scope.
LEMMA ToComparisonIs ==
  ASSUME NEW h, NEW q, NEW ks, NEW r
  PROVE  ToComparison(ScopeOf(h, q, ks), r) = ScopeOf(h, q, r)
<1> QED
  BY DEF ToComparison, ScopeOf

\* Both groups of a scope.
LEMMA ToGroupsIs ==
  ASSUME NEW h, NEW q, NEW ks, NEW r, NEW g
  PROVE  ToGroups(ScopeOf(h, q, ks), r, g) = ScopeOf(h, r, g)
<1> DEFINE m == ScopeOf(h, q, ks)
<1>1. m.primary = q
  BY DEF ScopeOf
<1>2. ToGroups(m, r, g) =
      [[m EXCEPT !.primary = r] EXCEPT !.comparison = g]
  BY DEF ToGroups
<1>3. [m EXCEPT !.primary = r] =
      ScopeOf(h, r, ks)
  BY <1>1 DEF ScopeOf
<1>4. [ScopeOf(h, r, ks) EXCEPT !.comparison = g] =
      ScopeOf(h, r, g)
  BY <1>1 DEF ScopeOf
<1> HIDE DEF m
<1>5. ToGroups(m, r, g) = ScopeOf(h, r, g)
  BY <1>2, <1>3, <1>4
<1> QED
  BY <1>5 DEF m

\* Another path and first group in a scope.
LEMMA ToPathIs ==
  ASSUME NEW h, NEW q, NEW ks, NEW g, NEW r
  PROVE  ToPath(ScopeOf(h, q, ks), g, r) = ScopeOf(g, r, ks)
<1> DEFINE m == ScopeOf(h, q, ks)
<1>1. m.primary = q
  BY DEF ScopeOf
<1>2. ToPath(m, g, r) =
      [[m EXCEPT !.path = g] EXCEPT !.primary = r]
  BY DEF ToPath
<1>3. [m EXCEPT !.path = g] =
      ScopeOf(g, q, ks)
  BY <1>1 DEF ScopeOf
<1>4. [ScopeOf(g, q, ks) EXCEPT !.primary = r] =
      ScopeOf(g, r, ks)
  BY <1>1 DEF ScopeOf
<1> HIDE DEF m
<1>5. ToPath(m, g, r) = ScopeOf(g, r, ks)
  BY <1>2, <1>3, <1>4
<1> QED
  BY <1>5 DEF m

\* Another page of the first group in a scope.
LEMMA ToPageIs ==
  ASSUME NEW h, NEW q, NEW ks, NEW z
  PROVE  ToPage(ScopeOf(h, q, ks), z) = ScopeOf(h, WithPage(q, z), ks)
<1> DEFINE m == ScopeOf(h, q, ks)
<1>1. m.primary = q
  BY DEF ScopeOf
<1>2. ToPage(m, z) =
      [m EXCEPT !.primary = [m.primary EXCEPT !.page = z]]
  BY DEF ToPage
<1> QED
  BY <1>1, <1>2 DEF ScopeOf, WithPage

\* A second group in a scope, beside the first page of the first.
LEMMA ToClonedIs ==
  ASSUME NEW h, NEW q, NEW ks, NEW z, NEW g
  PROVE  ToCloned(ScopeOf(h, q, ks), z, g) = ScopeOf(h, WithPage(q, z), g)
<1> DEFINE m == ScopeOf(h, q, ks)
<1>1. m.primary = q
  BY DEF ScopeOf
<1>2. ToCloned(m, z, g) =
      [[m EXCEPT !.primary = [m.primary EXCEPT !.page = z]] EXCEPT !.comparison = g]
  BY DEF ToCloned
<1>3. [m EXCEPT !.primary = [m.primary EXCEPT !.page = z]] =
      ScopeOf(h, WithPage(q, z), ks)
  BY <1>1 DEF ScopeOf, WithPage
<1>4. [ScopeOf(h, WithPage(q, z), ks) EXCEPT !.comparison = g] =
      ScopeOf(h, WithPage(q, z), g)
  BY <1>1 DEF ScopeOf, WithPage
<1> HIDE DEF m
<1>5. ToCloned(m, z, g) = ScopeOf(h, WithPage(q, z), g)
  BY <1>2, <1>3, <1>4
<1> QED
  BY <1>5 DEF m

\* Another order of the first group in a scope.
LEMMA ToSortIs ==
  ASSUME NEW h, NEW q, NEW ks, NEW w, NEW z
  PROVE  ToSort(ScopeOf(h, q, ks), w, z) = ScopeOf(h, WithSort(q, w, z), ks)
<1> DEFINE m == ScopeOf(h, q, ks)
<1>1. m.primary = q
  BY DEF ScopeOf
<1>2. ToSort(m, w, z) =
      [m EXCEPT !.primary = [m.primary EXCEPT !.sort = w, !.page = z]]
  BY DEF ToSort
<1> QED
  BY <1>1, <1>2 DEF ScopeOf, WithSort

\* Another first day of the first group in a scope.
LEMMA ToFromIs ==
  ASSUME NEW h, NEW q, NEW ks, NEW y, NEW x, NEW z
  PROVE  ToFrom(ScopeOf(h, q, ks), y, x, z) = ScopeOf(h, WithFrom(q, y, x, z), ks)
<1> DEFINE m == ScopeOf(h, q, ks)
<1>1. m.primary = q
  BY DEF ScopeOf
<1>2. ToFrom(m, y, x, z) =
      [m EXCEPT !.primary = [m.primary EXCEPT !.from = y, !.activity = x, !.page = z]]
  BY DEF ToFrom
<1> QED
  BY <1>1, <1>2 DEF ScopeOf, WithFrom

\* The fields of a form, in a scope.
LEMMA ToFormIs ==
  ASSUME NEW h, NEW q, NEW ks, NEW w, NEW x, NEW y, NEW z
  PROVE  ToForm(ScopeOf(h, q, ks), w, x, y, z) = ScopeOf(h, WithFormAndPage(q, w, x, y, z), ks)
<1> DEFINE m == ScopeOf(h, q, ks)
<1>1. m.primary = q
  BY DEF ScopeOf
<1>2. ToForm(m, w, x, y, z) =
      [m EXCEPT !.primary = [m.primary EXCEPT !.availability = w, !.activity = x, !.from = y, !.page = z]]
  BY DEF ToForm
<1> QED
  BY <1>1, <1>2 DEF ScopeOf, WithFormAndPage

Sorted(h, s) == IF h = "/listings" THEN Or(s, "firstSeenDesc") ELSE Or(s, "lastSeenDesc")
Shown(h, q) == FiltersOf(Or(q.availability, "current"), q.activity, q.from, Sorted(h, q.sort), Or(q.page, "1"))
Compares(b, k) == IF b THEN {Shown("/analyze", k)} ELSE {}

\* The scope of an address, from its groups.
LEMMA ScopeIs ==
  ASSUME NEW h, NEW q \in Params, NEW b, NEW k \in Params
  PROVE  Scope(AddressOf(h, q, b, k)) = ScopeOf(h, Shown(h, q), Compares(b, k))
<1>1. PICK v, c, f, s, p : q = FiltersOf(v, c, f, s, p)
  BY ParamsAre
<1>2. PICK v2, c2, f2, s2, p2 : k = FiltersOf(v2, c2, f2, s2, p2)
  BY ParamsAre
<1>3. Shown(h, q) = FiltersOf(Or(v, "current"), c, f, Sorted(h, s), Or(p, "1"))
  BY <1>1 DEF Shown, FiltersOf
<1>4. Shown("/analyze", k) = FiltersOf(Or(v2, "current"), c2, f2, Or(s2, "lastSeenDesc"), Or(p2, "1"))
  BY <1>2 DEF Shown, Sorted, FiltersOf
<1> DEFINE a == AddressOf(h, q, b, k)
           w == Or(v, "current")
           sorted == IF h = "/listings" THEN Or(s, "firstSeenDesc") ELSE s
           page == FiltersOf(w, c, f, sorted, p)
<1>5. PageParams(a).primary = page
  <2>1. PageParams(a) = AddressOf(h, page, b, k)
    BY <1>1, PageParamsAre
  <2> HIDE DEF a, page
  <2> QED
    BY <2>1 DEF AddressOf
<1>6. a.path = h /\ a.comparing = b /\ a.comparison = k
  BY DEF AddressOf
<1>7. ResearchQuery(k) = Shown("/analyze", k)
  BY <1>2, <1>4, ResearchIs
<1>8. Or(w, "all") = w /\ Or(w, "current") = w
  BY DEF Or, Absent
<1>9. (IF h = "/listings" THEN Parse(page) ELSE ResearchQuery(page)) = Shown(h, q)
  <2>1. CASE h = "/listings"
    <3>1. Parse(page) = FiltersOf(Or(w, "all"), c, f, Or(sorted, "lastSeenDesc"), Or(p, "1"))
      BY ParseIs
    <3>2. Or(sorted, "lastSeenDesc") = Or(s, "firstSeenDesc")
      BY <2>1 DEF Or, Absent
    <3> HIDE DEF w, sorted, page
    <3>3. Parse(page) = FiltersOf(w, c, f, Sorted(h, s), Or(p, "1"))
      BY <1>8, <2>1, <3>1, <3>2 DEF Sorted
    <3> QED
      BY <1>3, <2>1, <3>3 DEF w
  <2>2. CASE h # "/listings"
    <3>1. ResearchQuery(page) = FiltersOf(Or(w, "current"), c, f, Or(sorted, "lastSeenDesc"), Or(p, "1"))
      BY ResearchIs
    <3>2. sorted = s
      BY <2>2
    <3> HIDE DEF w, sorted, page
    <3>3. ResearchQuery(page) = FiltersOf(w, c, f, Sorted(h, s), Or(p, "1"))
      BY <1>8, <2>2, <3>1, <3>2 DEF Sorted
    <3> QED
      BY <1>3, <2>2, <3>3 DEF w
  <2> QED
    BY <2>1, <2>2
<1> HIDE DEF a, page
<1>10. Scope(a) = [path |-> h, primary |-> IF h = "/listings" THEN Parse(page) ELSE ResearchQuery(page),
                   comparison |-> IF b THEN {ResearchQuery(k)} ELSE {}]
  BY <1>5, <1>6 DEF Scope
<1> QED
  BY <1>7, <1>9, <1>10 DEF ScopeOf, Compares, a

(* The listing page compares nothing.                                      *)
ListingsAlone == address.path = "/listings" => ~address.comparing

LinkInv == LinkTypeOK /\ ListingsAlone /\ LinksKeepScope

\* A link that leads to the scope of its address keeps the invariant.
LEMMA Leads ==
  ASSUME NEW h \in {"/listings", "/analyze"}, NEW q \in Params, NEW b \in BOOLEAN, NEW k \in Params,
         h = "/listings" => ~b,
         address' = AddressOf(h, q, b, k), intended' = ScopeOf(h, Shown(h, q), Compares(b, k))
  PROVE  LinkInv'
<1> DEFINE a == AddressOf(h, q, b, k)
<1>1. a \in Address
  BY Zenon DEF Address, AddressOf
<1>2. a.path = h /\ a.comparing = b
  BY DEF AddressOf
<1>3. Scope(a) = ScopeOf(h, Shown(h, q), Compares(b, k))
  BY ScopeIs
<1>4. address' = a
  OBVIOUS
<1> HIDE DEF a
<1> QED
  BY <1>1, <1>2, <1>3, <1>4 DEF LinkInv, LinkTypeOK, ListingsAlone, LinksKeepScope

\* A link to a page that compares nothing.
LEMMA LeadsAlone ==
  ASSUME NEW h \in {"/listings", "/analyze"}, NEW q \in Params,
         address' = AddressOf(h, q, FALSE, NoParams), intended' = ScopeOf(h, Shown(h, q), {})
  PROVE  LinkInv'
<1>1. NoParams \in Params
  BY DEF NoParams, Params, Absent, Sorts
<1> DEFINE alone == FALSE
<1>2. alone \in BOOLEAN /\ ~alone /\ Compares(alone, NoParams) = {} /\ address' = AddressOf(h, q, alone, NoParams)
  BY DEF Compares
<1> HIDE DEF alone
<1> QED
  BY <1>1, <1>2, Leads

\* A link to a page that compares two groups.
LEMMA LeadsCompared ==
  ASSUME NEW q \in Params, NEW b \in BOOLEAN, NEW k \in Params, b,
         address' = AddressOf("/analyze", q, b, k),
         intended' = ScopeOf("/analyze", Shown("/analyze", q), {Shown("/analyze", k)})
  PROVE  LinkInv'
<1> DEFINE h == "/analyze"
<1>1. Compares(b, k) = {Shown("/analyze", k)} /\ h \in {"/listings", "/analyze"} /\ h # "/listings"
  BY DEF Compares
<1>2. address' = AddressOf(h, q, b, k) /\ intended' = ScopeOf(h, Shown(h, q), Compares(b, k))
  BY <1>1
<1> HIDE DEF h
<1> QED
  BY <1>1, <1>2, Leads

\* What a page shows of filters, from their fields.
LEMMA ShownIs ==
  ASSUME NEW h, NEW v, NEW c, NEW f, NEW s, NEW p
  PROVE  Shown(h, FiltersOf(v, c, f, s, p)) = FiltersOf(Or(v, "current"), c, f, Sorted(h, s), Or(p, "1"))
<1> QED
  BY DEF Shown, FiltersOf

\* What a page renders from, from the fields of its address.
LEMMA HereIs ==
  ASSUME NEW h, NEW b, NEW k, NEW v, NEW c, NEW f, NEW s, NEW p,
         address = AddressOf(h, FiltersOf(v, c, f, s, p), b, k)
  PROVE  Here = AddressOf(h, FiltersOf(Or(v, "current"), c, f, IF h = "/listings" THEN Or(s, "firstSeenDesc") ELSE s, p),
                          b, k)
<1> DEFINE sorted == IF h = "/listings" THEN Or(s, "firstSeenDesc") ELSE s
<1>1. PageParams(AddressOf(h, FiltersOf(v, c, f, s, p), b, k)) =
      AddressOf(h, FiltersOf(Or(v, "current"), c, f, sorted, p), b, k)
  BY PageParamsAre
<1> HIDE DEF sorted
<1>2. Here = AddressOf(h, FiltersOf(Or(v, "current"), c, f, sorted, p), b, k)
  BY <1>1 DEF Here
<1> QED
  BY <1>2 DEF sorted

\* The links to a page of its own.
LEMMA PagesAre ==
  ASSUME NEW r
  PROVE  /\ Listings(r) = AddressOf("/listings", r, FALSE, NoParams)
         /\ Analyze(r) = AddressOf("/analyze", r, FALSE, NoParams)
<1>1. Listings(r) = AddressOf("/listings", r, FALSE, NoParams)
  BY Zenon DEF Listings, AddressOf
<1>2. Analyze(r) = AddressOf("/analyze", r, FALSE, NoParams)
  <2> DEFINE alone == FALSE
  <2>1. Analyze(r) = [AddressOf("/listings", r, alone, NoParams) EXCEPT !.path = "/analyze"]
    BY <1>1 DEF Analyze
  <2> HIDE DEF alone
  <2>2. Analyze(r) = AddressOf("/analyze", r, alone, NoParams)
    BY <2>1, WithPathIs DEF WithPath
  <2> QED
    BY <2>2 DEF alone
<1> QED
  BY <1>1, <1>2

\* No link of the listing page changes a filter it is not for.
LEMMA ListingLinksLead == ASSUME LinkInv, ListingLinks PROVE LinkInv'
<1> DEFINE h == "/listings"
<1>1. PICK q \in Params, k \in Params : address = AddressOf(h, q, FALSE, k)
  <2>1. address.path = h /\ address.comparing = FALSE /\ address \in Address
    BY DEF LinkInv, LinkTypeOK, ListingsAlone, ListingLinks, Address
  <2>2. address = AddressOf(address.path, address.primary, address.comparing, address.comparison)
    BY <2>1, Zenon DEF AddressOf, Address
  <2>3. address.primary \in Params /\ address.comparison \in Params
    BY <2>1, Zenon DEF Address
  <2> QED
    BY <2>1, <2>2, <2>3
<1>2. PICK v, c, f, s, p : Typed(v, c, f, s, p) /\ q = FiltersOf(v, c, f, s, p)
  BY ParamsAre
<1> DEFINE vv == Or(v, "current")
           ss == Or(s, "firstSeenDesc")
           pp == Or(p, "1")
<1>3. /\ vv \in {"all", "current"} /\ ss \in Sorts /\ pp \in Pages /\ vv # Absent /\ ss # Absent /\ pp # Absent
  BY <1>2, LinkConstants DEF Typed, Or, Absent, Sorts, LinkConstants
<1>4. Query = FiltersOf(vv, c, f, ss, pp) /\ Now = ScopeOf(h, FiltersOf(vv, c, f, ss, pp), {})
  <2>1. Shown(h, q) = FiltersOf(vv, c, f, ss, pp)
    BY <1>2, ShownIs DEF Sorted
  <2>2. Now = ScopeOf(h, Shown(h, q), Compares(FALSE, k))
    BY <1>1, ScopeIs DEF Now
  <2>3. Query = Shown(h, q)
    BY <2>2 DEF Query, ScopeOf
  <2> QED
    BY <2>1, <2>2, <2>3 DEF Compares
<1>5. Here = AddressOf(h, FiltersOf(vv, c, f, ss, p), FALSE, k)
  BY <1>1, <1>2, HereIs
<1>6. Compares(FALSE, NoParams) = {}
  BY DEF Compares
<1>7. NoParams \in Params
  BY DEF NoParams, Params, Absent, Sorts
<1> HIDE DEF vv, ss, pp
<1>8. Or(vv, "current") = vv /\ Or(ss, "lastSeenDesc") = ss /\ Or(Absent, "1") = "1"
  BY <1>3, Defaults
<1>9. \A to, w \in Sorts : Sorted(h, w) = w /\ Or(w, "lastSeenDesc") = w
  BY DEF Sorted, Or, Sorts, Absent
<1>10. \A n \in Pages : Or(Unless(n, "1"), "1") = n /\ Unless(n, "1") \in Pages \cup {Absent}
  BY LinkConstants DEF Or, Unless, Absent, LinkConstants
<1>11. ASSUME NEW n \in Pages, PageHref(n) PROVE LinkInv'
  <2> DEFINE r == FiltersOf(vv, c, f, ss, Unless(n, "1"))
  <2>1. WithPage(Query, n) = FiltersOf(vv, c, f, ss, n)
    BY <1>4, WithPageIs
  <2>2. FormatPageFilters(FiltersOf(vv, c, f, ss, n)) = r
    BY PageFiltersAre
  <2>3. address' = AddressOf(h, r, FALSE, NoParams)
    BY <1>11, <2>1, <2>2, PagesAre DEF PageHref, Follow, WithPage
  <2>4. intended' = ScopeOf(h, FiltersOf(vv, c, f, ss, n), {})
    BY <1>4, <1>11, <2>1, ToPageIs DEF PageHref, Follow, ToPage
  <2>5. r \in Params
    BY <1>2, <1>3, <1>10, ParamsAre DEF Typed
  <2>6. Shown(h, r) = FiltersOf(vv, c, f, ss, n)
    BY <1>3, <1>8, <1>9, <1>10, ShownIs
  <2> HIDE DEF r
  <2> QED
    BY <2>3, <2>4, <2>5, <2>6, LeadsAlone
<1>12. ASSUME ReturnToListings PROVE LinkInv'
  <2> DEFINE r == FiltersOf(vv, c, f, ss, Unless(pp, "1"))
  <2>1. address' = AddressOf(h, r, FALSE, NoParams)
    BY <1>4, <1>12, PageFiltersAre, PagesAre DEF ReturnToListings, Follow
  <2>2. intended' = ScopeOf(h, FiltersOf(vv, c, f, ss, pp), {})
    BY <1>4, <1>12 DEF ReturnToListings, Follow
  <2>3. r \in Params
    BY <1>2, <1>3, <1>10, ParamsAre DEF Typed
  <2>4. Shown(h, r) = FiltersOf(vv, c, f, ss, pp)
    BY <1>3, <1>8, <1>9, <1>10, ShownIs
  <2> HIDE DEF r
  <2> QED
    BY <2>1, <2>2, <2>3, <2>4, LeadsAlone
<1>13. ASSUME NEW sort \in Sorts, SortListings(sort) PROVE LinkInv'
  <2> DEFINE r == FiltersOf(vv, c, f, sort, Absent)
  <2>1. WithSort(FormatPageFilters(Query), sort, Absent) = r
    BY <1>4, PageFiltersAre, WithSortIs
  <2>2. address' = AddressOf(h, r, FALSE, NoParams)
    BY <1>13, <2>1, PagesAre DEF SortListings, Follow, WithSort
  <2>3. intended' = ScopeOf(h, FiltersOf(vv, c, f, sort, "1"), {})
    <3>1. intended' = ToSort(Now, sort, "1")
      BY <1>13 DEF SortListings, Follow, ToSort
    <3> QED
      BY <1>4, <3>1, ToSortIs, WithSortIs
  <2>4. r \in Params
    BY <1>2, <1>3, ParamsAre DEF Typed
  <2>5. Shown(h, r) = FiltersOf(vv, c, f, sort, "1")
    BY <1>8, <1>9, ShownIs
  <2> HIDE DEF r
  <2> QED
    BY <2>2, <2>3, <2>4, <2>5, LeadsAlone
<1>14. ASSUME AnalyticsHref PROVE LinkInv'
  <2> DEFINE r == FiltersOf(vv, c, f, Absent, Absent)
             to == "/analyze"
  <2>1. address' = AddressOf(to, r, FALSE, NoParams)
    BY <1>4, <1>14, AnalysisIs, PagesAre DEF AnalyticsHref, Follow
  <2>2. intended' = ScopeOf(to, FiltersOf(vv, c, f, "lastSeenDesc", "1"), {})
    <3>1. intended' = ToPath(Now, to, ToAnalysis(Query))
      BY <1>14 DEF AnalyticsHref, Follow, ToPath
    <3> QED
      BY <1>4, <3>1, AnalysisIs, ToPathIs
  <2>3. r \in Params
    BY <1>2, <1>3, ParamsAre DEF Typed
  <2>4. Sorted(to, Absent) = "lastSeenDesc"
    BY Defaults DEF Sorted
  <2>5. Shown(to, r) = FiltersOf(vv, c, f, "lastSeenDesc", "1")
    BY <1>8, <2>4, ShownIs
  <2> HIDE DEF r
  <2> QED
    BY <2>1, <2>2, <2>3, <2>5, LeadsAlone
<1>15. ASSUME NEW availability \in {"all", "current"}, NEW activity \in {Absent, "priceReduced"},
              SubmitListings(availability, activity)
       PROVE  LinkInv'
  <2> DEFINE r == FiltersOf(availability, activity, Absent, ss, Absent)
             form == WithFormAndPage(Here.primary, availability, activity, Absent, Absent)
  <2>1. Here.primary = FiltersOf(vv, c, f, ss, p)
    BY <1>5 DEF AddressOf
  <2>2. form = FiltersOf(availability, activity, Absent, ss, Absent)
    BY <2>1, WithFormAndPageIs
  <2>3. availability # Absent /\ Or(availability, "all") = availability /\ Or(availability, "current") = availability
    BY Defaults DEF Absent
  <2>4. Parse(form) = FiltersOf(availability, activity, Absent, ss, "1")
    BY <1>8, <2>2, <2>3, ParseIs
  <2>5. Unless("1", "1") = Absent
    BY DEF Unless
  <2>6. FormatPageFilters(Parse(form)) = r
    BY <2>4, <2>5, PageFiltersAre
  <2>7. address' = AddressOf(h, r, FALSE, NoParams)
    BY <1>15, <2>6, PagesAre DEF SubmitListings, Follow, WithFormAndPage
  <2>8. intended' = ScopeOf(h, FiltersOf(availability, activity, Absent, ss, "1"), {})
    <3>1. intended' = ToForm(Now, availability, activity, Absent, "1")
      BY <1>15 DEF SubmitListings, Follow, ToForm
    <3> QED
      BY <1>4, <3>1, ToFormIs, WithFormAndPageIs
  <2>9. r \in Params
    BY <1>3, ParamsAre DEF Typed
  <2>10. Shown(h, r) = FiltersOf(availability, activity, Absent, ss, "1")
    BY <1>3, <1>8, <1>9, <2>3, ShownIs
  <2> HIDE DEF r
  <2> QED
    BY <2>7, <2>8, <2>9, <2>10, LeadsAlone
<1> QED
  BY <1>11, <1>12, <1>13, <1>14, <1>15 DEF ListingLinks

\* A form sends its group as an analysis query, and means that query.
LEMMA EditedIs ==
  ASSUME NEW v, NEW c, NEW f, NEW s, NEW p, NEW w \in {"all", "current"}, NEW x, NEW y
  PROVE  /\ Edited(FiltersOf(v, c, f, s, p), w, x, y) = FiltersOf(w, x, y, Absent, Absent)
         /\ Filtered(FiltersOf(v, c, f, s, p), w, x, y) = FiltersOf(w, x, y, "lastSeenDesc", "1")
<1> DEFINE q == FiltersOf(v, c, f, s, p)
<1>1. Or(w, "all") = w
  BY DEF Or, Absent
<1>2. WithForm(q, w, x, y) = FiltersOf(w, x, y, s, p)
  BY WithFormIs
<1>3. Parse(WithForm(q, w, x, y)) = FiltersOf(w, x, y, Or(s, "lastSeenDesc"), Or(p, "1"))
  BY <1>1, <1>2, ParseIs
<1>4. FormatAnalysis(Parse(WithForm(q, w, x, y))) = FiltersOf(w, x, y, Absent, Absent)
  BY <1>3, AnalysisIs
<1>5. WithForm(ToAnalysis(q), w, x, y) = FiltersOf(w, x, y, "lastSeenDesc", "1")
  BY AnalysisIs, WithFormIs
<1> HIDE DEF q
<1>6. Edited(q, w, x, y) = FormatAnalysis(Parse(WithForm(q, w, x, y)))
  BY DEF Edited, WithForm
<1>7. Filtered(q, w, x, y) = WithForm(ToAnalysis(q), w, x, y)
  BY DEF Filtered, WithForm
<1> QED
  BY <1>4, <1>5, <1>6, <1>7 DEF q

\* No link or form of the analysis page changes a filter it is not for.
LEMMA ResearchLinksLead == ASSUME LinkInv, ResearchLinks PROVE LinkInv'
<1> DEFINE h == "/analyze"
<1>1. PICK q \in Params, b \in BOOLEAN, k \in Params : address = AddressOf(h, q, b, k) /\ b = address.comparing
  <2>1. address.path = h /\ address \in Address
    BY DEF LinkInv, LinkTypeOK, ResearchLinks
  <2>2. address = AddressOf(address.path, address.primary, address.comparing, address.comparison)
    BY <2>1, Zenon DEF AddressOf, Address
  <2>3. address.primary \in Params /\ address.comparison \in Params /\ address.comparing \in BOOLEAN
    BY <2>1, Zenon DEF Address
  <2> QED
    BY <2>1, <2>2, <2>3
<1>2. PICK v, c, f, s, p : Typed(v, c, f, s, p) /\ q = FiltersOf(v, c, f, s, p)
  BY ParamsAre
<1>3. PICK v2, c2, f2, s2, p2 : Typed(v2, c2, f2, s2, p2) /\ k = FiltersOf(v2, c2, f2, s2, p2)
  BY ParamsAre
<1> DEFINE vv == Or(v, "current")
           ss == Or(s, "lastSeenDesc")
           pp == Or(p, "1")
           vv2 == Or(v2, "current")
           ss2 == Or(s2, "lastSeenDesc")
           pp2 == Or(p2, "1")
           here == FiltersOf(vv, c, f, s, p)
<1>4. /\ vv \in {"all", "current"} /\ ss \in Sorts /\ pp \in Pages
      /\ vv2 \in {"all", "current"} /\ ss2 \in Sorts /\ pp2 \in Pages
  BY <1>2, <1>3, LinkConstants DEF Typed, Or, Absent, Sorts, LinkConstants
<1>5. /\ Query = FiltersOf(vv, c, f, ss, pp) /\ Now = ScopeOf(h, FiltersOf(vv, c, f, ss, pp), Compares(b, k))
  <2>1. Shown(h, q) = FiltersOf(vv, c, f, ss, pp)
    BY <1>2, ShownIs DEF Sorted
  <2>2. Now = ScopeOf(h, Shown(h, q), Compares(b, k))
    BY <1>1, ScopeIs DEF Now
  <2>3. Query = Shown(h, q)
    BY <2>2 DEF Query, ScopeOf
  <2> QED
    BY <2>1, <2>2, <2>3
<1>6. Here = AddressOf(h, here, b, k) /\ Here.primary = here
  <2>1. Here = AddressOf(h, here, b, k)
    BY <1>1, <1>2, HereIs
  <2> HIDE DEF here
  <2> QED
    BY <2>1 DEF AddressOf
<1>7. Compared = FiltersOf(vv2, c2, f2, ss2, pp2)
  <2>1. address.comparison = k
    BY <1>1 DEF AddressOf
  <2> QED
    BY <1>3, <2>1, ResearchIs DEF Compared
<1>8. /\ Or(vv, "current") = vv /\ Or(vv2, "current") = vv2 /\ Or(ss, "lastSeenDesc") = ss
      /\ Or(ss2, "lastSeenDesc") = ss2 /\ Or(Absent, "1") = "1" /\ Or(Absent, "lastSeenDesc") = "lastSeenDesc"
  BY <1>4 DEF Or, Absent, Sorts
<1>9. \A w : Sorted(h, w) = Or(w, "lastSeenDesc")
  BY DEF Sorted
<1>10. /\ \A n \in Pages : Or(Unless(n, "1"), "1") = n /\ Or(n, "1") = n /\ Unless(n, "1") \in Pages \cup {Absent}
       /\ \A w \in Sorts : Or(w, "lastSeenDesc") = w
       /\ \A w \in {"all", "current"} : Or(w, "current") = w
  BY LinkConstants DEF Or, Unless, Absent, LinkConstants, Sorts
<1>11. Shown(h, k) = FiltersOf(vv2, c2, f2, ss2, pp2)
  BY <1>3, <1>9, ShownIs
<1>12. b => Compares(b, k) = {Shown(h, k)}
  BY DEF Compares
<1>13. Typed(vv, c, f, s, p)
  BY <1>2, <1>4 DEF Typed
<1> HIDE DEF vv, ss, pp, vv2, ss2, pp2
<1>14. here \in Params /\ Shown(h, here) = FiltersOf(vv, c, f, ss, pp)
  BY <1>8, <1>9, <1>13, ParamsAre, ShownIs DEF ss, pp
<1>15. ASSUME NEW n \in Pages, ResearchPage(n) PROVE LinkInv'
  <2> DEFINE r == FiltersOf(vv, c, f, s, n)
  <2>1. address' = AddressOf(h, r, b, k)
    <3>1. address' = AtPage(Here, n)
      BY <1>15 DEF ResearchPage, Follow, AtPage
    <3> QED
      BY <1>6, <3>1, AtPageIs, WithPageIs
  <2>2. intended' = ScopeOf(h, FiltersOf(vv, c, f, ss, n), Compares(b, k))
    <3>1. intended' = ToPage(Now, n)
      BY <1>15 DEF ResearchPage, Follow, ToPage
    <3> QED
      BY <1>5, <3>1, ToPageIs, WithPageIs
  <2>3. r \in Params
    BY <1>13, ParamsAre DEF Typed
  <2>4. Shown(h, r) = FiltersOf(vv, c, f, ss, n)
    BY <1>8, <1>9, <1>10, ShownIs DEF ss
  <2> HIDE DEF r
  <2> QED
    BY <2>1, <2>2, <2>3, <2>4, Leads
<1>16. ASSUME NEW n \in Pages, ComparisonPage(n) PROVE LinkInv'
  <2> DEFINE r == FiltersOf(v2, c2, f2, s2, n)
  <2>1. address' = AddressOf(h, here, b, r)
    <3>1. address' = AtOtherPage(Here, n)
      BY <1>16 DEF ComparisonPage, Follow, AtOtherPage
    <3> HIDE DEF here
    <3> QED
      BY <1>3, <1>6, <3>1, AtOtherPageIs, WithPageIs
  <2>2. intended' = ScopeOf(h, FiltersOf(vv, c, f, ss, pp), {FiltersOf(vv2, c2, f2, ss2, n)})
    <3>1. intended' = ToComparison(Now, {WithPage(Compared, n)})
      BY <1>16 DEF ComparisonPage, Follow, ToComparison, WithPage
    <3> QED
      BY <1>5, <1>7, <3>1, ToComparisonIs, WithPageIs
  <2>3. r \in Params
    BY <1>3, ParamsAre DEF Typed
  <2>4. Shown(h, r) = FiltersOf(vv2, c2, f2, ss2, n)
    BY <1>8, <1>9, <1>10, ShownIs DEF ss2, vv2
  <2>5. b
    BY <1>1, <1>16 DEF ComparisonPage
  <2> HIDE DEF r, here
  <2> QED
    BY <1>14, <2>1, <2>2, <2>3, <2>4, <2>5, LeadsCompared
<1>17. ASSUME ReturnToResearch PROVE LinkInv'
  <2>1. address' = AddressOf(h, here, b, k) /\ intended' = ScopeOf(h, FiltersOf(vv, c, f, ss, pp), Compares(b, k))
    BY <1>5, <1>6, <1>17 DEF ReturnToResearch, Follow
  <2> HIDE DEF here
  <2> QED
    BY <1>14, <2>1, Leads
<1>18. ASSUME NEW sort \in Sorts, SortResearch(sort) PROVE LinkInv'
  <2> DEFINE r == FiltersOf(vv, c, f, sort, Absent)
  <2>1. address' = AddressOf(h, r, b, k)
    <3>1. address' = AtSort(Here, sort, Absent)
      BY <1>18 DEF SortResearch, Follow, AtSort
    <3> QED
      BY <1>6, <3>1, AtSortIs, WithSortIs
  <2>2. intended' = ScopeOf(h, FiltersOf(vv, c, f, sort, "1"), Compares(b, k))
    <3>1. intended' = ToSort(Now, sort, "1")
      BY <1>18 DEF SortResearch, Follow, ToSort
    <3> QED
      BY <1>5, <3>1, ToSortIs, WithSortIs
  <2>3. r \in Params
    BY <1>13, ParamsAre DEF Typed
  <2>4. Shown(h, r) = FiltersOf(vv, c, f, sort, "1")
    BY <1>8, <1>9, <1>10, ShownIs
  <2> HIDE DEF r
  <2> QED
    BY <2>1, <2>2, <2>3, <2>4, Leads
<1>19. ASSUME NEW sort \in Sorts, SortComparison(sort) PROVE LinkInv'
  <2> DEFINE r == FiltersOf(v2, c2, f2, sort, Absent)
  <2>1. address' = AddressOf(h, here, b, r)
    <3>1. address' = AtOtherSort(Here, sort, Absent)
      BY <1>19 DEF SortComparison, Follow, AtOtherSort
    <3> HIDE DEF here
    <3> QED
      BY <1>3, <1>6, <3>1, AtOtherSortIs, WithSortIs
  <2>2. intended' = ScopeOf(h, FiltersOf(vv, c, f, ss, pp), {FiltersOf(vv2, c2, f2, sort, "1")})
    <3>1. intended' = ToComparison(Now, {WithSort(Compared, sort, "1")})
      BY <1>19 DEF SortComparison, Follow, ToComparison, WithSort
    <3> QED
      BY <1>5, <1>7, <3>1, ToComparisonIs, WithSortIs
  <2>3. r \in Params
    BY <1>3, ParamsAre DEF Typed
  <2>4. Shown(h, r) = FiltersOf(vv2, c2, f2, sort, "1")
    BY <1>8, <1>9, <1>10, ShownIs DEF vv2
  <2>5. b
    BY <1>1, <1>19 DEF SortComparison
  <2> HIDE DEF r, here
  <2> QED
    BY <1>14, <2>1, <2>2, <2>3, <2>4, <2>5, LeadsCompared
<1>20. ASSUME OpenBucket("2026-01-01") PROVE LinkInv'
  <2> DEFINE y == "2026-01-01"
             r == FiltersOf(vv, Absent, y, s, Absent)
  <2>1. address' = AddressOf(h, r, b, k)
    <3>1. address' = AtFrom(Here, y, Absent, Absent)
      BY <1>20 DEF OpenBucket, Follow, AtFrom
    <3> QED
      BY <1>6, <3>1, AtFromIs, WithFromIs
  <2>2. intended' = ScopeOf(h, FiltersOf(vv, Absent, y, ss, "1"), Compares(b, k))
    <3>1. intended' = ToFrom(Now, y, Absent, "1")
      BY <1>20 DEF OpenBucket, Follow, ToFrom
    <3> QED
      BY <1>5, <3>1, ToFromIs, WithFromIs
  <2>3. r \in Params
    BY <1>13, ParamsAre DEF Typed
  <2>4. Shown(h, r) = FiltersOf(vv, Absent, y, ss, "1")
    BY <1>8, <1>9, ShownIs DEF ss
  <2> HIDE DEF r
  <2> QED
    BY <2>1, <2>2, <2>3, <2>4, Leads
<1>21. ASSUME CloneComparison PROVE LinkInv'
  <2> DEFINE r == FiltersOf(vv, c, f, s, Absent)
             g == FiltersOf(vv, c, f, ss, Absent)
             both == TRUE
  <2>1. WithPage(FormatPageFilters(Query), Absent) = g
    BY <1>5, PageFiltersAre, WithPageIs
  <2>2. WithPage(Query, "1") = FiltersOf(vv, c, f, ss, "1")
    BY <1>5, WithPageIs
  <2>3. address' = AddressOf(h, r, both, g)
    <3>1. address' = Cloned(Here, Absent, both, WithPage(FormatPageFilters(Query), Absent))
      BY <1>21 DEF CloneComparison, Follow, Cloned, WithPage
    <3> HIDE DEF g, both
    <3> QED
      BY <1>6, <2>1, <3>1, ClonedIs, WithPageIs
  <2>4. intended' = ScopeOf(h, FiltersOf(vv, c, f, ss, "1"), {FiltersOf(vv, c, f, ss, "1")})
    <3>1. intended' = ToCloned(Now, "1", {WithPage(Query, "1")})
      BY <1>21 DEF CloneComparison, Follow, ToCloned, WithPage
    <3> QED
      BY <1>5, <2>2, <3>1, ToClonedIs, WithPageIs
  <2>5. r \in Params /\ g \in Params
    BY <1>4, <1>13, ParamsAre DEF Typed
  <2>6. Shown(h, r) = FiltersOf(vv, c, f, ss, "1") /\ Shown(h, g) = FiltersOf(vv, c, f, ss, "1")
    <3>1. Shown(h, r) = FiltersOf(vv, c, f, ss, "1")
      BY <1>8, <1>9, ShownIs DEF ss
    <3>2. Shown(h, g) = FiltersOf(vv, c, f, ss, "1")
      BY <1>8, <1>9, ShownIs
    <3> QED
      BY <3>1, <3>2
  <2>7. both \in BOOLEAN /\ both
    OBVIOUS
  <2> HIDE DEF r, g, both
  <2> QED
    BY <2>3, <2>4, <2>5, <2>6, <2>7, LeadsCompared
<1>22. ASSUME SwapGroups PROVE LinkInv'
  <2> DEFINE r == FiltersOf(vv2, c2, f2, ss2, Unless(pp2, "1"))
             g == FiltersOf(vv, c, f, ss, Unless(pp, "1"))
  <2>1. FormatPageFilters(Compared) = r /\ FormatPageFilters(Query) = g
    BY <1>5, <1>7, PageFiltersAre
  <2>2. address' = AddressOf(h, r, b, g)
    <3>1. address' = WithGroups(Here, FormatPageFilters(Compared), FormatPageFilters(Query))
      BY <1>22 DEF SwapGroups, Follow, WithGroups
    <3> HIDE DEF r, g
    <3> QED
      BY <1>6, <2>1, <3>1, WithGroupsIs
  <2>3. intended' = ScopeOf(h, FiltersOf(vv2, c2, f2, ss2, pp2), {FiltersOf(vv, c, f, ss, pp)})
    <3>1. intended' = ToGroups(Now, Compared, {Query})
      BY <1>22 DEF SwapGroups, Follow, ToGroups
    <3> QED
      BY <1>5, <1>7, <3>1, ToGroupsIs
  <2>4. r \in Params /\ g \in Params
    <3>1. Typed(vv2, c2, f2, ss2, Unless(pp2, "1"))
      BY <1>3, <1>4, <1>10 DEF Typed
    <3>2. Typed(vv, c, f, ss, Unless(pp, "1"))
      BY <1>2, <1>4, <1>10 DEF Typed
    <3> QED
      BY <3>1, <3>2, ParamsAre
  <2>5. Shown(h, r) = FiltersOf(vv2, c2, f2, ss2, pp2)
    BY <1>4, <1>8, <1>9, <1>10, ShownIs
  <2>6. Shown(h, g) = FiltersOf(vv, c, f, ss, pp)
    BY <1>4, <1>8, <1>9, <1>10, ShownIs
  <2>7. b
    BY <1>1, <1>22 DEF SwapGroups
  <2> HIDE DEF r, g
  <2> QED
    BY <2>2, <2>3, <2>4, <2>5, <2>6, <2>7, LeadsCompared
<1>23. ASSUME RemoveComparison PROVE LinkInv'
  <2> DEFINE r == FiltersOf(vv, c, f, s, pp)
  <2>1. Query.page = pp
    BY <1>5 DEF FiltersOf
  <2>2. address' = AddressOf(h, r, FALSE, NoParams)
    <3>1. address' = Analyze(WithPage(Here.primary, Query.page))
      BY <1>23 DEF RemoveComparison, Follow, WithPage
    <3>2. WithPage(Here.primary, Query.page) = r
      BY <1>6, <2>1, WithPageIs
    <3> HIDE DEF r
    <3> QED
      BY <3>1, <3>2, PagesAre
  <2>3. intended' = ScopeOf(h, FiltersOf(vv, c, f, ss, pp), {})
    <3>1. intended' = ToComparison(Now, {})
      BY <1>23 DEF RemoveComparison, Follow, ToComparison
    <3> QED
      BY <1>5, <3>1, ToComparisonIs
  <2>4. r \in Params
    BY <1>4, <1>13, ParamsAre DEF Typed
  <2>5. Shown(h, r) = FiltersOf(vv, c, f, ss, pp)
    BY <1>4, <1>8, <1>9, <1>10, ShownIs DEF ss
  <2> HIDE DEF r
  <2> QED
    BY <2>2, <2>3, <2>4, <2>5, LeadsAlone
<1>24. ASSUME ExploreComparison PROVE LinkInv'
  <2> DEFINE r == FiltersOf(vv2, c2, f2, ss2, Absent)
  <2>1. WithPage(FormatPageFilters(Compared), Absent) = r
    BY <1>7, PageFiltersAre, WithPageIs
  <2>2. address' = AddressOf(h, r, FALSE, NoParams)
    <3>1. address' = Analyze(WithPage(FormatPageFilters(Compared), Absent))
      BY <1>24 DEF ExploreComparison, Follow, WithPage
    <3> HIDE DEF r
    <3> QED
      BY <2>1, <3>1, PagesAre
  <2>3. intended' = ScopeOf(h, FiltersOf(vv2, c2, f2, ss2, "1"), {})
    <3>1. intended' = ToGroups(Now, WithPage(Compared, "1"), {})
      BY <1>24 DEF ExploreComparison, Follow, ToGroups, WithPage
    <3> QED
      BY <1>5, <1>7, <3>1, ToGroupsIs, WithPageIs
  <2>4. r \in Params
    <3>1. Typed(vv2, c2, f2, ss2, Absent)
      BY <1>3, <1>4 DEF Typed
    <3> QED
      BY <3>1, ParamsAre
  <2>5. Shown(h, r) = FiltersOf(vv2, c2, f2, ss2, "1")
    BY <1>8, <1>9, ShownIs
  <2> HIDE DEF r
  <2> QED
    BY <2>2, <2>3, <2>4, <2>5, LeadsAlone
<1>25. ASSUME NEW availability \in {"all", "current"}, NEW activity \in {Absent, "priceReduced"},
              NEW from \in {Absent, "2026-01-01"}, activity = Absent \/ from = Absent,
              SubmitPrimary(availability, activity, from)
       PROVE  LinkInv'
  <2> DEFINE r == FiltersOf(availability, activity, from, Absent, Absent)
  <2>1. address' = AddressOf(h, r, b, k)
    <3>1. address' = WithPrimary(Here, Edited(Here.primary, availability, activity, from))
      BY <1>25 DEF SubmitPrimary, Follow, WithPrimary
    <3>2. Edited(Here.primary, availability, activity, from) = r
      BY <1>6, EditedIs
    <3> HIDE DEF r
    <3> QED
      BY <1>6, <3>1, <3>2, WithPrimaryIs
  <2>2. intended' = ScopeOf(h, FiltersOf(availability, activity, from, "lastSeenDesc", "1"), Compares(b, k))
    <3>1. intended' = ToPrimary(Now, Filtered(Query, availability, activity, from))
      BY <1>25 DEF SubmitPrimary, Follow, ToPrimary
    <3>2. Filtered(Query, availability, activity, from) = FiltersOf(availability, activity, from, "lastSeenDesc", "1")
      BY <1>5, EditedIs
    <3> QED
      BY <1>5, <3>1, <3>2, ToPrimaryIs
  <2>3. r \in Params
    <3>1. Typed(availability, activity, from, Absent, Absent)
      BY <1>25 DEF Typed
    <3> QED
      BY <3>1, ParamsAre
  <2>4. Shown(h, r) = FiltersOf(availability, activity, from, "lastSeenDesc", "1")
    BY <1>8, <1>9, <1>10, ShownIs
  <2> HIDE DEF r
  <2> QED
    BY <2>1, <2>2, <2>3, <2>4, Leads
<1>26. ASSUME NEW availability \in {"all", "current"}, NEW activity \in {Absent, "priceReduced"},
              NEW from \in {Absent, "2026-01-01"}, activity = Absent \/ from = Absent,
              SubmitComparison(availability, activity, from)
       PROVE  LinkInv'
  <2> DEFINE r == FiltersOf(availability, activity, from, Absent, Absent)
  <2>1. address' = AddressOf(h, here, b, r)
    <3>1. address' = WithComparison(Here, Edited(FormatPageFilters(Compared), availability, activity, from))
      BY <1>26 DEF SubmitComparison, Follow, WithComparison
    <3>2. Edited(FormatPageFilters(Compared), availability, activity, from) = r
      BY <1>7, PageFiltersAre, EditedIs
    <3> HIDE DEF r, here
    <3> QED
      BY <1>6, <3>1, <3>2, WithComparisonIs
  <2>2. intended' = ScopeOf(h, FiltersOf(vv, c, f, ss, pp),
                            {FiltersOf(availability, activity, from, "lastSeenDesc", "1")})
    <3>1. intended' = ToComparison(Now, {Filtered(Compared, availability, activity, from)})
      BY <1>26 DEF SubmitComparison, Follow, ToComparison
    <3>2. Filtered(Compared, availability, activity, from) = FiltersOf(availability, activity, from, "lastSeenDesc", "1")
      BY <1>7, EditedIs
    <3> QED
      BY <1>5, <3>1, <3>2, ToComparisonIs
  <2>3. r \in Params
    <3>1. Typed(availability, activity, from, Absent, Absent)
      BY <1>26 DEF Typed
    <3> QED
      BY <3>1, ParamsAre
  <2>4. Shown(h, r) = FiltersOf(availability, activity, from, "lastSeenDesc", "1")
    BY <1>8, <1>9, <1>10, ShownIs
  <2>5. b
    BY <1>1, <1>26 DEF SubmitComparison
  <2> HIDE DEF r, here
  <2> QED
    BY <1>14, <2>1, <2>2, <2>3, <2>4, <2>5, LeadsCompared
<1> QED
  BY <1>15, <1>16, <1>17, <1>18, <1>19, <1>20, <1>21, <1>22, <1>23, <1>24, <1>25, <1>26 DEF ResearchLinks

\* A reader starts on an address that shows its own scope and compares nothing.
LEMMA LinkStart == LinkInit => LinkInv
<1> SUFFICES ASSUME LinkInit PROVE LinkInv
  OBVIOUS
<1>1. NoParams \in Params
  BY DEF NoParams, Params, Absent, Sorts
<1>2. address \in Address
  BY <1>1, Zenon DEF LinkInit, Address
<1>3. ~address.comparing
  BY Zenon DEF LinkInit
<1> QED
  BY <1>2, <1>3 DEF LinkInit, LinkInv, LinkTypeOK, ListingsAlone, LinksKeepScope

\* Every link and every form keeps the invariant.
LEMMA LinkStep == LinkInv /\ [LinkNext]_linkVars => LinkInv'
<1> SUFFICES ASSUME LinkInv, [LinkNext]_linkVars PROVE LinkInv'
  OBVIOUS
<1>1. CASE ListingLinks
  BY <1>1, ListingLinksLead
<1>2. CASE ResearchLinks
  BY <1>2, ResearchLinksLead
<1>3. CASE UNCHANGED linkVars
  BY <1>3 DEF linkVars, LinkInv, LinkTypeOK, ListingsAlone, LinksKeepScope, Scope, PageParams
<1> QED
  BY <1>1, <1>2, <1>3 DEF LinkNext

\* The address is always one the pages accept.
THEOREM LinkTypeCorrect == LinkSpec => []LinkTypeOK
<1>1. LinkInv => LinkTypeOK
  BY DEF LinkInv
<1> QED
  BY <1>1, LinkStart, LinkStep, PTL DEF LinkSpec

\* After any sequence of links and forms the page shows the scope the last
\* of them was to lead to, in both groups of an analysis.
THEOREM LinksAlwaysKeepScope == LinkSpec => []LinksKeepScope
<1>1. LinkInv => LinksKeepScope
  BY DEF LinkInv
<1> QED
  BY <1>1, LinkStart, LinkStep, PTL DEF LinkSpec

-----------------------------------------------------------------------------
(* MarketSeries.                                                           *)

\* Snapshots and runs are appended with times within the bounds.
LEMMA SeriesHolds == SeriesSpec => []SeriesTypeOK
<1>1. SeriesInit => SeriesTypeOK
  BY DEF SeriesInit, SeriesTypeOK
<1>2. SeriesTypeOK /\ [SeriesNext]_seriesVars => SeriesTypeOK'
  <2> SUFFICES ASSUME SeriesTypeOK, [SeriesNext]_seriesVars PROVE SeriesTypeOK'
    OBVIOUS
  <2>1. ASSUME NEW t \in 1 .. SeriesTimes, NEW found \in BOOLEAN, Observe(t, found) PROVE SeriesTypeOK'
    <3>1. [at |-> t, found |-> found] \in [at : 1 .. SeriesTimes, found : BOOLEAN]
      BY Zenon
    <3> DEFINE row == [at |-> t, found |-> found]
               Rows == [at : 1 .. SeriesTimes, found : BOOLEAN]
    <3> HIDE DEF row, Rows
    <3>2. series \in Seq(Rows) => Append(series, row) \in Seq(Rows)
      BY <3>1 DEF row, Rows
    <3> QED
      BY <2>1, <3>2 DEF Observe, SeriesTypeOK, row, Rows
  <2>2. ASSUME NEW t \in 1 .. SeriesTimes, NEW seen \in 0 .. SeriesTimes, NEW complete \in BOOLEAN,
               Finish(t, complete, seen)
        PROVE  SeriesTypeOK'
    <3> DEFINE row == [finished |-> t, complete |-> complete, seen |-> seen]
               Rows == [finished : 1 .. SeriesTimes, complete : BOOLEAN, seen : 0 .. SeriesTimes]
    <3>1. row \in Rows
      BY Zenon
    <3> HIDE DEF row, Rows
    <3>2. runs \in Seq(Rows) => Append(runs, row) \in Seq(Rows)
      BY <3>1
    <3> QED
      BY <2>2, <3>2 DEF Finish, SeriesTypeOK, row, Rows
  <2>3. CASE UNCHANGED seriesVars
    BY <2>3 DEF seriesVars, SeriesTypeOK
  <2> QED
    BY <2>1, <2>2, <2>3 DEF SeriesNext
<1> QED
  BY <1>1, <1>2, PTL DEF SeriesSpec

\* A snapshot is valid until the first of those that follow it, whose time
\* its period ends: a later time is past one of them.
LEMMA PeriodEnds ==
  ASSUME SeriesTypeOK, NEW n \in DOMAIN series, NEW t \in 1 .. SeriesTimes
  PROVE  t < NextAt(n) <=> \A m \in DOMAIN series : Follows(m, n) => series[m].at > t
<1> DEFINE after == {m \in DOMAIN series : Follows(m, n)}
           First(c) == \A k \in after : k = c \/ Follows(k, c)
<1>0. SeriesTimes \in Nat
  BY SeriesConstants
<1>1. \A m \in DOMAIN series : m \in Nat /\ series[m].at \in 1 .. SeriesTimes /\ series[m].at \in Nat
  <2> DEFINE Rows == [at : 1 .. SeriesTimes, found : BOOLEAN]
  <2>1. series \in Seq(Rows)
    BY DEF SeriesTypeOK
  <2>2. \A row \in Rows : row.at \in 1 .. SeriesTimes
    BY Zenon
  <2> HIDE DEF Rows
  <2>3. ASSUME NEW m \in DOMAIN series PROVE series[m] \in Rows /\ m \in Nat
    BY <2>1
  <2> QED
    BY <1>0, <2>2, <2>3
<1>2. CASE after = {}
  <2>1. NextAt(n) = SeriesTimes + 1
    BY <1>2 DEF NextAt
  <2> QED
    BY <1>0, <1>2, <2>1
<1>3. CASE after # {}
  <2> DEFINE Times == {series[m].at : m \in after}
  <2>1. Times \in SUBSET Nat /\ Times # {}
    BY <1>1, <1>3
  <2>2. PICK least \in Times : \A x \in Times : least <= x
    BY <2>1, LeastNumber
  <2> DEFINE Earliest == {m \in after : series[m].at = least}
  <2>3. Earliest \in SUBSET Nat /\ Earliest # {}
    BY <1>1, <2>2
  <2>4. PICK c \in Earliest : \A k \in Earliest : c <= k
    BY <2>3, LeastNumber
  <2>5. c \in after /\ First(c)
    <3>1. ASSUME NEW k \in after PROVE k = c \/ Follows(k, c)
      <4>1. series[c].at <= series[k].at
        BY <2>2, <2>4
      <4>2. series[k].at = series[c].at => c <= k
        BY <2>4
      <4>3. k \in Nat /\ c \in Nat /\ series[k].at \in Nat /\ series[c].at \in Nat
        BY <1>1, <2>4
      <4> QED
        BY <4>1, <4>2, <4>3 DEF Follows
    <3> QED
      BY <2>4, <3>1
  <2> DEFINE chosen == CHOOSE m \in after : First(m)
  <2>6. chosen \in after /\ First(chosen)
    BY <2>5
  <2>7. NextAt(n) = series[chosen].at
    BY <1>3 DEF NextAt
  <2>8. ASSUME NEW k \in after PROVE series[chosen].at <= series[k].at
    <3>1. k = chosen \/ Follows(k, chosen)
      BY <2>6
    <3>2. series[k].at \in Nat /\ series[chosen].at \in Nat
      BY <1>1, <2>6
    <3> HIDE DEF chosen, after
    <3> QED
      BY <3>1, <3>2 DEF Follows
  <2>9. \A k \in after : series[k].at \in Nat
    BY <1>1
  <2> HIDE DEF chosen
  <2>10. t < series[chosen].at <=> \A k \in after : series[k].at > t
    BY <2>6, <2>8, <2>9
  <2> QED
    BY <2>7, <2>10
<1> QED
  BY <1>2, <1>3

(* The series is the same whether it looks each sighting up or joins the   *)
(* periods of all snapshots, for histories of any length.                  *)
THEOREM StrategiesAlwaysAgree == SeriesSpec => []StrategiesAgree
<1>1. SeriesTypeOK => StrategiesAgree
  <2> SUFFICES ASSUME SeriesTypeOK, NEW S \in Selections PROVE SeriesRows(S, LastBy) = SeriesRows(S, PeriodOf)
    BY DEF StrategiesAgree
  <2>1. ASSUME NEW x \in Sightings(S) PROVE x.at \in 1 .. SeriesTimes
    <3>1. PICK r \in S : runs[r].seen # 0 /\ x.at = runs[r].seen
      BY DEF Sightings
    <3>2. r \in DOMAIN runs
      BY DEF Selections, SelectedRuns, Complete
    <3> DEFINE Rows == [finished : 1 .. SeriesTimes, complete : BOOLEAN, seen : 0 .. SeriesTimes]
    <3>3. runs \in Seq(Rows)
      BY DEF SeriesTypeOK
    <3>4. \A row \in Rows : row.seen \in 0 .. SeriesTimes
      BY Zenon
    <3> HIDE DEF Rows
    <3>5. runs[r] \in Rows
      BY <3>2, <3>3
    <3> QED
      BY <3>1, <3>4, <3>5, SeriesConstants
  <2>2. ASSUME NEW t \in 1 .. SeriesTimes, NEW n \in DOMAIN series, series[n].found
        PROVE  n \in LastBy[t] <=> n \in PeriodOf[t]
    BY <2>2, PeriodEnds DEF LastBy, PeriodOf
  <2>3. ASSUME NEW row \in Sightings(S) \X DOMAIN series
        PROVE  (row[2] \in LastBy[row[1].at] /\ series[row[2]].found)
               <=> (row[2] \in PeriodOf[row[1].at] /\ series[row[2]].found)
    <3>1. row[1].at \in 1 .. SeriesTimes /\ row[2] \in DOMAIN series
      BY <2>1, <2>3
    <3> QED
      BY <2>2, <3>1
  <2> QED
    BY <2>3 DEF SeriesRows
<1> QED
  BY <1>1, SeriesHolds, PTL

-----------------------------------------------------------------------------
(* MarketQueries.                                                          *)

\* Every filter has all the fields.
IsFilter(q) == q = [f \in FilterFields |-> q[f]]

\* The filter that asks for everything.
LEMMA EverythingIs ==
  /\ IsFilter(Everything) /\ Everything.availability = "all" /\ Everything.activity = Null
  /\ \A f \in LabelFields \cup CategoryFields : Everything[f] = Null
  /\ \A f \in NumberFields : Everything[f] = Unset
<1>1. \A f \in FilterFields : Everything[f] = CASE f \in NumberFields \cup {"from", "to"} -> Unset
                                                 [] f = "availability" -> "all"
                                                 [] f = "interval" -> "week"
                                                 [] OTHER -> Null
  BY DEF Everything
<1>2. \A f \in NumberFields : Everything[f] = Unset
  BY <1>1 DEF FilterFields, SnapshotFields, NumberFields
<1>3. \A f \in LabelFields \cup CategoryFields \cup {"activity"} : Everything[f] = Null
  BY <1>1 DEF FilterFields, SnapshotFields, LabelFields, CategoryFields, NumberFields
<1>4. Everything["availability"] = "all"
  BY <1>1 DEF FilterFields, SnapshotFields, NumberFields
<1>5. IsFilter(Everything)
  BY DEF Everything, IsFilter
<1> QED
  BY <1>2, <1>3, <1>4, <1>5

\* A filter with another value for one field.
LEMMA WithField ==
  ASSUME NEW q, IsFilter(q), NEW g \in FilterFields, NEW v
  PROVE  /\ IsFilter([q EXCEPT ![g] = v]) /\ [q EXCEPT ![g] = v][g] = v
         /\ \A f \in FilterFields : f # g => [q EXCEPT ![g] = v][f] = q[f]
<1> QED
  BY DEF IsFilter

\* The fields of a snapshot are fields of a filter.
LEMMA FieldsAre ==
  /\ SnapshotFields \subseteq FilterFields /\ CategoryFields \subseteq SnapshotFields
  /\ LabelFields \subseteq SnapshotFields /\ NumberFields \subseteq SnapshotFields
  /\ {"availability", "activity"} \subseteq SnapshotFields
  BY DEF FilterFields, SnapshotFields

\* The filters asked about have the values the module lists.
LEMMA QuestionsAre ==
  ASSUME NEW q \in Questions \cup {Everything}
  PROVE  /\ IsFilter(q)
         /\ q.availability \in {"all", "current", "sold"} /\ q.activity \in {Null, "firstObserved", "priceReduced"}
         /\ \A f \in NumberFields : q[f] \in Nat \cup {Unset}
<1>1. CASE q = Everything
  BY <1>1, EverythingIs
<1>2. CASE q \in Questions
  BY <1>2, MarketQuestions DEF IsFilter
<1> QED
  BY <1>1, <1>2

\* Matches depends on nothing but the fields of a snapshot.
LEMMA SameFilters ==
  ASSUME NEW q, NEW r, \A f \in SnapshotFields : q[f] = r[f]
  PROVE  Matches(q) = Matches(r)
<1>1. /\ q.availability = r.availability /\ q.activity = r.activity
      /\ q.modelYear = r.modelYear /\ q.modelYearFrom = r.modelYearFrom /\ q.modelYearTo = r.modelYearTo
      /\ q.priceMin = r.priceMin /\ q.priceMax = r.priceMax
      /\ q.mileageMin = r.mileageMin /\ q.mileageMax = r.mileageMax
  BY DEF SnapshotFields, NumberFields
<1>2. \A f \in LabelFields \cup CategoryFields : q[f] = r[f]
  BY FieldsAre
<1>3. \A i : i \in Matches(q) <=> i \in Matches(r)
  BY <1>1, <1>2 DEF Matches
<1> QED
  BY <1>3

\* A question is asked of a stock that stays.
LEMMA MarketHolds == MarketSpec => []MarketTypeOK
<1>1. MarketInit => MarketTypeOK
  BY DEF MarketInit, MarketTypeOK
<1>2. MarketTypeOK /\ [MarketNext]_marketVars => MarketTypeOK'
  BY DEF MarketTypeOK, MarketNext, Ask, marketVars
<1> QED
  BY <1>1, <1>2, PTL DEF MarketSpec

\* Two queries that share a cache key are answered alike.
LEMMA KeysDecide == MarketTypeOK => KeysSuffice
<1> SUFFICES ASSUME MarketTypeOK, NEW q \in Questions \cup {Everything}
             PROVE  /\ SnapshotKey(q) = SnapshotKey(question) => Matches(q) = Matches(question)
                    /\ TimeSeriesKey(q) = TimeSeriesKey(question) => SeriesOf(q) = SeriesOf(question)
                    /\ FacetsKey(q) = FacetsKey(question) => FacetsOf(q) = FacetsOf(question)
  BY DEF KeysSuffice
<1>1. ASSUME SnapshotKey(q) = SnapshotKey(question)
      PROVE  (\A f \in SnapshotFields : q[f] = question[f]) /\ Matches(q) = Matches(question)
  <2>1. ASSUME NEW f \in SnapshotFields PROVE q[f] = question[f]
    <3>1. SnapshotKey(q)[f] = q[f] /\ SnapshotKey(question)[f] = question[f]
      BY DEF SnapshotKey, Restrict
    <3> QED
      BY <1>1, <3>1
  <2> QED
    BY <2>1, SameFilters
<1>2. ASSUME TimeSeriesKey(q) = TimeSeriesKey(question) PROVE SeriesOf(q) = SeriesOf(question)
  <2> DEFINE days == Restrict(q, {"from", "to", "interval"})
             askedDays == Restrict(question, {"from", "to", "interval"})
  <2>1. SnapshotKey(q) = SnapshotKey(question) /\ days = askedDays
    BY <1>2 DEF TimeSeriesKey
  <2>2. /\ days["from"] = q.from /\ days["to"] = q.to /\ days["interval"] = q.interval
        /\ askedDays["from"] = question.from /\ askedDays["to"] = question.to /\ askedDays["interval"] = question.interval
    BY DEF Restrict
  <2>3. q.from = question.from /\ q.to = question.to /\ q.interval = question.interval
    BY <2>1, <2>2
  <2>4. q.availability = question.availability /\ Matches(q) = Matches(question)
    BY <1>1, <2>1, FieldsAre
  <2>5. WindowRuns(q) = WindowRuns(question)
    BY <2>3, <2>4, Zenon DEF WindowRuns
  <2>6. \A r : BucketOf(r, q) = BucketOf(r, question)
    BY <2>3 DEF BucketOf
  <2>7. NewestRuns(q) = NewestRuns(question)
    BY <2>5, <2>6 DEF NewestRuns
  <2>8. {<<BucketOf(r, q), r>> : r \in NewestRuns(q)} = {<<BucketOf(r, question), r>> : r \in NewestRuns(question)}
    BY <2>6, <2>7
  <2> QED
    BY <2>4, <2>8, Zenon DEF SeriesOf
<1>3. ASSUME FacetsKey(q) = FacetsKey(question) PROVE FacetsOf(q) = FacetsOf(question)
  <2> DEFINE S == {"make", "model"}
  <2>1. ASSUME NEW f \in S PROVE q[f] = question[f]
    <3>1. FacetsKey(q)[f] = q[f] /\ FacetsKey(question)[f] = question[f]
      BY DEF FacetsKey, Restrict
    <3> QED
      BY <1>3, <3>1
  <2>2. q.make = question.make
    BY <2>1
  <2>3. Chosen(q) = Chosen(question)
    BY <2>1 DEF Chosen
  <2>4. ModelsOffered(q) = ModelsOffered(question)
    BY <2>2, Zenon DEF ModelsOffered
  <2>5. ASSUME NEW f
        PROVE  (CASE f = "model" -> ModelsOffered(q)
                  [] f \in LabelFields \ {"model"} -> {l[f] : l \in Range(stock)} \ {Null}
                  [] f \in CategoryFields -> {CategorySql(l[f], f) : l \in Chosen(q)} \ {Null}
                  [] f = "yearRange" -> YearRange(Chosen(q)))
             = (CASE f = "model" -> ModelsOffered(question)
                  [] f \in LabelFields \ {"model"} -> {l[f] : l \in Range(stock)} \ {Null}
                  [] f \in CategoryFields -> {CategorySql(l[f], f) : l \in Chosen(question)} \ {Null}
                  [] f = "yearRange" -> YearRange(Chosen(question)))
    BY <2>3, <2>4
  <2> QED
    BY <2>5 DEF FacetsOf
<1> QED
  BY <1>1, <1>2, <1>3

(* No field that the statements of a cached answer read is missing in its  *)
(* key.                                                                    *)
THEOREM KeysAlwaysSuffice == MarketSpec => []KeysSuffice
  BY MarketHolds, KeysDecide, PTL

\* The category of a label is one of the table.
LEMMA CategoryIs ==
  ASSUME NEW k \in CategoryFields, NEW label, CategorySql(label, k) # Null
  PROVE  CategorySql(label, k) \in Range(Synonyms[k])
<1> DEFINE Labels == Synonyms[k]
           InLower == {Lower[c] : c \in Range(Labels)}
           w == Lower[label]
<1>1. w \in DOMAIN Arms(k) /\ CategorySql(label, k) = Arms(k)[w]
  BY DEF CategorySql
<1>2. w \in DOMAIN Labels \cup InLower
        /\ Arms(k)[w] = IF w \in DOMAIN Labels THEN Labels[w] ELSE CHOOSE c \in Range(Labels) : Lower[c] = w
  BY <1>1 DEF Arms
<1>3. CASE w \in DOMAIN Labels
  BY <1>1, <1>2, <1>3 DEF Range
<1>4. CASE w \notin DOMAIN Labels
  <2>1. \E c \in Range(Labels) : Lower[c] = w
    BY <1>2, <1>4
  <2> HIDE DEF Labels, w
  <2>2. (CHOOSE c \in Range(Labels) : Lower[c] = w) \in Range(Labels)
    BY <2>1
  <2> QED
    BY <1>1, <1>2, <1>4, <2>2 DEF Labels
<1> QED
  BY <1>3, <1>4

\* A category of the table stands for itself in the statements.
LEMMA CategoryKeeps ==
  ASSUME NEW k \in CategoryFields, NEW c \in Range(Synonyms[k])
  PROVE  CategorySql(c, k) = c /\ c # Null
<1> DEFINE Labels == Synonyms[k]
           InLower == {Lower[d] : d \in Range(Labels)}
           w == Lower[c]
<1>1. /\ c # Null /\ (w \in DOMAIN Labels => Labels[w] = c)
      /\ \A d \in Range(Labels) : Lower[d] = w => d = c
  BY MarketCategories
<1>2. w \in DOMAIN Arms(k)
        /\ Arms(k)[w] = IF w \in DOMAIN Labels THEN Labels[w] ELSE CHOOSE d \in Range(Labels) : Lower[d] = w
  BY DEF Arms
<1>3. (CHOOSE d \in Range(Labels) : Lower[d] = w) = c
  <2>1. \E d \in Range(Labels) : Lower[d] = w
    OBVIOUS
  <2> HIDE DEF Labels, w
  <2> QED
    BY <1>1, <2>1
<1>4. CategorySql(c, k) = Arms(k)[w]
  BY <1>1, <1>2 DEF CategorySql
<1> QED
  BY <1>1, <1>2, <1>3, <1>4

\* The words of the link and the statements have one category for a label.
LEMMA NormalizersAgree ==
  ASSUME NEW k \in CategoryFields, NEW label
  PROVE  NormalizeVehicleCategory(label, k) = CategorySql(label, k)
<1> DEFINE Labels == Synonyms[k]
           w == Lower[label]
           Named == {c \in Range(Labels) : Lower[c] = w}
<1>1. CASE label = Null
  BY <1>1 DEF NormalizeVehicleCategory, CategorySql
<1>2. CASE label # Null /\ w \in DOMAIN Labels
  <2>1. w \in DOMAIN Arms(k) /\ Arms(k)[w] = Labels[w]
    BY <1>2 DEF Arms
  <2>2. NormalizeVehicleCategory(label, k) = Labels[w]
    BY <1>2 DEF NormalizeVehicleCategory
  <2> QED
    BY <1>2, <2>1, <2>2 DEF CategorySql
<1>3. CASE label # Null /\ w \notin DOMAIN Labels /\ Named = {}
  <2>1. w \notin DOMAIN Arms(k)
    BY <1>3 DEF Arms
  <2>2. NormalizeVehicleCategory(label, k) = Null
    BY <1>3 DEF NormalizeVehicleCategory
  <2> QED
    BY <2>1, <2>2 DEF CategorySql
<1>4. CASE label # Null /\ w \notin DOMAIN Labels /\ Named # {}
  <2> DEFINE named == CHOOSE c \in Named : TRUE
             arm == CHOOSE c \in Range(Labels) : Lower[c] = w
  <2>1. NormalizeVehicleCategory(label, k) = named
    BY <1>4 DEF NormalizeVehicleCategory
  <2>2. w \in DOMAIN Arms(k) /\ Arms(k)[w] = arm
    BY <1>4 DEF Arms
  <2>3. \A c, d \in Range(Labels) : Lower[c] = Lower[d] => c = d
    BY MarketCategories
  <2>4. named = arm
    <3>1. \E c \in Range(Labels) : Lower[c] = w
      BY <1>4
    <3> HIDE DEF Labels, w
    <3>2. named \in Range(Labels) /\ Lower[named] = w
      BY <1>4
    <3>3. arm \in Range(Labels) /\ Lower[arm] = w
      BY <3>1
    <3> HIDE DEF named, arm
    <3> QED
      BY <2>3, <3>2, <3>3
  <2> QED
    BY <1>4, <2>1, <2>2, <2>4 DEF CategorySql
<1> QED
  BY <1>1, <1>2, <1>3, <1>4

\* What a listing of a stock is.
LEMMA ListingsAre ==
  ASSUME MarketTypeOK, NEW i \in ListingIds
  PROVE  /\ stock[i] \in Stock /\ stock[i].availability \in {"active", "sold", "unknown"}
         /\ stock[i].asking \in Nat /\ stock[i].sold \in Nat /\ stock[i].first \in Nat /\ stock[i].last \in Nat
         /\ stock[i].first <= stock[i].last
         /\ stock[i].mileage \in Nat \cup {-1} /\ stock[i].year \in Nat \cup {-1}
         /\ stock[i].prices \in Seq([at : Nat, price : Nat])
<1>1. stock[i] \in Stock
  BY DEF MarketTypeOK
<1> QED
  BY <1>1, MarketListings DEF Unset

\* Of finitely many numbers one is the greatest: the one with the fewest above.
LEMMA GreatestOfAny ==
  ASSUME NEW S, IsFiniteSet(S), S # {}, NEW f \in [S -> Nat]
  PROVE  \E x \in S : \A y \in S : f[y] <= f[x]
<1> DEFINE Above(x) == {y \in S : f[y] > f[x]}
           Counts == {Cardinality(Above(x)) : x \in S}
<1>1. \A x \in S : IsFiniteSet(Above(x)) /\ Cardinality(Above(x)) \in Nat
  <2>1. ASSUME NEW x \in S PROVE IsFiniteSet(Above(x)) /\ Cardinality(Above(x)) \in Nat
    BY FS_Subset, FS_CardinalityType
  <2> QED
    BY <2>1
<1>2. Counts \in SUBSET Nat /\ Counts # {}
  BY <1>1
<1>3. PICK x \in S : \A y \in S : Cardinality(Above(x)) <= Cardinality(Above(y))
  <2> HIDE DEF Above
  <2>1. PICK c \in Counts : \A d \in Counts : c <= d
    <3> HIDE DEF Counts
    <3> QED
      BY <1>2, LeastNumber
  <2> QED
    BY <2>1
<1>4. ASSUME NEW y \in S, f[y] > f[x] PROVE FALSE
  <2>1. Above(y) \subseteq Above(x) /\ y \in Above(x) /\ y \notin Above(y)
    BY <1>4
  <2>2. Cardinality(Above(y)) <= Cardinality(Above(x)) /\ Cardinality(Above(x)) # Cardinality(Above(y))
    <3> HIDE DEF Above
    <3> QED
      BY <1>1, <2>1, FS_Subset
  <2> QED
    BY <1>1, <1>3, <2>2
<1> QED
  BY <1>4

\* What the library means by an injection and a bijection.
LEMMA InjectionIs ==
  ASSUME NEW S, NEW T, NEW f \in [S -> T], \A a, b \in S : f[a] = f[b] => a = b
  PROVE  f \in Injection(S, T)
<1> QED
  BY DEF Injection, IsInjective

\* The same of a bijection.
LEMMA BijectionIs ==
  ASSUME NEW S, NEW T, NEW f
  PROVE  f \in Bijection(S, T) <=> /\ f \in [S -> T] /\ \A a, b \in S : f[a] = f[b] => a = b
                                  /\ \A t \in T : \E x \in S : f[x] = t
<1> QED
  BY DEF Bijection, Injection, Surjection, IsInjective

\* Ranks in a strict order of a finite set are 0, 1 ... up to its size, once each.
LEMMA RanksFill ==
  ASSUME NEW M, IsFiniteSet(M), NEW R,
         \A i \in M : <<i, i>> \notin R,
         \A i, j, k \in M : <<i, j>> \in R /\ <<j, k>> \in R => <<i, k>> \in R,
         \A i, j \in M : i = j \/ <<i, j>> \in R \/ <<j, i>> \in R
  PROVE  [i \in M |-> Cardinality({j \in M : <<j, i>> \in R})] \in Bijection(M, 0 .. Cardinality(M) - 1)
<1> DEFINE Ahead(i) == {j \in M : <<j, i>> \in R}
           rank == [i \in M |-> Cardinality(Ahead(i))]
           n == Cardinality(M)
<1>1. n \in Nat
  BY FS_CardinalityType
<1>2. ASSUME NEW i \in M
      PROVE  IsFiniteSet(Ahead(i)) /\ Cardinality(Ahead(i)) \in Nat
  BY FS_Subset, FS_CardinalityType
<1>3. ASSUME NEW i \in M PROVE Cardinality(Ahead(i)) \in 0 .. n - 1
  <2>1. Ahead(i) \in SUBSET (M \ {i})
    OBVIOUS
  <2>2. IsFiniteSet(M \ {i}) /\ Cardinality(M \ {i}) = n - 1
    BY FS_RemoveElement
  <2> HIDE DEF Ahead
  <2>3. Cardinality(Ahead(i)) <= n - 1
    BY <2>1, <2>2, FS_Subset
  <2> QED
    BY <1>1, <1>2, <2>3
<1>4. ASSUME NEW i \in M, NEW j \in M, <<i, j>> \in R PROVE Cardinality(Ahead(i)) < Cardinality(Ahead(j))
  <2>1. Ahead(i) \in SUBSET Ahead(j) /\ i \in Ahead(j) /\ i \notin Ahead(i)
    BY <1>4
  <2>2. Cardinality(Ahead(i)) <= Cardinality(Ahead(j)) /\ Cardinality(Ahead(j)) # Cardinality(Ahead(i))
    <3> HIDE DEF Ahead
    <3> QED
      BY <1>2, <2>1, FS_Subset
  <2> QED
    BY <1>2, <2>2
<1> HIDE DEF Ahead
<1>5. rank \in [M -> 0 .. n - 1]
  BY <1>3
<1>6. ASSUME NEW i \in M, NEW j \in M, rank[i] = rank[j] PROVE i = j
  <2>1. Cardinality(Ahead(i)) = Cardinality(Ahead(j)) /\ Cardinality(Ahead(i)) \in Nat
    BY <1>2, <1>6
  <2>2. CASE <<i, j>> \in R
    BY <1>4, <2>1, <2>2
  <2>3. CASE <<j, i>> \in R
    BY <1>4, <2>1, <2>3
  <2> QED
    BY <2>2, <2>3
<1> HIDE DEF rank, n
<1>7. rank \in Injection(M, 0 .. n - 1)
  BY <1>5, <1>6, InjectionIs
<1>8. IsFiniteSet(0 .. n - 1) /\ Cardinality(0 .. n - 1) = n
  <2>1. 0 \in Int /\ n - 1 \in Int
    BY <1>1
  <2> QED
    BY <1>1, <2>1, FS_Interval
<1>9. rank \in Surjection(M, 0 .. n - 1)
  BY <1>7, <1>8, FS_Injection DEF n
<1> QED
  BY <1>7, <1>9 DEF Bijection, Ahead, rank, n

\* So many elements have their ranks in an interval as it has numbers.
LEMMA RanksBetween ==
  ASSUME NEW M, IsFiniteSet(M), NEW rank \in Bijection(M, 0 .. Cardinality(M) - 1),
         NEW a \in Nat, NEW b \in Nat, a <= b, b <= Cardinality(M)
  PROVE  Cardinality({i \in M : a <= rank[i] /\ rank[i] < b}) = b - a
<1> DEFINE S == {i \in M : a <= rank[i] /\ rank[i] < b}
           T == a .. b - 1
           f == [i \in S |-> rank[i]]
           n == Cardinality(M)
<1>1. n \in Nat /\ IsFiniteSet(S)
  BY FS_CardinalityType, FS_Subset
<1>2. /\ rank \in [M -> 0 .. n - 1] /\ \A i, j \in M : rank[i] = rank[j] => i = j
      /\ \A t \in 0 .. n - 1 : \E i \in M : rank[i] = t
  <2> DEFINE U == 0 .. n - 1
  <2>1. rank \in Bijection(M, U)
    OBVIOUS
  <2> HIDE DEF U
  <2>2. /\ rank \in [M -> U] /\ \A i, j \in M : rank[i] = rank[j] => i = j
        /\ \A t \in U : \E i \in M : rank[i] = t
    BY ONLY <2>1, BijectionIs
  <2> QED
    BY ONLY <2>2 DEF U, n
<1>3. f \in [S -> T] /\ \A i, j \in S : f[i] = f[j] => i = j
  BY <1>1, <1>2
<1>4. \A t \in T : \E i \in S : f[i] = t
  <2> SUFFICES ASSUME NEW t \in T PROVE \E i \in S : f[i] = t
    OBVIOUS
  <2>1. t \in 0 .. n - 1 /\ a <= t /\ t < b
    BY <1>1
  <2>2. PICK i \in M : rank[i] = t
    BY <1>2, <2>1
  <2> QED
    BY <2>1, <2>2
<1>5. f \in Bijection(S, T)
  <2> HIDE DEF f, S, T
  <2> QED
    BY <1>3, <1>4, BijectionIs
<1>6. Cardinality(T) = Cardinality(S)
  <2> HIDE DEF f, S, T
  <2> QED
    BY <1>1, <1>5, FS_Bijection DEF ExistsBijection
<1>7. Cardinality(T) = b - a
  <2>1. a \in Int /\ b - 1 \in Int
    OBVIOUS
  <2>2. Cardinality(T) = IF a > b - 1 THEN 0 ELSE (b - 1) - a + 1
    BY <2>1, FS_Interval
  <2> HIDE DEF T
  <2> QED
    BY <2>2
<1> HIDE DEF S, T
<1> QED
  BY <1>6, <1>7 DEF S

\* A quotient, and the numbers it is at least.
LEMMA QuotientIs ==
  ASSUME NEW a \in Nat, NEW b \in Nat \ {0}
  PROVE  a \div b \in Nat /\ (a \div b) * b <= a /\ a < (a \div b) * b + b
<1> QED
  BY SMT

\* Products grow with their factors.
LEMMA ProductsGrow ==
  ASSUME NEW a \in Int, NEW b \in Int, NEW c \in Nat
  PROVE  a <= b => a * c <= b * c
<1> QED
  BY SMT

\* A quotient is at least what multiplied is no more than the dividend.
LEMMA QuotientAtLeast ==
  ASSUME NEW a \in Nat, NEW b \in Nat \ {0}, NEW k \in Int
  PROVE  k * b <= a <=> k <= a \div b
<1> DEFINE d == a \div b
<1>1. d \in Nat /\ d * b <= a /\ a < d * b + b
  BY QuotientIs
<1> HIDE DEF d
<1>2. CASE k <= d
  <2>1. k * b <= d * b
    BY <1>1, <1>2, ProductsGrow
  <2>2. k * b \in Int /\ d * b \in Int
    BY <1>1
  <2> QED
    BY <1>1, <1>2, <2>1, <2>2 DEF d
<1>3. CASE ~(k <= d)
  <2>1. d + 1 <= k /\ d + 1 \in Int
    BY <1>1, <1>3
  <2>2. (d + 1) * b <= k * b
    BY <2>1, ProductsGrow
  <2>3. (d + 1) * b = d * b + b
    BY <1>1
  <2>4. k * b \in Int /\ d * b \in Int
    BY <1>1
  <2> QED
    BY <1>1, <1>3, <2>2, <2>3, <2>4 DEF d
<1> QED
  BY <1>1, <1>2, <1>3

\* The least and the greatest of two.
LEMMA OfTwo ==
  ASSUME NEW a \in Int, NEW b \in Int
  PROVE  Max({a, b}) = (IF a >= b THEN a ELSE b) /\ Min({a, b}) = (IF a <= b THEN a ELSE b)
<1>1. Max({a, b}) = (IF a >= b THEN a ELSE b)
  <2> DEFINE m == IF a >= b THEN a ELSE b
  <2>1. m \in {a, b} /\ \A y \in {a, b} : m >= y
    OBVIOUS
  <2>2. \A x \in {a, b} : (\A y \in {a, b} : x >= y) => x = m
    OBVIOUS
  <2> HIDE DEF m
  <2>3. Max({a, b}) = m
    BY <2>1, <2>2 DEF Max
  <2> QED
    BY <2>3 DEF m
<1>2. Min({a, b}) = (IF a <= b THEN a ELSE b)
  <2> DEFINE m == IF a <= b THEN a ELSE b
  <2>1. m \in {a, b} /\ \A y \in {a, b} : m <= y
    OBVIOUS
  <2>2. \A x \in {a, b} : (\A y \in {a, b} : x <= y) => x = m
    OBVIOUS
  <2> HIDE DEF m
  <2>3. Min({a, b}) = m
    BY <2>1, <2>2 DEF Min
  <2> QED
    BY <2>3 DEF m
<1> QED
  BY <1>1, <1>2

\* As many pages as the count of matches and the last page allow: they reach
\* every rank when the last page does, and all but the last are full.
LEMMA PagesReach ==
  ASSUME NEW n \in Nat, NEW size \in Nat \ {0}
  PROVE  /\ TotalPages(n, size) \in Nat
         /\ n <= LastPage * size => \A r \in 0 .. n - 1 :
              \E p \in 1 .. TotalPages(n, size) : (p - 1) * size <= r /\ r < p * size
         /\ \A p \in 1 .. TotalPages(n, size) - 1 : (p - 1) * size \in Nat /\ p * size \in Nat
                                                  /\ p * size = (p - 1) * size + size /\ p * size <= n
<1> DEFINE top == (n + size - 1) \div size
           most == IF 1 >= top THEN 1 ELSE top
           all == TotalPages(n, size)
<1>0. LastPage \in Nat \ {0} /\ n + size - 1 \in Nat
  BY MarketConstants
<1>1. top \in Nat
  BY <1>0, QuotientIs
<1>2. most \in Nat \ {0} /\ Max({1, top}) = most
  <2> HIDE DEF top
  <2> QED
    BY <1>1, OfTwo
<1>3. all = IF LastPage <= most THEN LastPage ELSE most
  <2> HIDE DEF most
  <2>1. Min({LastPage, most}) = IF LastPage <= most THEN LastPage ELSE most
    BY <1>0, <1>2, OfTwo
  <2> QED
    BY <1>2, <2>1 DEF TotalPages
<1>4. \A k \in Int : k * size <= n + size - 1 <=> k <= top
  BY <1>0, QuotientAtLeast
<1> HIDE DEF top, most, all
<1>5. ASSUME n <= LastPage * size, NEW r \in 0 .. n - 1
      PROVE  \E p \in 1 .. all : (p - 1) * size <= r /\ r < p * size
  <2> DEFINE d == r \div size
             p == d + 1
  <2>1. r \in Nat /\ r < n
    OBVIOUS
  <2>2. d \in Nat /\ d * size <= r /\ r < d * size + size
    BY <2>1, QuotientIs
  <2> HIDE DEF d
  <2>3. d * size \in Nat /\ p * size = d * size + size /\ (p - 1) * size = d * size
    BY <2>2
  <2>4. p <= top
    BY <1>4, <2>1, <2>2, <2>3
  <2>5. p <= LastPage
    <3>1. CASE LastPage <= d
      <4>1. LastPage * size <= d * size
        BY <1>0, <2>2, <3>1, ProductsGrow
      <4> QED
        BY <1>0, <1>5, <2>1, <2>2, <2>3, <4>1
    <3> QED
      BY <1>0, <2>2, <3>1
  <2>6. p \in 1 .. all
    BY <1>0, <1>1, <1>2, <1>3, <2>2, <2>4, <2>5 DEF most
  <2> QED
    BY <2>2, <2>3, <2>6
<1>6. ASSUME NEW p \in 1 .. all - 1
      PROVE  (p - 1) * size \in Nat /\ p * size \in Nat /\ p * size = (p - 1) * size + size /\ p * size <= n
  <2>1. p \in Nat /\ p >= 1 /\ p + 1 <= all /\ all \in Nat
    BY <1>0, <1>2, <1>3
  <2>2. p + 1 <= top
    BY <1>0, <1>1, <1>3, <2>1 DEF most
  <2>3. (p + 1) * size <= n + size - 1
    BY <1>4, <2>1, <2>2
  <2>4. (p + 1) * size = p * size + size /\ p * size = (p - 1) * size + size
    BY <2>1
  <2>5. p * size \in Nat /\ (p - 1) * size \in Nat
    BY <2>1
  <2> QED
    BY <2>3, <2>4, <2>5
<1>7. all \in Nat
  BY <1>0, <1>2, <1>3
<1> QED
  BY <1>5, <1>6, <1>7 DEF all

\* A filter finds finitely many listings, among those of its availability.
LEMMA MatchesAre ==
  ASSUME NEW q
  PROVE  /\ Matches(q) \in SUBSET ListingIds /\ IsFiniteSet(Matches(q)) /\ Cardinality(Matches(q)) \in Nat
         /\ Matches(q) \in SUBSET OfAvailability(q.availability)
         /\ \A av : OfAvailability(av) \in SUBSET ListingIds /\ IsFiniteSet(OfAvailability(av))
<1>1. Matches(q) \in SUBSET OfAvailability(q.availability)
  BY DEF Matches
<1>2. \A av : OfAvailability(av) \in SUBSET ListingIds
  BY DEF OfAvailability
<1>3. IsFiniteSet(ListingIds)
  <2>1. 1 \in Int /\ StockSize \in Int
    BY MarketConstants
  <2> QED
    BY <2>1, FS_Interval DEF ListingIds
<1>4. Matches(q) \in SUBSET ListingIds
  BY <1>1, <1>2
<1> QED
  BY <1>1, <1>2, <1>3, <1>4, FS_Subset, FS_CardinalityType

\* The orders of a search are by numbers.
LEMMA SortKeys ==
  ASSUME MarketTypeOK, NEW i \in ListingIds, NEW sort \in {"priceAsc", "firstSeenDesc", "lastSeenDesc"}
  PROVE  SortKey(stock[i], sort) \in Int
<1> DEFINE l == stock[i]
<1>1. l.asking \in Nat /\ l.sold \in Nat /\ l.first \in Nat /\ l.last \in Nat
  BY ListingsAre
<1> HIDE DEF l
<1>2. ListingPrice(l) \in Int
  BY <1>1 DEF ListingPrice, Unset
<1>3. CASE sort = "priceAsc"
  <2>1. SortKey(l, "priceAsc") = IF ListingPrice(l) = Unset THEN 1000 ELSE ListingPrice(l)
    BY DEF SortKey
  <2> QED
    BY <1>2, <1>3, <2>1 DEF l
<1>4. CASE sort = "firstSeenDesc"
  <2>1. SortKey(l, "firstSeenDesc") = 0 - l.first
    BY DEF SortKey
  <2> QED
    BY <1>1, <1>4, <2>1 DEF l
<1>5. CASE sort = "lastSeenDesc"
  <2>1. SortKey(l, "lastSeenDesc") = 0 - l.last
    BY DEF SortKey
  <2> QED
    BY <1>1, <1>5, <2>1 DEF l
<1> QED
  BY <1>3, <1>4, <1>5

\* The pages of a search have every match, and all but the last are full.
LEMMA PagesCover ==
  ASSUME MarketTypeOK, NEW q, NEW sort \in {"priceAsc", "firstSeenDesc", "lastSeenDesc"},
         NEW size \in Nat \ {0}
  PROVE  LET total == Cardinality(Matches(q)) IN
         /\ total <= LastPage * size =>
              UNION {Page(q, sort, p, size) : p \in 1 .. TotalPages(total, size)} = Matches(q)
         /\ \A p \in 1 .. TotalPages(total, size) - 1 : Cardinality(Page(q, sort, p, size)) = size
<1> DEFINE M == Matches(q)
           n == Cardinality(M)
           R == {pair \in M \X M : Before(pair[1], pair[2], sort)}
           rank == [i \in M |-> Cardinality({j \in M : <<j, i>> \in R})]
<1>1. IsFiniteSet(M) /\ M \in SUBSET ListingIds /\ n \in Nat
  BY MatchesAre
<1>2. \A i \in M : i \in Int /\ SortKey(stock[i], sort) \in Int
  BY <1>1, SortKeys DEF ListingIds
<1> HIDE DEF M
<1>3. \A i, j \in M : <<i, j>> \in R <=> Before(i, j, sort)
  OBVIOUS
<1>4. /\ \A i \in M : ~Before(i, i, sort)
      /\ \A i, j \in M : i = j \/ Before(i, j, sort) \/ Before(j, i, sort)
  BY <1>2 DEF Before
<1>5. ASSUME NEW i \in M, NEW j \in M, NEW k \in M, Before(i, j, sort), Before(j, k, sort)
      PROVE  Before(i, k, sort)
  <2>1. /\ i \in Int /\ j \in Int /\ k \in Int /\ SortKey(stock[i], sort) \in Int
        /\ SortKey(stock[j], sort) \in Int /\ SortKey(stock[k], sort) \in Int
    BY <1>2
  <2> QED
    BY <1>5, <2>1 DEF Before
<1>6. rank \in Bijection(M, 0 .. n - 1)
  <2> HIDE DEF R
  <2>1. \A i \in M : <<i, i>> \notin R
    BY <1>3, <1>4
  <2>2. \A i, j, k \in M : <<i, j>> \in R /\ <<j, k>> \in R => <<i, k>> \in R
    BY <1>3, <1>5
  <2>3. \A i, j \in M : i = j \/ <<i, j>> \in R \/ <<j, i>> \in R
    BY <1>3, <1>4
  <2> QED
    BY <1>1, <2>1, <2>2, <2>3, RanksFill
<1>7. ASSUME NEW i \in M PROVE rank[i] = Cardinality({j \in M : Before(j, i, sort)})
  <2>1. {j \in M : <<j, i>> \in R} = {j \in M : Before(j, i, sort)}
    BY <1>3
  <2> QED
    BY <2>1
<1> HIDE DEF rank
<1>8. ASSUME NEW p PROVE Page(q, sort, p, size) = {i \in M : (p - 1) * size <= rank[i] /\ rank[i] < p * size}
  BY <1>7 DEF Page, M
<1>9. ASSUME n <= LastPage * size
      PROVE  UNION {Page(q, sort, p, size) : p \in 1 .. TotalPages(n, size)} = M
  <2>1. ASSUME NEW i \in M PROVE \E p \in 1 .. TotalPages(n, size) : i \in Page(q, sort, p, size)
    <3>1. rank[i] \in 0 .. n - 1
      <4> DEFINE U == 0 .. n - 1
      <4>1. rank \in Bijection(M, U)
        BY <1>6
      <4> HIDE DEF U
      <4>2. rank \in [M -> U]
        BY ONLY <4>1, BijectionIs
      <4>3. rank[i] \in U
        BY <4>2
      <4> QED
        BY <4>3 DEF U
    <3>2. PICK p \in 1 .. TotalPages(n, size) : (p - 1) * size <= rank[i] /\ rank[i] < p * size
      BY <1>1, <1>9, <3>1, PagesReach
    <3> QED
      BY <1>8, <3>2
  <2>2. \A p : Page(q, sort, p, size) \in SUBSET M
    BY <1>8
  <2> QED
    BY <2>1, <2>2
<1>10. ASSUME NEW p \in 1 .. TotalPages(n, size) - 1 PROVE Cardinality(Page(q, sort, p, size)) = size
  <2> DEFINE a == (p - 1) * size
             b == p * size
  <2>1. a \in Nat /\ b \in Nat /\ b = a + size /\ b <= n
    BY <1>1, PagesReach
  <2>2. Page(q, sort, p, size) = {i \in M : a <= rank[i] /\ rank[i] < b}
    BY <1>8
  <2> HIDE DEF a, b
  <2>3. Cardinality({i \in M : a <= rank[i] /\ rank[i] < b}) = b - a
    BY <1>1, <1>6, <2>1, RanksBetween
  <2> QED
    BY <2>1, <2>2, <2>3
<1> QED
  BY <1>9, <1>10 DEF M

\* A filter that is like Everything but for availability and activity.
LEMMA OnlyActivity ==
  ASSUME NEW q, \A f \in LabelFields \cup CategoryFields \cup NumberFields : q[f] = Everything[f]
  PROVE  Matches(q) = {i \in OfAvailability(q.availability) : q.activity # Null => Active(stock[i], q.activity)}
<1>1. \A f \in LabelFields \cup CategoryFields : q[f] = Null
  BY EverythingIs
<1>2. \A f \in NumberFields : q[f] = Unset
  BY EverythingIs
<1>3. /\ q.modelYear = Unset /\ q.modelYearFrom = Unset /\ q.modelYearTo = Unset
      /\ q.priceMin = Unset /\ q.priceMax = Unset /\ q.mileageMin = Unset /\ q.mileageMax = Unset
  BY <1>2 DEF NumberFields
<1>4. \A v : AtLeast(v, Unset) /\ AtMost(v, Unset)
  BY DEF AtLeast, AtMost
<1> QED
  BY <1>1, <1>3, <1>4 DEF Matches

\* A filter that is like Everything but for availability.
LEMMA OnlyAvailability ==
  ASSUME NEW q, \A f \in LabelFields \cup CategoryFields \cup NumberFields \cup {"activity"} : q[f] = Everything[f]
  PROVE  Matches(q) = OfAvailability(q.availability)
<1>1. q.activity = Null
  BY EverythingIs
<1>2. Matches(q) = {i \in OfAvailability(q.availability) : q.activity # Null => Active(stock[i], q.activity)}
  BY OnlyActivity
<1> QED
  BY <1>1, <1>2

\* The count takes its shortcut only when no filter needs more than the listings.
LEMMA CountIs ==
  ASSUME NEW q
  PROVE  CountMatches(q) = Cardinality(Matches(q))
<1>1. CASE SnapshotFilters(q)
  BY <1>1 DEF CountMatches
<1>2. CASE ~SnapshotFilters(q)
  <2>1. \A f \in LabelFields \cup CategoryFields \cup NumberFields \cup {"activity"} : q[f] = Everything[f]
    BY <1>2 DEF SnapshotFilters, SnapshotFields, LabelFields, CategoryFields, NumberFields
  <2>2. Matches(q) = OfAvailability(q.availability)
    BY <2>1, OnlyAvailability
  <2> QED
    BY <1>2, <2>2 DEF CountMatches
<1> QED
  BY <1>1, <1>2

\* A current market has an anchor no listing was seen after.
LEMMA AnchorIs ==
  ASSUME MarketTypeOK, NEW i \in OfAvailability("current")
  PROVE  Anchor \in Nat /\ stock[i].last <= Anchor
<1> DEFINE C == OfAvailability("current")
           seen == [j \in C |-> stock[j].last]
           Times == {stock[j].last : j \in C} \cup {-1}
<1>1. \A j \in C : stock[j].last \in Nat
  BY MatchesAre, ListingsAre
<1>2. IsFiniteSet(C)
  BY MatchesAre
<1>3. i \in C
  OBVIOUS
<1> HIDE DEF C
<1>4. seen \in [C -> Nat]
  BY <1>1
<1>5. PICK x \in C : \A y \in C : seen[y] <= seen[x]
  BY <1>2, <1>3, <1>4, GreatestOfAny
<1> DEFINE m == stock[x].last
<1>6. m \in Times /\ \A y \in Times : m >= y
  BY <1>1, <1>5
<1> DEFINE c == CHOOSE y \in Times : \A z \in Times : y >= z
<1>7. c \in Times /\ \A z \in Times : c >= z
  <2> HIDE DEF Times, m
  <2> QED
    BY <1>6
<1>8. Anchor = c
  BY DEF Anchor, Max, C
<1>9. stock[i].last \in Times /\ stock[i].last \in Nat
  BY <1>1, <1>3
<1>10. c \in Nat \cup {-1}
  BY <1>1, <1>7
<1> HIDE DEF Times, c
<1> QED
  BY <1>7, <1>8, <1>9, <1>10

\* The counts of the front page are those of the searches that show them.
LEMMA OverviewIs ==
  ASSUME MarketTypeOK
  PROVE  LET Count(q) == Cardinality(Matches(q))
             current == [Everything EXCEPT !.availability = "current"]
         IN  OverviewCounts = [current |-> Count(current),
                               archived |-> Count([Everything EXCEPT !.availability = "sold"]),
                               firstObserved |-> Count([current EXCEPT !.activity = "firstObserved"]),
                               reduced |-> Count([current EXCEPT !.activity = "priceReduced"])]
<1> DEFINE current == [Everything EXCEPT !.availability = "current"]
           archived == [Everything EXCEPT !.availability = "sold"]
           fresh == [current EXCEPT !.activity = "firstObserved"]
           lower == [current EXCEPT !.activity = "priceReduced"]
           C == OfAvailability("current")
<1> DEFINE OtherFields == LabelFields \cup CategoryFields \cup NumberFields
<1>0. /\ IsFilter(Everything) /\ Everything.activity = Null
      /\ OtherFields \subseteq FilterFields /\ "availability" \in FilterFields /\ "activity" \in FilterFields
      /\ "availability" \notin OtherFields /\ "activity" \notin OtherFields
  BY EverythingIs DEF FilterFields, SnapshotFields, LabelFields, CategoryFields, NumberFields
<1>a. /\ IsFilter(current) /\ current.availability = "current" /\ current.activity = Null
      /\ \A f \in OtherFields : current[f] = Everything[f]
  BY <1>0, WithField
<1>b. /\ archived.availability = "sold" /\ archived.activity = Null
      /\ \A f \in OtherFields : archived[f] = Everything[f]
  BY <1>0, WithField
<1> HIDE DEF current, archived
<1>c. /\ fresh.availability = "current" /\ fresh.activity = "firstObserved"
      /\ \A f \in OtherFields : fresh[f] = Everything[f]
  BY <1>0, <1>a, WithField
<1>d. /\ lower.availability = "current" /\ lower.activity = "priceReduced"
      /\ \A f \in OtherFields : lower[f] = Everything[f]
  BY <1>0, <1>a, WithField
<1> HIDE DEF fresh, lower
<1>1. Matches(current) = C
  BY <1>a, OnlyActivity
<1>2. Matches(archived) = OfAvailability("sold")
  BY <1>b, OnlyActivity
<1>3. Matches(fresh) = {i \in C : stock[i].first >= Anchor - ActiveDays}
  <2>1. Matches(fresh) = {i \in C : Active(stock[i], "firstObserved")}
    BY <1>c, OnlyActivity DEF Null
  <2>2. \A l : Active(l, "firstObserved") <=> Recent(l.first)
    BY Zenon DEF Active
  <2>3. ASSUME NEW i \in C PROVE Recent(stock[i].first) <=> stock[i].first >= Anchor - ActiveDays
    <3>1. Anchor \in Nat /\ stock[i].last <= Anchor
      BY AnchorIs
    <3>2. stock[i].first \in Nat /\ stock[i].last \in Nat /\ stock[i].first <= stock[i].last
      BY MatchesAre, ListingsAre
    <3>3. ActiveDays \in Nat
      BY MarketConstants
    <3> QED
      BY <3>1, <3>2, <3>3 DEF Recent
  <2> HIDE DEF C
  <2> QED
    BY <2>1, <2>2, <2>3
<1>4. Matches(lower) = {i \in C : \E n \in Reductions(stock[i]) : Recent(stock[i].prices[n].at)}
  <2>1. Matches(lower) = {i \in C : Active(stock[i], "priceReduced")}
    BY <1>d, OnlyActivity DEF Null
  <2>2. \A l : Active(l, "priceReduced") <=> \E n \in Reductions(l) : Recent(l.prices[n].at)
    BY Zenon DEF Active
  <2> QED
    BY <2>1, <2>2
<1>5. OverviewCounts = [current |-> Cardinality(Matches(current)), archived |-> Cardinality(Matches(archived)),
                        firstObserved |-> Cardinality(Matches(fresh)), reduced |-> Cardinality(Matches(lower))]
  BY <1>1, <1>2, <1>3, <1>4, Zenon DEF OverviewCounts
<1> QED
  BY <1>5 DEF current, archived, fresh, lower

\* The summary counts the matches, and apart those that are for sale and sold.
LEMMA SummaryIs ==
  ASSUME MarketTypeOK
  PROVE  SummaryOf(question) =
           [listings |-> Cardinality(Matches(question)),
            active |-> Cardinality(Matches(question) \cap OfAvailability("current")),
            sold |-> Cardinality(Matches(question)) - Cardinality(Matches(question) \cap OfAvailability("current"))]
<1> DEFINE M == Matches(question)
           A == {i \in M : stock[i].availability = "active"}
           S == {i \in M : stock[i].availability = "sold"}
<1>1. IsFiniteSet(M) /\ M \in SUBSET ListingIds /\ M \in SUBSET OfAvailability(question.availability)
  BY MatchesAre
<1>2. question.availability \in {"all", "current", "sold"}
  BY QuestionsAre DEF MarketTypeOK
<1>3. \A i \in M : stock[i].availability \in {"active", "sold"}
  BY <1>1, <1>2 DEF OfAvailability
<1>4. A = M \cap OfAvailability("current")
  BY <1>1 DEF OfAvailability
<1>5. S = M \ A
  BY <1>3
<1>6. Cardinality(S) = Cardinality(M) - Cardinality(A)
  <2>1. M \cap A = A
    OBVIOUS
  <2> HIDE DEF A, S, M
  <2>2. Cardinality(M \ A) = Cardinality(M) - Cardinality(M \cap A)
    BY <1>1, FS_Difference
  <2> QED
    BY <1>5, <2>1, <2>2, Zenon
<1> QED
  BY <1>4, <1>6 DEF SummaryOf

\* Fifths of a number, rounded down and up.
LEMMA Fifths ==
  ASSUME NEW a \in Int, NEW m \in Int
  PROVE  /\ a \div 5 \in Int /\ (a + 4) \div 5 \in Int
         /\ a <= 5 * m => a \div 5 <= m
         /\ 5 * m <= a => m <= (a + 4) \div 5
<1> QED
  BY SMT

\* The rounded bounds of the link hold every mileage within the exact ones.
LEMMA LinkBounds ==
  ASSUME NEW m \in Nat, NEW km \in Nat, Within(m, km)
  PROVE  /\ km \in 0 .. MileageCap
         /\ LeastKm(km) <= m /\ m <= MostKm(km)
<1> DEFINE s == Spread(km)
           low == (5 * km - s) \div 5
           high == (5 * km + s + 4) \div 5
<1>1. Reach \in Nat /\ MileageCap \in Nat
  BY MarketConstants
<1>2. s \in Nat
  <2>1. 5 * Reach \in Int /\ km \in Int
    BY <1>1
  <2>2. s = IF 5 * Reach >= km THEN 5 * Reach ELSE km
    BY <2>1, OfTwo DEF Spread
  <2> QED
    BY <1>1, <2>2
<1> HIDE DEF s
<1>3. 5 * km - s <= 5 * m
  <2>1. 0 \in Int /\ 5 * km - s \in Int
    BY <1>2
  <2>2. Max({0, 5 * km - s}) = IF 0 >= 5 * km - s THEN 0 ELSE 5 * km - s
    BY <2>1, OfTwo
  <2>3. Max({0, 5 * km - s}) <= 5 * m
    BY DEF Within, s
  <2> QED
    BY <1>2, <2>2, <2>3
<1>4. 5 * m <= 5 * km + s /\ m <= MileageCap
  <2>1. 5 * MileageCap \in Int /\ 5 * km + s \in Int
    BY <1>1, <1>2
  <2>2. Min({5 * MileageCap, 5 * km + s}) = IF 5 * MileageCap <= 5 * km + s THEN 5 * MileageCap ELSE 5 * km + s
    BY <2>1, OfTwo
  <2>3. 5 * m <= Min({5 * MileageCap, 5 * km + s})
    BY DEF Within, s
  <2> QED
    BY <1>1, <1>2, <2>2, <2>3
<1>5. low \in Int /\ low <= m
  <2>1. 5 * km - s \in Int /\ m \in Int
    BY <1>2
  <2> QED
    BY <1>3, <2>1, Fifths
<1>6. high \in Int /\ m <= high
  <2> DEFINE a == 5 * km + s
  <2>1. a \in Int /\ m \in Int /\ 5 * m <= a
    BY <1>2, <1>4
  <2> HIDE DEF a
  <2>2. (a + 4) \div 5 \in Int /\ m <= (a + 4) \div 5
    BY <2>1, Fifths
  <2> QED
    BY <2>2 DEF a
<1> HIDE DEF low, high
<1>7. LeastKm(km) = IF 0 >= low THEN 0 ELSE low
  <2>1. LeastKm(km) = Max({0, low})
    BY DEF LeastKm, low, s
  <2> QED
    BY <1>5, <2>1, OfTwo
<1>8. MostKm(km) = IF MileageCap <= high THEN MileageCap ELSE high
  <2>1. MostKm(km) = Min({MileageCap, high})
    BY DEF MostKm, high, s
  <2>2. MileageCap \in Int
    BY <1>1
  <2> QED
    BY <1>6, <2>1, <2>2, OfTwo
<1> QED
  BY <1>4, <1>5, <1>6, <1>7, <1>8 DEF Within

\* The fields of a link.
LEMMA LinkIs ==
  ASSUME NEW t
  PROVE  LET q == ComparisonLink(t)
             target == stock[t]
             km == target.mileage
         IN  /\ q.make = target.make /\ q.model = target.model /\ q.bodyType = target.bodyType
             /\ \A k \in CategoryFields : q[k] = NormalizeVehicleCategory(target[k], k)
             /\ q.sellerType = Null /\ q.activity = Null
             /\ q.modelYear = Unset /\ q.priceMin = Unset /\ q.priceMax = Unset
             /\ target.year > 0 => q.modelYearFrom = target.year - 1 /\ q.modelYearTo = target.year + 1
             /\ km \in 0 .. MileageCap => q.mileageMin = LeastKm(km) /\ q.mileageMax = MostKm(km)
             /\ q.availability = IF target.availability = "active" THEN "current" ELSE "sold"
<1> DEFINE q == ComparisonLink(t)
           target == stock[t]
           km == target.mileage
           known == target.year > 0
           valid == km \in 0 .. MileageCap
<1>1. \A f \in FilterFields : q[f] =
        CASE f \in {"make", "model", "bodyType"} -> target[f]
          [] f \in CategoryFields -> NormalizeVehicleCategory(target[f], f)
          [] f = "modelYearFrom" /\ known -> target.year - 1
          [] f = "modelYearTo" /\ known -> target.year + 1
          [] f = "mileageMin" /\ valid -> LeastKm(km)
          [] f = "mileageMax" /\ valid -> MostKm(km)
          [] f = "availability" -> IF target.availability = "active" THEN "current" ELSE "sold"
          [] OTHER -> Everything[f]
  BY DEF ComparisonLink
<1>2. Everything["sellerType"] = Null /\ Everything["activity"] = Null
      /\ Everything["modelYear"] = Unset /\ Everything["priceMin"] = Unset /\ Everything["priceMax"] = Unset
  BY EverythingIs DEF LabelFields, NumberFields
<1> HIDE DEF q, target, km, known, valid
<1>3. q["make"] = target["make"] /\ q["model"] = target["model"] /\ q["bodyType"] = target["bodyType"]
  BY <1>1 DEF FilterFields, SnapshotFields, LabelFields, CategoryFields
<1>4. \A k \in CategoryFields : q[k] = NormalizeVehicleCategory(target[k], k)
  BY <1>1 DEF FilterFields, SnapshotFields, CategoryFields
<1>5. q["sellerType"] = Null /\ q["activity"] = Null
  BY <1>1, <1>2 DEF FilterFields, SnapshotFields, LabelFields, CategoryFields
<1>6. q["modelYear"] = Unset /\ q["priceMin"] = Unset /\ q["priceMax"] = Unset
  BY <1>1, <1>2 DEF FilterFields, SnapshotFields, NumberFields, CategoryFields
<1>7. known => q["modelYearFrom"] = target.year - 1 /\ q["modelYearTo"] = target.year + 1
  BY <1>1 DEF FilterFields, SnapshotFields, NumberFields, CategoryFields
<1>8. valid => q["mileageMin"] = LeastKm(km) /\ q["mileageMax"] = MostKm(km)
  BY <1>1 DEF FilterFields, SnapshotFields, NumberFields, CategoryFields
<1>9. q["availability"] = IF target.availability = "active" THEN "current" ELSE "sold"
  BY <1>1 DEF FilterFields, SnapshotFields, CategoryFields
<1> QED
  BY <1>3, <1>4, <1>5, <1>6, <1>7, <1>8, <1>9 DEF q, target, km, known, valid

(* The cars that are compared with a listing are among those its link      *)
(* shows, for any stock and any bounds of the mileage.                     *)
THEOREM ComparablesAlwaysLinked == MarketSpec => []ComparablesLinked
<1>1. MarketTypeOK => ComparablesLinked
  <2> SUFFICES ASSUME MarketTypeOK, NEW t \in OfAvailability("all"),
                      LeastYear < stock[t].year, stock[t].year < MostYear, NEW i \in Comparable(t)
               PROVE  i \in LinkShows(t)
    BY DEF ComparablesLinked
  <2> DEFINE q == ComparisonLink(t)
             l == stock[i]
             target == stock[t]
             km == target.mileage
             av == IF target.availability = "active" THEN "current" ELSE "sold"
  <2>1. /\ i \in ListingIds /\ target.make # Null /\ l.make = target.make /\ l.model = target.model
        /\ l.availability = target.availability
        /\ l.year # Unset /\ l.year \in target.year - 1 .. target.year + 1
        /\ Within(l.mileage, km) /\ l.mileage # Unset
        /\ \A k \in CategoryFields : CategorySql(target[k], k) # Null => CategorySql(l[k], k) = CategorySql(target[k], k)
        /\ target.bodyType # Null => l.bodyType = target.bodyType
    BY DEF Comparable, Within
  <2>2. t \in ListingIds /\ target.availability \in {"active", "sold"}
    BY DEF OfAvailability
  <2>3. i \in OfAvailability(av)
    BY <2>1, <2>2 DEF OfAvailability
  <2>4. l.mileage \in Nat /\ km \in Nat /\ l.year \in Nat /\ target.year \in Nat
    <3>1. l.mileage \in Nat \cup {-1} /\ l.year \in Nat \cup {-1} /\ km \in Nat \cup {-1} /\ target.year \in Nat \cup {-1}
      BY <2>1, <2>2, ListingsAre
    <3>2. km \in 0 .. MileageCap /\ MileageCap \in Nat /\ LeastYear \in Nat
      BY <2>1, MarketConstants DEF Within
    <3> QED
      BY <2>1, <3>1, <3>2 DEF Unset
  <2>5. km \in 0 .. MileageCap /\ LeastKm(km) <= l.mileage /\ l.mileage <= MostKm(km)
    BY <2>1, <2>4, LinkBounds
  <2>6. target.year > 0
    BY <2>4, MarketConstants
  <2> HIDE DEF km, av
  <2>7. /\ q.make = target.make /\ q.model = target.model /\ q.bodyType = target.bodyType
        /\ \A k \in CategoryFields : q[k] = NormalizeVehicleCategory(target[k], k)
        /\ q.sellerType = Null /\ q.activity = Null
        /\ q.modelYear = Unset /\ q.priceMin = Unset /\ q.priceMax = Unset
        /\ q.modelYearFrom = target.year - 1 /\ q.modelYearTo = target.year + 1
        /\ q.mileageMin = LeastKm(km) /\ q.mileageMax = MostKm(km) /\ q.availability = av
    BY <2>5, <2>6, LinkIs DEF km, av
  <2> HIDE DEF q, l, target
  <2>8. \A f \in LabelFields : q[f] # Null => l[f] = q[f]
    BY <2>1, <2>7 DEF LabelFields
  <2>9. ASSUME NEW k \in CategoryFields, q[k] # Null
        PROVE  CategorySql(l[k], k) # Null /\ CategorySql(l[k], k) = CategorySql(q[k], k)
    <3> DEFINE c == CategorySql(target[k], k)
    <3>1. q[k] = c
      BY <2>7, NormalizersAgree
    <3>2. c \in Range(Synonyms[k])
      BY <2>9, <3>1, CategoryIs
    <3>3. CategorySql(q[k], k) = c
      BY <3>1, <3>2, CategoryKeeps
    <3> QED
      BY <2>1, <2>9, <3>1, <3>3
  <2>10. AtLeast(l.year, q.modelYearFrom) /\ AtMost(l.year, q.modelYearTo)
    BY <2>1, <2>4, <2>7 DEF AtLeast, AtMost, l, target
  <2>11. AtLeast(l.mileage, q.mileageMin) /\ AtMost(l.mileage, q.mileageMax)
    BY <2>1, <2>5, <2>7 DEF AtLeast, AtMost
  <2>12. AtLeast(ListingPrice(l), q.priceMin) /\ AtMost(ListingPrice(l), q.priceMax)
    BY <2>7 DEF AtLeast, AtMost
  <2>13. i \in Matches(q)
    BY <2>3, <2>7, <2>8, <2>9, <2>10, <2>11, <2>12 DEF Matches, l
  <2>14. \A f \in {"modelYearFrom", "modelYearTo"} : q[f] \in LeastYear .. MostYear
    <3>1. q["modelYearFrom"] = target.year - 1 /\ q["modelYearTo"] = target.year + 1
      BY <2>7
    <3>2. target.year \in Nat /\ LeastYear < target.year /\ target.year < MostYear /\ LeastYear \in Nat /\ MostYear \in Nat
      BY <2>4, MarketConstants DEF target
    <3> QED
      BY <3>1, <3>2
  <2> QED
    BY <2>13, <2>14 DEF LinkShows, q
<1> QED
  BY <1>1, MarketHolds, PTL

\* A category chosen in addition leaves the matches of that category.
LEMMA CategoryChosen ==
  ASSUME NEW q, IsFilter(q), NEW k \in CategoryFields, q[k] = Null, NEW c \in Range(Synonyms[k])
  PROVE  Matches([q EXCEPT ![k] = c]) = {i \in Matches(q) : CategorySql(stock[i][k], k) = c}
<1> DEFINE r == [q EXCEPT ![k] = c]
<1>1. k \in FilterFields
  BY FieldsAre
<1>2. r[k] = c /\ \A f \in FilterFields : f # k => r[f] = q[f]
  BY <1>1 DEF IsFilter
<1> HIDE DEF r
<1>3. CategorySql(c, k) = c /\ c # Null
  BY CategoryKeeps
<1>4. /\ \A f \in LabelFields : r[f] = q[f]
      /\ \A g \in CategoryFields : g # k => r[g] = q[g]
      /\ r.availability = q.availability /\ r.activity = q.activity
      /\ r.modelYear = q.modelYear /\ r.modelYearFrom = q.modelYearFrom /\ r.modelYearTo = q.modelYearTo
      /\ r.priceMin = q.priceMin /\ r.priceMax = q.priceMax
      /\ r.mileageMin = q.mileageMin /\ r.mileageMax = q.mileageMax
  BY <1>2 DEF FilterFields, SnapshotFields, LabelFields, CategoryFields, NumberFields
<1>5. \A i : (\A g \in CategoryFields : r[g] # Null =>
                CategorySql(stock[i][g], g) # Null /\ CategorySql(stock[i][g], g) = CategorySql(r[g], g))
             <=> /\ \A g \in CategoryFields : q[g] # Null =>
                      CategorySql(stock[i][g], g) # Null /\ CategorySql(stock[i][g], g) = CategorySql(q[g], g)
                 /\ CategorySql(stock[i][k], k) = c
  BY <1>2, <1>3, <1>4
<1>6. \A i : i \in Matches(r) <=> i \in Matches(q) /\ CategorySql(stock[i][k], k) = c
  BY <1>4, <1>5 DEF Matches
<1> QED
  BY <1>6 DEF r

\* Every match can be reached by the facets that are offered for its make and
\* model, and still matches when its category is chosen.
LEMMA FacetsAre == MarketTypeOK => FacetsReach
<1> SUFFICES ASSUME MarketTypeOK, NEW i \in Matches(question)
             PROVE  LET l == stock[i]
                        offered == FacetsOf([question EXCEPT !.make = l.make, !.model = l.model])
                    IN /\ \A f \in LabelFields : l[f] # Null /\ (f = "model" => l.make # Null) => l[f] \in offered[f]
                       /\ \A k \in CategoryFields : CategorySql(l[k], k) # Null =>
                            /\ CategorySql(l[k], k) \in offered[k]
                            /\ question[k] = Null => i \in Matches([question EXCEPT ![k] = CategorySql(l[k], k)])
  BY Zenon DEF FacetsReach
<1> DEFINE l == stock[i]
           q == [question EXCEPT !.make = l.make, !.model = l.model]
           Labels(f) == {m[f] : m \in Range(stock)} \ {Null}
           Categories(k) == {CategorySql(m[k], k) : m \in Chosen(q)} \ {Null}
<1>1. i \in ListingIds /\ DOMAIN stock = ListingIds
  BY MatchesAre DEF MarketTypeOK
<1>2. l \in Range(stock)
  BY <1>1 DEF Range
<1>3. IsFilter(question)
  BY QuestionsAre DEF MarketTypeOK
<1>4. q["make"] = l["make"] /\ q["model"] = l["model"]
  <2> DEFINE half == [question EXCEPT !.make = l.make]
  <2>1. "make" \in FilterFields /\ "model" \in FilterFields
    BY DEF FilterFields, SnapshotFields, LabelFields
  <2>2. IsFilter(half) /\ half["make"] = l["make"]
    BY <1>3, <2>1, WithField
  <2> HIDE DEF half
  <2>3. [half EXCEPT !.model = l.model]["model"] = l["model"] /\ [half EXCEPT !.model = l.model]["make"] = half["make"]
    BY <2>1, <2>2, WithField
  <2> QED
    BY <2>2, <2>3 DEF half
<1> HIDE DEF l, q
<1>5. /\ FacetsOf(q)["model"] = ModelsOffered(q)
      /\ \A f \in LabelFields \ {"model"} : FacetsOf(q)[f] = Labels(f)
      /\ \A k \in CategoryFields : FacetsOf(q)[k] = Categories(k)
  <2>1. \A f \in LabelFields \cup CategoryFields \cup {"yearRange"} : FacetsOf(q)[f] =
          CASE f = "model" -> ModelsOffered(q)
            [] f \in LabelFields \ {"model"} -> Labels(f)
            [] f \in CategoryFields -> Categories(f)
            [] f = "yearRange" -> YearRange(Chosen(q))
    BY DEF FacetsOf
  <2> HIDE DEF Labels, Categories
  <2> QED
    BY <2>1 DEF LabelFields, CategoryFields
<1>6. l \in Chosen(q)
  BY <1>2, <1>4 DEF Chosen
<1>7. ASSUME NEW f \in LabelFields, l[f] # Null, f = "model" => l.make # Null
      PROVE  l[f] \in FacetsOf(q)[f]
  <2>1. CASE f = "model"
    <3>1. l.model \in ModelsOffered(q)
      BY <1>2, <1>4, <1>7, <2>1 DEF ModelsOffered
    <3> QED
      BY <1>5, <2>1, <3>1
  <2>2. CASE f # "model"
    BY <1>2, <1>5, <1>7, <2>2
  <2> QED
    BY <2>1, <2>2
<1>8. ASSUME NEW k \in CategoryFields, CategorySql(l[k], k) # Null
      PROVE  /\ CategorySql(l[k], k) \in FacetsOf(q)[k]
             /\ question[k] = Null => i \in Matches([question EXCEPT ![k] = CategorySql(l[k], k)])
  <2>2. CategorySql(l[k], k) \in FacetsOf(q)[k]
    BY <1>5, <1>6, <1>8
  <2>3. CategorySql(l[k], k) \in Range(Synonyms[k])
    BY <1>8, CategoryIs
  <2>4. question[k] = Null => i \in Matches([question EXCEPT ![k] = CategorySql(l[k], k)])
    BY <1>3, <2>3, CategoryChosen DEF l
  <2> QED
    BY <2>2, <2>4
<1> QED
  BY <1>7, <1>8 DEF l, q

\* The rows of a group of a chart, and its listings.
RowsOf(M, f, g) == {c \in {<<i, f[i]>> : i \in M} : c[2] = g}
ListingsOf(M, f, g) == {i \in M : f[i] = g}

\* A group of a chart counts the listings that are in it.
LEMMA GroupsCount ==
  ASSUME NEW M, IsFiniteSet(M), NEW V, NEW f \in [M -> V], NEW g
  PROVE  Cardinality(RowsOf(M, f, g)) = Cardinality(ListingsOf(M, f, g))
<1> DEFINE S == ListingsOf(M, f, g)
           T == RowsOf(M, f, g)
           pair == [i \in S |-> <<i, f[i]>>]
<1>1. IsFiniteSet(S)
  BY FS_Subset DEF ListingsOf
<1>2. pair \in [S -> T] /\ \A i, j \in S : pair[i] = pair[j] => i = j
  BY DEF ListingsOf, RowsOf
<1>3. \A t \in T : \E i \in S : pair[i] = t
  BY DEF ListingsOf, RowsOf
<1> HIDE DEF S, T, pair
<1>4. pair \in Bijection(S, T)
  BY <1>2, <1>3, BijectionIs
<1> QED
  BY <1>1, <1>4, FS_Bijection DEF ExistsBijection, S, T

\* A number is in the bar that starts at a multiple when it is less than a bar above it.
LEMMA BarIs ==
  ASSUME NEW a \in Nat, NEW b \in Nat \ {0}, NEW d \in Nat
  PROVE  (a \div b) * b = d * b <=> d * b <= a /\ a <= d * b + b - 1
<1> DEFINE q == a \div b
<1>1. q \in Nat /\ q * b <= a /\ a < q * b + b
  BY QuotientIs
<1>2. (d * b <= a <=> d <= q) /\ ((d + 1) * b <= a <=> d + 1 <= q)
  BY QuotientAtLeast
<1> HIDE DEF q
<1>3. d * b \in Nat /\ q * b \in Nat /\ (d + 1) * b = d * b + b
  BY <1>1
<1>4. q * b = d * b <=> d * b <= a /\ a <= d * b + b - 1
  <2>1. ASSUME q * b = d * b PROVE d * b <= a /\ a <= d * b + b - 1
    BY <1>1, <1>3, <2>1
  <2>2. ASSUME d * b <= a, a <= d * b + b - 1 PROVE q = d
    BY <1>1, <1>2, <1>3, <2>2
  <2> QED
    BY <2>1, <2>2
<1> QED
  BY <1>4 DEF q

\* The bars by category count what their filter finds.
LEMMA CategoryBars ==
  ASSUME MarketTypeOK, NEW k \in CategoryFields, question[k] = Null,
         NEW c \in DOMAIN PriceByCategory(question, k)
  PROVE  PriceByCategory(question, k)[c] = Cardinality(Matches([question EXCEPT ![k] = c]))
<1> DEFINE M == {j \in Matches(question) : CategorySql(stock[j][k], k) # Null}
           category == [i \in M |-> CategorySql(stock[i][k], k)]
           G == {<<i, category[i]>> : i \in M}
           q == [question EXCEPT ![k] = c]
<1>1. PriceByCategory(question, k) = GroupCounts(G)
  <2>1. G = {<<i, CategorySql(stock[i][k], k)>> : i \in M}
    OBVIOUS
  <2> HIDE DEF G
  <2> QED
    BY <2>1, Zenon DEF PriceByCategory
<1>2. IsFiniteSet(M)
  BY MatchesAre, FS_Subset
<1>3. c \in {row[2] : row \in G} /\ GroupCounts(G)[c] = Cardinality({row \in G : row[2] = c})
  <2> HIDE DEF G
  <2> QED
    BY <1>1 DEF GroupCounts
<1>4. PICK n \in M : c = category[n]
  BY <1>3
<1>5. c # Null /\ c \in Range(Synonyms[k])
  BY <1>4, CategoryIs
<1>6. Matches(q) = {i \in M : category[i] = c}
  <2>1. IsFilter(question)
    BY QuestionsAre DEF MarketTypeOK
  <2>2. Matches(q) = {i \in Matches(question) : CategorySql(stock[i][k], k) = c}
    BY <1>5, <2>1, CategoryChosen
  <2> QED
    BY <1>5, <2>2
<1>7. Cardinality({row \in G : row[2] = c}) = Cardinality({i \in M : category[i] = c})
  <2> DEFINE V == {category[i] : i \in M}
  <2>1. category \in [M -> V]
    OBVIOUS
  <2> HIDE DEF M, category, V
  <2>2. {row \in G : row[2] = c} = RowsOf(M, category, c) /\ {i \in M : category[i] = c} = ListingsOf(M, category, c)
    BY DEF RowsOf, ListingsOf
  <2> HIDE DEF G
  <2>3. Cardinality(RowsOf(M, category, c)) = Cardinality(ListingsOf(M, category, c))
    BY <1>2, <2>1, GroupsCount
  <2> QED
    BY <2>2, <2>3
<1> HIDE DEF G, M, q
<1> QED
  BY <1>1, <1>3, <1>6, <1>7 DEF q

\* The bars by mileage count what their filter finds.
LEMMA MileageBars ==
  ASSUME MarketTypeOK, question.mileageMin = Unset, question.mileageMax = Unset,
         NEW km \in DOMAIN PriceByMileageBucket(question)
  PROVE  PriceByMileageBucket(question)[km] = Cardinality(Matches([question EXCEPT
           !.mileageMin = km, !.mileageMax = Min({km + BucketKm - 1, MileageCap})]))
<1> DEFINE M == {j \in Matches(question) : stock[j].mileage \in 0 .. MileageCap}
           start == [i \in M |-> (stock[i].mileage \div BucketKm) * BucketKm]
           G == {<<i, start[i]>> : i \in M}
           most == Min({km + BucketKm - 1, MileageCap})
           q == [question EXCEPT !.mileageMin = km, !.mileageMax = most]
<1>0. BucketKm \in Nat \ {0} /\ MileageCap \in Nat
  BY MarketConstants
<1>1. PriceByMileageBucket(question) = GroupCounts(G)
  <2>1. G = {<<i, (stock[i].mileage \div BucketKm) * BucketKm>> : i \in M}
    OBVIOUS
  <2> HIDE DEF G
  <2> QED
    BY <2>1, Zenon DEF PriceByMileageBucket
<1>2. IsFiniteSet(M)
  BY MatchesAre, FS_Subset
<1>3. km \in {c[2] : c \in G} /\ GroupCounts(G)[km] = Cardinality({c \in G : c[2] = km})
  <2> HIDE DEF G
  <2> QED
    BY <1>1 DEF GroupCounts
<1>4. PICK k \in M : km = start[k]
  BY <1>3
<1>5. PICK d \in Nat : km = d * BucketKm /\ km \in Nat
  <2> DEFINE e == stock[k].mileage \div BucketKm
  <2>1. stock[k].mileage \in Nat
    BY <1>0, <1>4
  <2>2. e \in Nat
    BY <1>0, <2>1, QuotientIs
  <2> HIDE DEF e
  <2>3. e * BucketKm \in Nat
    BY <1>0, <2>2
  <2> QED
    BY <1>4, <2>2, <2>3 DEF e
<1>6. most = IF km + BucketKm - 1 <= MileageCap THEN km + BucketKm - 1 ELSE MileageCap
  <2>1. km + BucketKm - 1 \in Int /\ MileageCap \in Int
    BY <1>0, <1>5
  <2> QED
    BY <2>1, OfTwo
<1> HIDE DEF most
<1>7. ASSUME NEW i \in ListingIds
      PROVE  stock[i].mileage # Unset /\ km <= stock[i].mileage /\ stock[i].mileage <= most
             <=> stock[i].mileage \in 0 .. MileageCap /\ (stock[i].mileage \div BucketKm) * BucketKm = km
  <2> DEFINE m == stock[i].mileage
  <2>1. m \in Nat \cup {-1}
    BY ListingsAre
  <2> HIDE DEF m
  <2>2. CASE m = -1
    BY <1>0, <1>5, <2>2 DEF Unset, m
  <2>3. CASE m \in Nat
    <3>1. (m \div BucketKm) * BucketKm = km <=> km <= m /\ m <= km + BucketKm - 1
      BY <1>0, <1>5, <2>3, BarIs
    <3>2. m \in 0 .. MileageCap <=> m <= MileageCap
      BY <1>0, <2>3
    <3>3. m <= most <=> m <= km + BucketKm - 1 /\ m <= MileageCap
      BY <1>0, <1>5, <1>6, <2>3
    <3>4. m # Unset
      BY <2>3 DEF Unset
    <3> QED
      BY <3>1, <3>2, <3>3, <3>4 DEF m
  <2> QED
    BY <2>1, <2>2, <2>3
<1>8. Matches(q) = {i \in M : start[i] = km}
  <2> DEFINE half == [question EXCEPT !.mileageMin = km]
  <2>1. IsFilter(question) /\ "mileageMin" \in FilterFields /\ "mileageMax" \in FilterFields
    BY QuestionsAre DEF MarketTypeOK, FilterFields, SnapshotFields, NumberFields
  <2>2. IsFilter(half) /\ half["mileageMin"] = km /\ \A f \in FilterFields : f # "mileageMin" => half[f] = question[f]
    BY <2>1, WithField
  <2> HIDE DEF half
  <2>3. q = [half EXCEPT !.mileageMax = most]
    BY DEF half
  <2>4. q["mileageMax"] = most /\ \A f \in FilterFields : f # "mileageMax" => q[f] = half[f]
    BY <2>1, <2>2, <2>3 DEF IsFilter
  <2> HIDE DEF q
  <2>5. /\ \A f \in LabelFields \cup CategoryFields : q[f] = question[f]
        /\ q.availability = question.availability /\ q.activity = question.activity
        /\ q.modelYear = question.modelYear /\ q.modelYearFrom = question.modelYearFrom
        /\ q.modelYearTo = question.modelYearTo
        /\ q.priceMin = question.priceMin /\ q.priceMax = question.priceMax
        /\ q.mileageMin = km /\ q.mileageMax = most
    BY <2>2, <2>4 DEF FilterFields, SnapshotFields, LabelFields, CategoryFields, NumberFields
  <2>6. km # Unset /\ most # Unset
    BY <1>0, <1>5, <1>6 DEF Unset
  <2>7. ASSUME NEW i
        PROVE  /\ AtLeast(stock[i].mileage, question.mileageMin) /\ AtMost(stock[i].mileage, question.mileageMax)
               /\ AtLeast(stock[i].mileage, q.mileageMin) /\ AtMost(stock[i].mileage, q.mileageMax)
                  <=> stock[i].mileage # Unset /\ km <= stock[i].mileage /\ stock[i].mileage <= most
    BY <2>5, <2>6 DEF AtLeast, AtMost
  <2>8. \A i : i \in Matches(q) <=> /\ i \in Matches(question)
                                    /\ stock[i].mileage # Unset /\ km <= stock[i].mileage /\ stock[i].mileage <= most
    BY <2>5, <2>7 DEF Matches
  <2>9. \A i \in Matches(question) : i \in ListingIds
    BY MatchesAre
  <2> QED
    BY <1>7, <2>8, <2>9
<1>9. Cardinality({c \in G : c[2] = km}) = Cardinality({i \in M : start[i] = km})
  <2> DEFINE V == {start[i] : i \in M}
  <2>1. start \in [M -> V]
    OBVIOUS
  <2> HIDE DEF M, start, V
  <2>2. {c \in G : c[2] = km} = RowsOf(M, start, km) /\ {i \in M : start[i] = km} = ListingsOf(M, start, km)
    BY DEF RowsOf, ListingsOf
  <2> HIDE DEF G
  <2>3. Cardinality(RowsOf(M, start, km)) = Cardinality(ListingsOf(M, start, km))
    BY <1>2, <2>1, GroupsCount
  <2> QED
    BY <2>2, <2>3
<1> HIDE DEF G, M, q
<1> QED
  BY <1>1, <1>3, <1>8, <1>9 DEF q, most

\* What a sequence with another after it holds.
LEMMA ConcatIs ==
  ASSUME NEW s \in Seq(Nat), NEW t \in Seq(Nat)
  PROVE  /\ s \o t \in Seq(Nat) /\ Len(s \o t) = Len(s) + Len(t)
         /\ \A m \in 1 .. Len(s) : (s \o t)[m] = s[m]
<1> QED
  OBVIOUS

\* A car whose asking price was reduced has a change of price on its page.
LEMMA ReductionsRecorded ==
  ASSUME MarketTypeOK, NEW i \in ListingIds, Reductions(stock[i]) # {}
  PROVE  RecordedChanges(stock[i]) # {}
<1> DEFINE l == stock[i]
           rows == l.prices
           told == [n \in DOMAIN rows |-> rows[n].price]
           after == IF l.sold > 0 THEN <<l.sold>> ELSE <<>>
           Rows == [at : Nat, price : Nat]
<1>1. rows \in Seq(Rows) /\ l.sold \in Nat
  BY ListingsAre
<1>2. \A row \in Rows : row.price \in Nat
  OBVIOUS
<1>3. PICK n \in 2 .. Len(rows) : rows[n].price < rows[n - 1].price
  BY DEF Reductions
<1>4. PricesShown(l) = told \o after
  BY DEF PricesShown
<1> HIDE DEF l, rows, Rows
<1>5. \A m \in 1 .. Len(rows) : rows[m] \in Rows /\ rows[m].price \in Nat
  BY <1>1, <1>2
<1>6. DOMAIN rows = 1 .. Len(rows) /\ Len(rows) \in Nat
  BY <1>1
<1>7. told \in Seq(Nat) /\ Len(told) = Len(rows) /\ \A m \in 1 .. Len(rows) : told[m] = rows[m].price
  BY <1>5, <1>6
<1>8. after \in Seq(Nat)
  BY <1>1
<1> HIDE DEF told, after
<1>9. PricesShown(l) \in Seq(Nat) /\ Len(PricesShown(l)) = Len(told) + Len(after)
      /\ \A m \in 1 .. Len(told) : PricesShown(l)[m] = told[m]
  <2>1. told \in Seq(Nat)
    BY <1>7
  <2>2. /\ told \o after \in Seq(Nat) /\ Len(told \o after) = Len(told) + Len(after)
        /\ \A m \in 1 .. Len(told) : (told \o after)[m] = told[m]
    BY ONLY <1>8, <2>1, ConcatIs
  <2> QED
    BY ONLY <1>4, <2>2
<1>10. n \in Nat /\ n - 1 \in 1 .. Len(rows) /\ n \in 1 .. Len(rows)
  BY <1>6
<1>11. PricesShown(l)[n] # PricesShown(l)[n - 1]
  <2>1. PricesShown(l)[n] = rows[n].price /\ PricesShown(l)[n - 1] = rows[n - 1].price
    BY <1>7, <1>9, <1>10
  <2> QED
    BY <1>3, <1>5, <1>10, <2>1
<1>12. n \in 2 .. Len(PricesShown(l))
  BY <1>6, <1>7, <1>8, <1>9
<1> QED
  BY <1>11, <1>12 DEF RecordedChanges, l

\* The charts count what their filters find.
LEMMA ChartsAre == MarketTypeOK => ChartsAgree
<1> SUFFICES ASSUME MarketTypeOK PROVE ChartsAgree
  OBVIOUS
<1>1. ASSUME question.activity = "priceReduced", NEW i \in Matches(question) PROVE RecordedChanges(stock[i]) # {}
  <2>1. i \in ListingIds /\ Active(stock[i], "priceReduced")
    BY <1>1, MatchesAre DEF Matches, Null
  <2>2. Active(stock[i], "priceReduced") <=> \E n \in Reductions(stock[i]) : Recent(stock[i].prices[n].at)
    BY Zenon DEF Active
  <2> QED
    BY <2>1, <2>2, ReductionsRecorded
<1> QED
  BY <1>1, CategoryBars, MileageBars, Zenon DEF ChartsAgree

(* The statements of one filter agree, for any stock, any sizes of pages   *)
(* and any bounds: pages, counts, facets, summary and charts.              *)
THEOREM AnswersAlwaysAgree == MarketSpec => []AnswersAgree
<1>1. MarketTypeOK => AnswersAgree
  <2> SUFFICES ASSUME MarketTypeOK PROVE AnswersAgree
    OBVIOUS
  <2> DEFINE n == Cardinality(Matches(question))
  <2>1. CountMatches(question) = n
    BY CountIs
  <2>2. ASSUME NEW sort \in {"priceAsc", "firstSeenDesc", "lastSeenDesc"}, NEW size \in 1 .. StockSize
        PROVE  /\ n <= LastPage * size =>
                    UNION {Page(question, sort, p, size) : p \in 1 .. TotalPages(n, size)} = Matches(question)
               /\ \A p \in 1 .. TotalPages(n, size) - 1 : Cardinality(Page(question, sort, p, size)) = size
    <3>1. size \in Nat \ {0}
      BY MarketConstants
    <3> QED
      BY <3>1, PagesCover
  <2> HIDE DEF n
  <2> QED
    BY <2>1, <2>2, OverviewIs, SummaryIs, FacetsAre, ChartsAre DEF AnswersAgree, n
<1> QED
  BY <1>1, MarketHolds, PTL

-----------------------------------------------------------------------------
(* DetailPages.                                                            *)

\* An element is pushed on what has been pushed, if that is one of some.
Push(s, keeps, e) == IF s \in keeps THEN Append(s, e) ELSE s

\* A table of what has been pushed after each of n elements.
PushTable(n, X, x, keep, g) ==
  g \in [0 .. n -> Seq(X)] /\ g[0] = <<>> /\ \A i \in 1 .. n : g[i] = Push(g[i - 1], keep[i], x[i])

\* A loop that pushes some of n elements, deciding by what it has pushed,
\* has a table of what it has pushed after each.
LEMMA Pushes ==
  ASSUME NEW n \in Nat, NEW X, NEW x \in [1 .. n -> X], NEW keep \in [1 .. n -> SUBSET Seq(X)]
  PROVE  \E g : PushTable(n, X, x, keep, g)
<1> DEFINE Pushed(s, i) == Push(s, keep[i], x[i])
           Table(m, g) == g \in [0 .. m -> Seq(X)] /\ g[0] = <<>> /\ \A i \in 1 .. m : g[i] = Pushed(g[i - 1], i)
           missing == {m \in 0 .. n : \A g : ~Table(m, g)}
<1>1. SUFFICES ASSUME missing # {} PROVE FALSE
  <2>1. n \in 0 .. n
    OBVIOUS
  <2>2. n \notin missing => \E g : Table(n, g)
    <3> HIDE DEF Table
    <3> QED
      BY <2>1
  <2>3. \A g : Table(n, g) <=> PushTable(n, X, x, keep, g)
    BY DEF PushTable
  <2> QED
    BY <2>2, <2>3
<1>2. missing \in SUBSET Nat
  OBVIOUS
<1>3. PICK m \in missing : \A k \in missing : m <= k
  <2> HIDE DEF missing
  <2> QED
    BY <1>1, <1>2, LeastNumber
<1>4. CASE m = 0
  <2> DEFINE g == [i \in 0 .. 0 |-> <<>>]
  <2>1. Table(0, g)
    OBVIOUS
  <2> QED
    BY <1>3, <1>4, <2>1
<1>5. CASE m # 0
  <2>1. m \in 1 .. n /\ m - 1 \in 0 .. n /\ m - 1 \notin missing
    <3>1. m \in 1 .. n /\ m - 1 \in 0 .. n /\ ~(m <= m - 1)
      BY <1>3, <1>5
    <3> HIDE DEF missing
    <3> QED
      BY <1>3, <3>1
  <2>2. PICK g : Table(m - 1, g)
    <3> HIDE DEF Table
    <3> QED
      BY <2>1
  <2>3. \A s \in Seq(X) : Pushed(s, m) \in Seq(X)
    BY <2>1 DEF Push
  <2> HIDE DEF Pushed
  <2> DEFINE h == [i \in 0 .. m |-> IF i = m THEN Pushed(g[m - 1], m) ELSE g[i]]
  <2>4. \A i \in 0 .. m - 1 : h[i] = g[i] /\ g[i] \in Seq(X)
    BY <2>1, <2>2
  <2>5. h[m] = Pushed(g[m - 1], m) /\ h[m] \in Seq(X) /\ m - 1 \in 0 .. m - 1
    <3>1. m - 1 \in 0 .. m - 1
      BY <2>1
    <3>2. h[m] = Pushed(g[m - 1], m)
      BY <2>1
    <3> QED
      BY <2>3, <2>4, <3>1, <3>2
  <2>6. h \in [0 .. m -> Seq(X)]
    <3>1. \A i \in 0 .. m : i = m \/ i \in 0 .. m - 1
      BY <2>1
    <3>2. \A i \in 0 .. m : h[i] \in Seq(X)
      BY <2>4, <2>5, <3>1
    <3>3. h = [i \in 0 .. m |-> h[i]]
      OBVIOUS
    <3> HIDE DEF h
    <3> QED
      BY <3>2, <3>3
  <2>7. h[0] = <<>>
    BY <2>1, <2>2, <2>4
  <2>8. \A i \in 1 .. m : h[i] = Pushed(h[i - 1], i)
    <3> SUFFICES ASSUME NEW i \in 1 .. m PROVE h[i] = Pushed(h[i - 1], i)
      OBVIOUS
    <3> HIDE DEF h
    <3>1. CASE i = m
      BY <2>4, <2>5, <3>1
    <3>2. CASE i # m
      <4>1. i \in 1 .. m - 1 /\ i - 1 \in 0 .. m - 1 /\ i \in 0 .. m - 1
        BY <2>1, <3>2
      <4> QED
        BY <2>2, <2>4, <4>1
    <3> QED
      BY <3>1, <3>2
  <2>9. Table(m, h)
    <3> HIDE DEF h
    <3> QED
      BY <2>6, <2>7, <2>8
  <2> QED
    BY <1>3, <2>9
<1> QED
  BY <1>4, <1>5

\* What holds at 0 and is carried from each number to the next holds up to n.
\* The numbers at which it holds are a set.
LEMMA UpToAll ==
  ASSUME NEW n \in Nat, NEW good, 0 \in good, \A i \in 1 .. n : i - 1 \in good => i \in good
  PROVE  \A i \in 0 .. n : i \in good
<1> DEFINE bad == {i \in 0 .. n : i \notin good}
<1> SUFFICES ASSUME bad # {} PROVE FALSE
  OBVIOUS
<1>1. PICK m \in bad : \A k \in bad : m <= k
  <2>1. bad \in SUBSET Nat
    OBVIOUS
  <2> HIDE DEF bad
  <2> QED
    BY <2>1, LeastNumber
<1>2. m \in 1 .. n /\ m - 1 \in 0 .. n /\ ~(m <= m - 1)
  BY <1>1
<1>3. m - 1 \in good
  BY <1>1, <1>2
<1> QED
  BY <1>1, <1>2, <1>3

\* The table of Fields.
FieldTable(page, g) ==
  /\ g[0] = <<>>
  /\ \A i \in 1 .. Len(page) :
       g[i] = IF Tells(FieldOf(page[i])) /\ ~Contains(g[i - 1], FieldOf(page[i]))
              THEN Append(g[i - 1], FieldOf(page[i])) ELSE g[i - 1]

FieldsOf(page) == {FieldOf(page[i]) : i \in 1 .. Len(page)}

\* The loop of Fields has such a table, of fields of the boxes.
LEMMA FieldsTable ==
  ASSUME NEW page \in Seq(Halves)
  PROVE  \E g : /\ FieldTable(page, g) /\ Fields(page) = g[Len(page)]
                /\ \A i \in 0 .. Len(page) : g[i] \in Seq(FieldsOf(page))
<1> DEFINE n == Len(page)
           X == FieldsOf(page)
           x == [i \in 1 .. n |-> FieldOf(page[i])]
           keep == [i \in 1 .. n |-> {s \in Seq(X) : Tells(FieldOf(page[i])) /\ ~Contains(s, FieldOf(page[i]))}]
           Body(g, i) == IF i = 0 THEN <<>>
                         ELSE IF Tells(FieldOf(page[i])) /\ ~Contains(g[i - 1], FieldOf(page[i]))
                              THEN Append(g[i - 1], FieldOf(page[i])) ELSE g[i - 1]
<1>1. n \in Nat /\ x \in [1 .. n -> X] /\ keep \in [1 .. n -> SUBSET Seq(X)]
  BY DEF FieldsOf
<1>2. PICK g : PushTable(n, X, x, keep, g)
  <2> HIDE DEF n, X, x, keep
  <2> QED
    BY <1>1, Pushes
<1> USE DEF PushTable
<1>3. \A i \in 1 .. n : g[i] = Body(g, i)
  <2> SUFFICES ASSUME NEW i \in 1 .. n PROVE g[i] = Body(g, i)
    OBVIOUS
  <2>1. i - 1 \in 0 .. n /\ i # 0
    OBVIOUS
  <2>2. g[i - 1] \in Seq(X)
    <3> HIDE DEF X
    <3> QED
      BY <1>2, <2>1
  <2>3. g[i - 1] \in keep[i] <=> Tells(FieldOf(page[i])) /\ ~Contains(g[i - 1], FieldOf(page[i]))
    <3> HIDE DEF X
    <3> QED
      BY <2>2
  <2>4. x[i] = FieldOf(page[i])
    OBVIOUS
  <2> HIDE DEF X, x, keep
  <2> QED
    BY <1>2, <2>1, <2>3, <2>4 DEF Push
<1>4. g = [i \in 0 .. n |-> Body(g, i)]
  <2>1. g[0] = Body(g, 0) /\ \A i \in 0 .. n : i = 0 \/ i \in 1 .. n
    BY <1>2
  <2>2. g = [i \in 0 .. n |-> g[i]]
    BY <1>2
  <2> HIDE DEF Body
  <2> QED
    BY <1>3, <2>1, <2>2
<1> DEFINE result == CHOOSE f : f = [i \in 0 .. n |-> Body(f, i)]
<1>5. Fields(page) = result[n]
  BY DEF Fields
<1>6. result = [i \in 0 .. n |-> Body(result, i)]
  <2> HIDE DEF Body
  <2> QED
    BY <1>4
<1> HIDE DEF result
<1>7. \A i \in 0 .. n : result[i] = Body(result, i)
  <2> HIDE DEF Body
  <2> QED
    BY <1>6
<1>8. FieldTable(page, result)
  <2>1. 0 \in 0 .. n /\ \A i \in 1 .. n : i \in 0 .. n /\ i # 0
    BY <1>1
  <2> QED
    BY <1>7, <2>1 DEF FieldTable
<1>9. \A i \in 0 .. n : result[i] = g[i]
  <2> DEFINE good == {i \in Nat : result[i] = g[i]}
  <2>1. 0 \in good
    BY <1>2, <1>8 DEF FieldTable
  <2>2. ASSUME NEW i \in 1 .. n, i - 1 \in good PROVE i \in good
    <3>1. i \in 0 .. n /\ result[i - 1] = g[i - 1]
      BY <2>2
    <3> QED
      BY <1>3, <1>7, <3>1
  <2> HIDE DEF good
  <2>3. \A i \in 0 .. n : i \in good
    <3> HIDE DEF n
    <3> QED
      BY <1>1, <2>1, <2>2, UpToAll
  <2> QED
    BY <2>3 DEF good
<1>10. \A i \in 0 .. n : result[i] \in Seq(X)
  <2> HIDE DEF X
  <2> QED
    BY <1>2, <1>9
<1> QED
  BY <1>5, <1>8, <1>10

\* Pages whose boxes tell the same fields have the same fields.
LEMMA SameFields ==
  ASSUME NEW page \in Seq(Halves), NEW other \in Seq(Halves), Len(other) = Len(page),
         \A i \in 1 .. Len(page) : FieldOf(other[i]) = FieldOf(page[i])
  PROVE  Fields(other) = Fields(page)
<1> DEFINE n == Len(page)
<1>1. PICK g : FieldTable(page, g) /\ Fields(page) = g[n]
  BY FieldsTable
<1>2. PICK h : FieldTable(other, h) /\ Fields(other) = h[n]
  BY FieldsTable
<1> DEFINE good == {i \in Nat : g[i] = h[i]}
<1>3. 0 \in good
  BY <1>1, <1>2 DEF FieldTable
<1>4. ASSUME NEW i \in 1 .. n, i - 1 \in good PROVE i \in good
  BY <1>1, <1>2, <1>4 DEF FieldTable
<1> HIDE DEF good
<1>5. n \in good
  <2>1. n \in Nat /\ n \in 0 .. n
    OBVIOUS
  <2> HIDE DEF n
  <2> QED
    BY <1>3, <1>4, <2>1, UpToAll
<1> QED
  BY <1>1, <1>2, <1>5 DEF good

\* The table of Half.
Picked(f, labels, in) == (f.label \in labels) = in
HalfTable(fields, labels, in, g) ==
  /\ g[0] = <<>>
  /\ \A i \in 1 .. Len(fields) :
       g[i] = IF Picked(fields[i], labels, in) THEN Append(g[i - 1], fields[i]) ELSE g[i - 1]

\* The loop of Half has such a table, of the fields it reads.
LEMMA HalfTables ==
  ASSUME NEW X, NEW fields \in Seq(X), NEW labels, NEW in
  PROVE  \E g : /\ HalfTable(fields, labels, in, g) /\ Half(fields, labels, in) = g[Len(fields)]
                /\ \A i \in 0 .. Len(fields) : g[i] \in Seq(X)
<1> DEFINE n == Len(fields)
           keep == [i \in 1 .. n |-> IF Picked(fields[i], labels, in) THEN Seq(X) ELSE {}]
           Body(g, i) == IF i = 0 THEN <<>>
                         ELSE IF Picked(fields[i], labels, in) THEN Append(g[i - 1], fields[i]) ELSE g[i - 1]
<1>1. n \in Nat /\ fields \in [1 .. n -> X] /\ keep \in [1 .. n -> SUBSET Seq(X)]
  OBVIOUS
<1>2. PICK g : PushTable(n, X, fields, keep, g)
  <2> HIDE DEF n, keep
  <2> QED
    BY <1>1, Pushes
<1> USE DEF PushTable
<1>3. \A i \in 1 .. n : g[i] = Body(g, i)
  <2> SUFFICES ASSUME NEW i \in 1 .. n PROVE g[i] = Body(g, i)
    OBVIOUS
  <2>1. i - 1 \in 0 .. n /\ i # 0
    OBVIOUS
  <2>2. g[i - 1] \in Seq(X)
    BY <1>2, <2>1
  <2>3. g[i - 1] \in keep[i] <=> Picked(fields[i], labels, in)
    BY <2>2
  <2> HIDE DEF keep
  <2> QED
    BY <1>2, <2>1, <2>3 DEF Push
<1>4. g = [i \in 0 .. n |-> Body(g, i)]
  <2>1. g[0] = Body(g, 0) /\ \A i \in 0 .. n : i = 0 \/ i \in 1 .. n
    BY <1>2
  <2>2. g = [i \in 0 .. n |-> g[i]]
    BY <1>2
  <2> HIDE DEF Body
  <2> QED
    BY <1>3, <2>1, <2>2
<1> DEFINE result == CHOOSE f : f = [i \in 0 .. n |-> Body(f, i)]
<1>5. Half(fields, labels, in) = result[n]
  BY DEF Half, Picked
<1>6. result = [i \in 0 .. n |-> Body(result, i)]
  <2> HIDE DEF Body
  <2> QED
    BY <1>4
<1> HIDE DEF result
<1>7. \A i \in 0 .. n : result[i] = Body(result, i)
  <2> HIDE DEF Body
  <2> QED
    BY <1>6
<1>8. HalfTable(fields, labels, in, result)
  <2>1. 0 \in 0 .. n /\ \A i \in 1 .. n : i \in 0 .. n /\ i # 0
    BY <1>1
  <2> QED
    BY <1>7, <2>1 DEF HalfTable
<1>9. \A i \in 0 .. n : result[i] = g[i]
  <2> DEFINE good == {i \in Nat : result[i] = g[i]}
  <2>1. 0 \in good
    BY <1>2, <1>8 DEF HalfTable
  <2>2. ASSUME NEW i \in 1 .. n, i - 1 \in good PROVE i \in good
    <3>1. i \in 0 .. n /\ result[i - 1] = g[i - 1]
      BY <2>2
    <3> QED
      BY <1>3, <1>7, <3>1
  <2> HIDE DEF good
  <2>3. \A i \in 0 .. n : i \in good
    <3> HIDE DEF n
    <3> QED
      BY <1>1, <2>1, <2>2, UpToAll
  <2> QED
    BY <2>3 DEF good
<1>10. \A i \in 0 .. n : result[i] \in Seq(X)
  BY <1>2, <1>9
<1> QED
  BY <1>5, <1>8, <1>10

\* The first field of a label, and its value.
IsFirst(fields, k, label) ==
  k \in DOMAIN fields /\ fields[k].label = label /\ \A m \in DOMAIN fields : m < k => fields[m].label # label
Lacks(fields, label) == \A k \in DOMAIN fields : fields[k].label # label

\* The value of a label is that of its first field.
LEMMA ValueIs ==
  ASSUME NEW X, NEW fields \in Seq(X), NEW label
  PROVE  /\ \A k : IsFirst(fields, k, label) => FieldValue(fields, label) = fields[k].value
         /\ Lacks(fields, label) => FieldValue(fields, label) = NoText
<1> DEFINE found == {i \in 1 .. Len(fields) : fields[i].label = label}
           first == SelectInSeq(fields, LAMBDA f : f.label = label)
<1>1. first = IF found # {} THEN Min(found) ELSE 0
  BY DEF SelectInSeq
<1>2. ASSUME NEW k, IsFirst(fields, k, label) PROVE FieldValue(fields, label) = fields[k].value
  <2>1. k \in found /\ k \in Nat /\ k # 0 /\ \A i \in found : i \in Nat /\ k <= i
    BY <1>2 DEF IsFirst
  <2>2. Min(found) = k
    <3> HIDE DEF found
    <3> DEFINE least == CHOOSE x \in found : \A y \in found : x <= y
    <3>1. least \in found /\ \A i \in found : least <= i
      BY <2>1
    <3>2. Min(found) = least
      BY DEF Min
    <3> HIDE DEF least
    <3>3. least \in Nat /\ k <= least /\ least <= k
      BY <2>1, <3>1
    <3>4. least = k
      BY <2>1, <3>3
    <3> QED
      BY <3>2, <3>4
  <2>3. first = k
    BY <1>1, <2>1, <2>2
  <2> QED
    BY <2>1, <2>3 DEF FieldValue
<1>3. ASSUME Lacks(fields, label) PROVE FieldValue(fields, label) = NoText
  <2>1. found = {}
    BY <1>3 DEF Lacks
  <2> QED
    BY <1>1, <2>1 DEF FieldValue
<1> QED
  BY <1>2, <1>3

\* Another element at the end takes no first place away.
LEMMA PlaceStays ==
  ASSUME NEW X, NEW fields \in Seq(X), NEW f \in X, NEW label, NEW k, IsFirst(fields, k, label)
  PROVE  IsFirst(Append(fields, f), k, label) /\ Append(fields, f)[k] = fields[k]
<1> DEFINE more == Append(fields, f)
<1>1. /\ DOMAIN more = 1 .. Len(fields) + 1 /\ DOMAIN fields = 1 .. Len(fields) /\ Len(fields) \in Nat
      /\ \A i \in DOMAIN fields : more[i] = fields[i]
  OBVIOUS
<1> HIDE DEF more
<1>2. k \in DOMAIN fields /\ k \in DOMAIN more /\ more[k] = fields[k]
  BY <1>1 DEF IsFirst
<1>3. ASSUME NEW m \in DOMAIN more, m < k PROVE m \in DOMAIN fields /\ more[m] = fields[m]
  BY <1>1, <1>2, <1>3
<1>4. IsFirst(more, k, label)
  BY <1>2, <1>3 DEF IsFirst
<1> QED
  BY <1>2, <1>4 DEF more

\* It is the first of its label where there was none, and brings no other.
LEMMA FirstComes ==
  ASSUME NEW X, NEW fields \in Seq(X), NEW f \in X, NEW label, Lacks(fields, label)
  PROVE  /\ f.label = label => /\ IsFirst(Append(fields, f), Len(fields) + 1, label)
                                /\ Append(fields, f)[Len(fields) + 1] = f
         /\ f.label # label => Lacks(Append(fields, f), label)
<1> DEFINE more == Append(fields, f)
<1>1. /\ DOMAIN more = 1 .. Len(fields) + 1 /\ DOMAIN fields = 1 .. Len(fields)
      /\ more[Len(fields) + 1] = f /\ \A i \in DOMAIN fields : more[i] = fields[i]
      /\ Len(fields) \in Nat
  OBVIOUS
<1>2. \A m \in DOMAIN more : m \in DOMAIN fields \/ m = Len(fields) + 1
  BY <1>1
<1>3. Len(fields) + 1 \in DOMAIN more /\ ~(Len(fields) + 1 < Len(fields) + 1)
  BY <1>1
<1> HIDE DEF more
<1>4. f.label = label => IsFirst(more, Len(fields) + 1, label)
  BY <1>1, <1>2, <1>3 DEF IsFirst, Lacks
<1>5. f.label # label => Lacks(more, label)
  BY <1>1, <1>2 DEF Lacks
<1> QED
  BY <1>1, <1>4, <1>5 DEF more

\* Two sequences of fields have the same first field of a label, or none.
Agree(half, fields, label) ==
  \/ Lacks(half, label) /\ Lacks(fields, label)
  \/ \E a, j : IsFirst(half, a, label) /\ IsFirst(fields, j, label) /\ half[a] = fields[j]

\* A half has the first field of each of its labels, and no field of others.
LEMMA HalfIs ==
  ASSUME NEW X, NEW fields \in Seq(X), NEW labels, NEW in \in BOOLEAN, NEW label
  PROVE  /\ Half(fields, labels, in) \in Seq(X)
         /\ (label \in labels) # in => Lacks(Half(fields, labels, in), label)
         /\ (label \in labels) = in => Agree(Half(fields, labels, in), fields, label)
<1> DEFINE n == Len(fields)
           mine == (label \in labels) = in
<1>1. PICK g : /\ HalfTable(fields, labels, in, g) /\ Half(fields, labels, in) = g[n]
               /\ \A i \in 0 .. n : g[i] \in Seq(X)
  BY HalfTables
<1> DEFINE NoneTo(i) == \A m \in 1 .. i : fields[m].label # label
           Met(i) == \E a, j : IsFirst(g[i], a, label) /\ IsFirst(fields, j, label) /\ g[i][a] = fields[j]
           Good(i) == IF mine THEN (Lacks(g[i], label) /\ NoneTo(i)) \/ Met(i) ELSE Lacks(g[i], label)
           good == {i \in Nat : Good(i)}
<1>2. 0 \in good
  <2>1. g[0] = <<>>
    BY <1>1 DEF HalfTable
  <2> QED
    BY <2>1 DEF Lacks
<1>3. ASSUME NEW i \in 1 .. n, i - 1 \in good PROVE i \in good
  <2> DEFINE f == fields[i]
             before == g[i - 1]
  <2>1. i - 1 \in 0 .. n /\ before \in Seq(X) /\ f \in X /\ i \in Nat /\ n \in Nat
    <3>1. i - 1 \in 0 .. n /\ f \in X /\ i \in Nat /\ n \in Nat
      OBVIOUS
    <3> QED
      BY <1>1, <3>1
  <2>2. g[i] = IF Picked(f, labels, in) THEN Append(before, f) ELSE before
    BY <1>1 DEF HalfTable
  <2>3. f.label = label => (Picked(f, labels, in) <=> mine)
    BY DEF Picked
  <2>4. NoneTo(i - 1) /\ f.label # label => NoneTo(i)
    <3>1. \A m \in 1 .. i : m \in 1 .. i - 1 \/ m = i
      BY <2>1
    <3> QED
      BY <3>1
  <2>5. NoneTo(i - 1) /\ f.label = label => IsFirst(fields, i, label)
    <3>1. \A m \in DOMAIN fields : m < i => m \in 1 .. i - 1
      BY <2>1
    <3>2. i \in DOMAIN fields
      OBVIOUS
    <3> QED
      BY <3>1, <3>2 DEF IsFirst
  <2>6. Good(i - 1)
    BY <1>3
  <2> HIDE DEF NoneTo
  <2>7. Good(i)
    <3>1. CASE Lacks(before, label) /\ ~mine
      <4>1. Picked(f, labels, in) => f.label # label
        BY <2>3, <3>1
      <4>2. Lacks(g[i], label)
        <5>1. CASE Picked(f, labels, in)
          <6>1. Lacks(Append(before, f), label)
            <7> HIDE DEF f, before
            <7> QED
              BY <2>1, <3>1, <4>1, <5>1, FirstComes
          <6> QED
            BY <2>2, <5>1, <6>1
        <5>2. CASE ~Picked(f, labels, in)
          BY <2>2, <3>1, <5>2
        <5> QED
          BY <5>1, <5>2
      <4> QED
        BY <3>1, <4>2
    <3>2. CASE Lacks(before, label) /\ NoneTo(i - 1) /\ mine /\ f.label = label
      <4>1. Picked(f, labels, in)
        BY <2>3, <3>2
      <4>2. IsFirst(Append(before, f), Len(before) + 1, label) /\ Append(before, f)[Len(before) + 1] = f
        <5> HIDE DEF f, before
        <5> QED
          BY <2>1, <3>2, FirstComes
      <4>3. IsFirst(g[i], Len(before) + 1, label) /\ g[i][Len(before) + 1] = fields[i]
        BY <2>2, <4>1, <4>2
      <4> HIDE DEF before
      <4>4. Met(i)
        BY <2>5, <3>2, <4>3
      <4> QED
        BY <3>2, <4>4
    <3>3. CASE Lacks(before, label) /\ NoneTo(i - 1) /\ mine /\ f.label # label
      <4>1. Lacks(g[i], label)
        <5>1. CASE Picked(f, labels, in)
          <6>1. Lacks(Append(before, f), label)
            <7> HIDE DEF f, before
            <7> QED
              BY <2>1, <3>3, FirstComes
          <6> QED
            BY <2>2, <5>1, <6>1
        <5>2. CASE ~Picked(f, labels, in)
          BY <2>2, <3>3, <5>2
        <5> QED
          BY <5>1, <5>2
      <4> QED
        BY <2>4, <3>3, <4>1
    <3>4. CASE mine /\ Met(i - 1)
      <4>1. PICK a, j : IsFirst(before, a, label) /\ IsFirst(fields, j, label) /\ before[a] = fields[j]
        BY <3>4
      <4>2. IsFirst(g[i], a, label) /\ g[i][a] = before[a]
        <5>1. CASE Picked(f, labels, in)
          <6>1. IsFirst(Append(before, f), a, label) /\ Append(before, f)[a] = before[a]
            <7> HIDE DEF f, before
            <7> QED
              BY <2>1, <4>1, PlaceStays
          <6> QED
            BY <2>2, <5>1, <6>1
        <5>2. CASE ~Picked(f, labels, in)
          BY <2>2, <4>1, <5>2
        <5> QED
          BY <5>1, <5>2
      <4>3. Met(i)
        <5> HIDE DEF before
        <5> QED
          BY <4>1, <4>2
      <4> QED
        BY <3>4, <4>3
    <3> HIDE DEF mine, Met, f
    <3> QED
      BY <2>6, <3>1, <3>2, <3>3, <3>4
  <2> HIDE DEF Good
  <2> QED
    BY <2>1, <2>7
<1>4. Good(n) /\ g[n] \in Seq(X)
  <2>1. n \in Nat /\ n \in 0 .. n
    OBVIOUS
  <2> HIDE DEF n, good
  <2>2. n \in good
    BY <1>2, <1>3, <2>1, UpToAll
  <2> QED
    BY <1>1, <2>1, <2>2 DEF good
<1>5. NoneTo(n) => Lacks(fields, label)
  BY DEF Lacks
<1> HIDE DEF NoneTo
<1>6. mine => Agree(g[n], fields, label)
  BY <1>4, <1>5 DEF Agree
<1>7. ~mine => Lacks(g[n], label)
  BY <1>4
<1> QED
  BY <1>1, <1>4, <1>6, <1>7

\* The two halves have the value that a label has in all fields.
LEMMA HalvesValue ==
  ASSUME NEW X, NEW fields \in Seq(X), NEW labels, NEW label
  PROVE  FieldValue(Half(fields, labels, FALSE) \o Half(fields, labels, TRUE), label) = FieldValue(fields, label)
<1> DEFINE a == Half(fields, labels, FALSE)
           b == Half(fields, labels, TRUE)
           both == a \o b
           Same(half) == Agree(half, fields, label)
<1>0. FALSE \in BOOLEAN /\ TRUE \in BOOLEAN
  OBVIOUS
<1>1. a \in Seq(X) /\ b \in Seq(X)
  BY <1>0, HalfIs, Zenon
<1>2. \/ Lacks(a, label) /\ Same(b)
      \/ Lacks(b, label) /\ Same(a)
  <2>1. /\ label \in labels => Lacks(a, label)
        /\ label \notin labels => Same(a)
    <3>1. label \in labels => (label \in labels) # FALSE
      OBVIOUS
    <3>2. label \notin labels => (label \in labels) = FALSE
      OBVIOUS
    <3> QED
      BY <1>0, <3>1, <3>2, HalfIs, Zenon
  <2>2. /\ label \notin labels => Lacks(b, label)
        /\ label \in labels => Same(b)
    <3>1. label \notin labels => (label \in labels) # TRUE
      OBVIOUS
    <3>2. label \in labels => (label \in labels) = TRUE
      OBVIOUS
    <3> QED
      BY <1>0, <3>1, <3>2, HalfIs, Zenon
  <2> HIDE DEF a, b, Same
  <2> QED
    BY <2>1, <2>2
<1> HIDE DEF a, b
<1>3. /\ both \in Seq(X) /\ Len(a) \in Nat /\ Len(b) \in Nat
      /\ DOMAIN both = 1 .. Len(a) + Len(b) /\ DOMAIN a = 1 .. Len(a) /\ DOMAIN b = 1 .. Len(b)
      /\ \A i \in DOMAIN a : both[i] = a[i]
      /\ \A i \in DOMAIN b : both[Len(a) + i] = b[i]
      /\ \A i \in DOMAIN both : i \in DOMAIN a \/ (i - Len(a) \in DOMAIN b /\ both[i] = b[i - Len(a)])
  <2>1. /\ both \in Seq(X) /\ Len(a) \in Nat /\ Len(b) \in Nat /\ Len(both) = Len(a) + Len(b)
        /\ DOMAIN both = 1 .. Len(both) /\ DOMAIN a = 1 .. Len(a) /\ DOMAIN b = 1 .. Len(b)
    BY <1>1
  <2>2. \A i \in 1 .. Len(both) : both[i] = IF i <= Len(a) THEN a[i] ELSE b[i - Len(a)]
    BY <1>1
  <2> HIDE DEF both
  <2>3. \A i \in DOMAIN a : i \in 1 .. Len(both) /\ i <= Len(a)
    BY <2>1
  <2>4. \A i \in DOMAIN both : i \in DOMAIN a \/ (i - Len(a) \in DOMAIN b /\ ~(i <= Len(a)))
    <3> DEFINE p == Len(a)
               q == Len(b)
    <3>1. p \in Nat /\ q \in Nat /\ DOMAIN both = 1 .. p + q /\ DOMAIN a = 1 .. p /\ DOMAIN b = 1 .. q
      BY <2>1
    <3> HIDE DEF p, q
    <3>2. ASSUME NEW i \in 1 .. p + q, i \notin 1 .. p PROVE i - p \in 1 .. q /\ ~(i <= p)
      <4>1. i \in Nat /\ ~(i <= p) /\ i <= p + q
        BY <3>1, <3>2
      <4> QED
        BY <3>1, <4>1
    <3>3. \A i \in DOMAIN both : i \in DOMAIN a \/ (i - p \in DOMAIN b /\ ~(i <= p))
      BY <3>1, <3>2
    <3> QED
      BY <3>3 DEF p
  <2>5. \A i \in DOMAIN a : both[i] = a[i]
    BY <2>2, <2>3
  <2>6. \A i \in DOMAIN b : both[Len(a) + i] = b[i]
    <3> SUFFICES ASSUME NEW i \in DOMAIN b PROVE both[Len(a) + i] = b[i]
      OBVIOUS
    <3> DEFINE j == Len(a) + i
    <3>1. j \in 1 .. Len(both) /\ ~(j <= Len(a)) /\ j - Len(a) = i
      <4> DEFINE p == Len(a)
                 q == Len(b)
                 r == Len(both)
      <4>1. p \in Nat /\ q \in Nat /\ r = p + q /\ i \in 1 .. q
        BY <2>1
      <4> HIDE DEF p, q, r
      <4>2. p + i \in 1 .. r /\ ~(p + i <= p) /\ p + i - p = i
        BY <4>1
      <4> QED
        BY <4>2 DEF p, r
    <3> HIDE DEF j
    <3>2. both[j] = IF j <= Len(a) THEN a[j] ELSE b[j - Len(a)]
      BY <2>2, <3>1
    <3>3. both[j] = b[i]
      BY <3>1, <3>2
    <3> QED
      BY <3>3 DEF j
  <2>7. \A i \in DOMAIN both : i \in DOMAIN a \/ (i - Len(a) \in DOMAIN b /\ both[i] = b[i - Len(a)])
    BY <2>1, <2>2, <2>4
  <2> QED
    BY <2>1, <2>5, <2>6, <2>7
<1> HIDE DEF both
<1>4. Lacks(a, label) /\ Lacks(b, label) => Lacks(both, label)
  BY <1>3 DEF Lacks
<1>5. ASSUME NEW i, Lacks(a, label), IsFirst(b, i, label)
      PROVE  IsFirst(both, Len(a) + i, label) /\ both[Len(a) + i] = b[i]
  <2>1. i \in DOMAIN b /\ i \in Nat /\ both[Len(a) + i] = b[i] /\ Len(a) + i \in DOMAIN both
    BY <1>3, <1>5 DEF IsFirst
  <2>2. ASSUME NEW m \in DOMAIN both, m < Len(a) + i PROVE both[m].label # label
    <3>1. m \in Nat /\ (m \in DOMAIN a \/ (m - Len(a) \in DOMAIN b /\ both[m] = b[m - Len(a)] /\ m - Len(a) < i))
      BY <1>3, <2>1, <2>2
    <3> QED
      BY <1>3, <1>5, <3>1 DEF IsFirst, Lacks
  <2>3. both[Len(a) + i].label = label
    BY <1>5, <2>1 DEF IsFirst
  <2> QED
    BY <2>1, <2>2, <2>3 DEF IsFirst
<1>6. ASSUME NEW i, Lacks(b, label), IsFirst(a, i, label)
      PROVE  IsFirst(both, i, label) /\ both[i] = a[i]
  <2>1. i \in DOMAIN a /\ i \in DOMAIN both /\ both[i] = a[i]
    BY <1>3, <1>6 DEF IsFirst
  <2>2. ASSUME NEW m \in DOMAIN both, m < i PROVE both[m].label # label
    <3>1. m \in DOMAIN a
      BY <1>3, <2>1, <2>2
    <3> QED
      BY <1>3, <1>6, <2>2, <3>1 DEF IsFirst
  <2> QED
    BY <1>6, <2>1, <2>2 DEF IsFirst
<1>7. Same(both)
  <2>1. CASE Lacks(a, label) /\ Same(b)
    BY <1>4, <1>5, <2>1 DEF Agree
  <2>2. CASE Lacks(b, label) /\ Same(a)
    BY <1>4, <1>6, <2>2 DEF Agree
  <2> QED
    BY <1>2, <2>1, <2>2
<1>8. FieldValue(both, label) = FieldValue(fields, label)
  <2>1. CASE Lacks(both, label) /\ Lacks(fields, label)
    BY <1>3, <2>1, ValueIs
  <2>2. ASSUME NEW i, NEW j, IsFirst(both, i, label), IsFirst(fields, j, label), both[i] = fields[j]
        PROVE  FieldValue(both, label) = FieldValue(fields, label)
    <3>1. FieldValue(both, label) = both[i].value
      BY <1>3, <2>2, ValueIs
    <3>2. FieldValue(fields, label) = fields[j].value
      BY <2>2, ValueIs
    <3> QED
      BY <2>2, <3>1, <3>2
  <2> QED
    BY <1>7, <2>1, <2>2 DEF Agree
<1> QED
  BY <1>8 DEF both, a, b

\* The classes of older pages change no field: either half may be the label.
LEMMA ReversedFields == PageTypeOK => Fields(Reversed(boxes)) = Fields(boxes)
<1> SUFFICES ASSUME PageTypeOK PROVE Fields(Reversed(boxes)) = Fields(boxes)
  OBVIOUS
<1> DEFINE other == Reversed(boxes)
           n == Len(boxes)
           Turned(box) == IF OneLabel(box) THEN [info |-> box.det, det |-> box.info] ELSE box
<1>1. boxes \in Seq(Halves) /\ n \in Nat /\ DOMAIN boxes = 1 .. n /\ \A i \in 1 .. n : boxes[i] \in Halves
  BY DEF PageTypeOK
<1>2. \A box \in Halves : Turned(box) \in Halves /\ FieldOf(Turned(box)) = FieldOf(box)
  <2> SUFFICES ASSUME NEW box \in Halves PROVE Turned(box) \in Halves /\ FieldOf(Turned(box)) = FieldOf(box)
    OBVIOUS
  <2>1. CASE OneLabel(box)
    <3> DEFINE turned == [info |-> box.det, det |-> box.info]
    <3>1. Turned(box) = turned /\ turned \in Halves /\ turned.info = box.det /\ turned.det = box.info
      BY <2>1 DEF Halves
    <3>2. \/ IsLabel(box.det) /\ ~IsLabel(box.info)
          \/ IsLabel(box.info) /\ ~IsLabel(box.det)
      BY <2>1 DEF OneLabel, IsLabel
    <3> HIDE DEF turned
    <3>3. FieldOf(turned) = FieldOf(box)
      BY <3>1, <3>2 DEF FieldOf
    <3> HIDE DEF Turned
    <3> QED
      BY <3>1, <3>3
  <2>2. CASE ~OneLabel(box)
    BY <2>2
  <2> QED
    BY <2>1, <2>2
<1> HIDE DEF Turned
<1>3. other = [i \in 1 .. n |-> Turned(boxes[i])]
  BY <1>1 DEF Reversed, Turned
<1> HIDE DEF other
<1>4. other \in Seq(Halves) /\ Len(other) = n
  <2> HIDE DEF n
  <2>1. \A i \in 1 .. n : Turned(boxes[i]) \in Halves
    BY <1>1, <1>2
  <2>2. other \in [1 .. n -> Halves]
    BY <1>3, <2>1
  <2> QED
    BY <1>1, <2>2
<1>5. \A i \in 1 .. n : FieldOf(other[i]) = FieldOf(boxes[i])
  BY <1>1, <1>2, <1>3
<1>6. Fields(other) = Fields(boxes)
  BY <1>1, <1>4, <1>5, SameFields
<1> QED
  BY <1>6 DEF other

\* An upgrade reads the owners of both lists, whichever fields are in which,
\* and leaves the rest as it was: the VIN is normalized already.
LEMMA Upgrades ==
  ASSUME PageTypeOK, NEW labels
  PROVE  LET today == Stored(boxes, jsonLd) IN
         Upgrade([fields |-> Half(today.fields, labels, FALSE),
                  normalized |-> [today.normalized EXCEPT !.owners = NoNumber]],
                 Half(today.fields, labels, TRUE)) = today.normalized
<1> DEFINE fields == Fields(boxes)
           values == Normalized(fields, jsonLd)
           plain == Half(fields, labels, FALSE)
           more == Half(fields, labels, TRUE)
           old == [fields |-> plain, normalized |-> [values EXCEPT !.owners = NoNumber]]
<1>1. fields \in Seq(FieldsOf(boxes))
  <2>1. PICK g : /\ Fields(boxes) = g[Len(boxes)]
                 /\ \A i \in 0 .. Len(boxes) : g[i] \in Seq(FieldsOf(boxes))
    BY FieldsTable DEF PageTypeOK
  <2>2. Len(boxes) \in 0 .. Len(boxes)
    BY DEF PageTypeOK
  <2> QED
    BY <2>1, <2>2
<1> HIDE DEF fields
<1>2. FieldValue(plain \o more, "owners") = FieldValue(fields, "owners")
  BY <1>1, HalvesValue
<1>3. Owners(plain \o more) = Owners(fields)
  BY <1>2 DEF Owners
<1>4. \A text : Vin(Vin(text)) = Vin(text)
  BY DEF Vin
<1> HIDE DEF plain, more
<1>5. /\ values = [vin |-> values.vin, year |-> values.year, owners |-> values.owners]
      /\ Vin(values.vin) = values.vin /\ values.owners = Owners(fields)
  BY <1>4 DEF Normalized
<1> HIDE DEF values
<1>6. Upgrade(old, more) = values
  <2>1. Upgrade(old, more) = [vin |-> Vin(values.vin), year |-> values.year, owners |-> Owners(plain \o more)]
    <3>1. old.normalized = [vin |-> values.vin, year |-> values.year, owners |-> NoNumber] /\ old.fields = plain
      BY <1>5
    <3> HIDE DEF old
    <3>2. old.normalized.vin = values.vin
      BY <3>1
    <3>3. Upgrade(old, more) = [[vin |-> values.vin, year |-> values.year, owners |-> NoNumber]
                                  EXCEPT !.vin = Vin(values.vin), !.owners = Owners(plain \o more)]
      BY <3>1, <3>2 DEF Upgrade
    <3> QED
      BY <3>3
  <2> QED
    BY <1>3, <1>5, <2>1
<1> QED
  BY <1>6 DEF Stored, old, values, plain, more, fields

\* A page of boxes is read alike by both parsers.
LEMMA PagesAgree == PageTypeOK => ParsersAgree
<1> SUFFICES ASSUME PageTypeOK PROVE ParsersAgree
  OBVIOUS
<1>1. Stored(Reversed(boxes), jsonLd) = Stored(boxes, jsonLd)
  BY ReversedFields DEF Stored
<1> QED
  BY <1>1, Upgrades DEF ParsersAgree

\* A page is composed of boxes up to its bound.
LEMMA PagesHold == PageSpec => []PageTypeOK
<1>1. PageInit => PageTypeOK
  <2> SUFFICES ASSUME PageInit PROVE PageTypeOK
    OBVIOUS
  <2>1. NoText \in LdValues
    BY DEF LdValues
  <2>2. boxes \in Seq(Halves) /\ Len(boxes) <= PageBoxes
    BY PageConstants DEF PageInit
  <2> QED
    BY <2>1, <2>2 DEF PageInit, PageTypeOK
<1>2. PageTypeOK /\ [PageNext]_pageVars => PageTypeOK'
  <2> SUFFICES ASSUME PageTypeOK, [PageNext]_pageVars PROVE PageTypeOK'
    OBVIOUS
  <2>1. ASSUME NEW box \in Halves, AddBox(box) PROVE PageTypeOK'
    <3>1. boxes \in Seq(Halves) /\ Len(boxes) < PageBoxes /\ PageBoxes \in Nat
      BY <2>1, PageConstants DEF AddBox, PageTypeOK
    <3>2. Append(boxes, box) \in Seq(Halves) /\ Len(Append(boxes, box)) <= PageBoxes
      BY <3>1
    <3> QED
      BY <2>1, <3>2 DEF AddBox, PageTypeOK
  <2>2. ASSUME NEW vin \in LdValues, NEW year \in LdValues, AddJsonLd(vin, year) PROVE PageTypeOK'
    BY <2>2 DEF AddJsonLd, PageTypeOK
  <2>3. CASE UNCHANGED pageVars
    BY <2>3 DEF pageVars, PageTypeOK
  <2> QED
    BY <2>1, <2>2, <2>3 DEF PageNext
<1> QED
  BY <1>1, <1>2, PTL DEF PageSpec

(* A page parsed today, read with its older classes, or stored by v2 and   *)
(* upgraded gives the same values: of any number of boxes, any texts and   *)
(* labels, and any bounds.                                                 *)
THEOREM ParsersAlwaysAgree == PageSpec => []ParsersAgree
BY PagesHold, PagesAgree, PTL

-----------------------------------------------------------------------------
(* The composition, MCRecords.                                             *)

\* In a behaviour of all, each component runs as it does alone.
LEMMA ComponentsRunApart ==
  RecordsSpec => /\ HistorySpec /\ MarketSpec /\ SeriesSpec /\ HeroSpec
                 /\ PageSpec /\ SavedSpec /\ FormSpec /\ LinkSpec /\ [](part \in Components)
<1>1. RecordsInit => /\ HistoryInit /\ MarketInit /\ SeriesInit /\ HeroInit
                     /\ PageInit /\ SavedInit /\ FormInit /\ LinkInit /\ part \in Components
  BY DEF RecordsInit
<1>2. ASSUME [RecordsNext]_recordsVars
      PROVE  /\ [HistoryNext]_historyVars
             /\ [MarketNext]_marketVars
             /\ [SeriesNext]_seriesVars
             /\ [HeroNext]_heroVars
             /\ [PageNext]_pageVars
             /\ [SavedNext]_savedVars
             /\ [FormNext]_formVars
             /\ [LinkNext]_linkVars
             /\ UNCHANGED part
  <2>1. CASE UNCHANGED recordsVars
    BY <2>1, Zenon DEF recordsVars
  <2>2. ASSUME NEW name, Others(name)
        PROVE  /\ name # "history" => UNCHANGED historyVars
               /\ name # "market" => UNCHANGED marketVars
               /\ name # "series" => UNCHANGED seriesVars
               /\ name # "heroes" => UNCHANGED heroVars
               /\ name # "pages" => UNCHANGED pageVars
               /\ name # "saved" => UNCHANGED savedVars
               /\ name # "form" => UNCHANGED formVars
               /\ name # "links" => UNCHANGED linkVars
               /\ UNCHANGED part
    BY <2>2, Zenon DEF Others
  <2>3. CASE HistoryNext /\ Others("history")
    BY <2>2, <2>3
  <2>4. CASE MarketNext /\ Others("market")
    BY <2>2, <2>4
  <2>5. CASE SeriesNext /\ Others("series")
    BY <2>2, <2>5
  <2>6. CASE HeroNext /\ Others("heroes")
    BY <2>2, <2>6
  <2>7. CASE PageNext /\ Others("pages")
    BY <2>2, <2>7
  <2>8. CASE SavedNext /\ Others("saved")
    BY <2>2, <2>8
  <2>9. CASE FormNext /\ Others("form")
    BY <2>2, <2>9
  <2>10. CASE LinkNext /\ Others("links")
    BY <2>2, <2>10
  <2> QED
    BY <1>2, <2>1, <2>3, <2>4, <2>5, <2>6, <2>7, <2>8, <2>9, <2>10 DEF RecordsNext
<1>3. part \in Components /\ UNCHANGED part => (part \in Components)'
  OBVIOUS
<1> QED
  BY <1>1, <1>2, <1>3, PTL
  DEF RecordsSpec, HistorySpec, MarketSpec, SeriesSpec, HeroSpec, PageSpec, SavedSpec, FormSpec, LinkSpec

\* Every component keeps its types.
THEOREM RecordsTypeCorrect == RecordsSpec => []RecordsTypeOK
<1> QED
  BY ComponentsRunApart, HistoryTypeCorrect, MarketHolds, SeriesHolds, HeroTypeCorrect, PagesHold,
     SavedTypeCorrect, FormTypeCorrect, LinkTypeCorrect, PTL DEF RecordsTypeOK

\* What holds of each component holds of them together.
THEOREM RecordsAreSafe ==
  RecordsSpec => [](/\ PagesAreHistory /\ NewestStands
                    /\ AnswersAgree /\ ParsersAgree /\ KeysSuffice /\ ComparablesLinked /\ StrategiesAgree
                    /\ SweepCovers /\ SavedReadable /\ OptionsMatchMake /\ LinksKeepScope)
<1> QED
  BY ComponentsRunApart, HistoryOfPages, NewestAlwaysStands, AnswersAlwaysAgree, ParsersAlwaysAgree, KeysAlwaysSuffice,
     ComparablesAlwaysLinked, StrategiesAlwaysAgree, SweepReachesAll, SavedStaysReadable,
     OptionsFollowMake, LinksAlwaysKeepScope, PTL
=============================================================================
