------------------------------ MODULE FilterForm ------------------------------
(***************************************************************************)
(* The make and model selects of the market filter form.  Choosing a make  *)
(* aborts the request for the models of the last one and sends its own,    *)
(* unless it is the make the page was rendered with, whose models came     *)
(* with the page.  An answer to an aborted request may be on its way: its  *)
(* handlers run, and must change nothing.  A request that takes 15 seconds *)
(* fails.  A navigation renders the form anew, for the make in the address.*)
(***************************************************************************)
EXTENDS Integers, Sequences

CONSTANTS
  Makes,        \* makes of the market; the models of a make are named by it
  MaxRequests   \* bound on the requests of a rendered form

ASSUME FormConstants == "any" \notin Makes /\ MaxRequests \in Nat

VARIABLES
  initialMake,    \* the make the page was rendered with, if any
  selectedMake, selectedModel,
  models,         \* makes whose models the model select offers
  modelsLoading, modelsError,
  request,        \* number of the current request; the others are aborted
  requests        \* what each request asked and whether it is under way

formVars == <<initialMake, selectedMake, selectedModel, models, modelsLoading,
              modelsError, request, requests>>

Unselected == "any"
MakeChoices == Makes \cup {Unselected}

FormTypeOK ==
  /\ initialMake \in MakeChoices /\ selectedMake \in MakeChoices /\ selectedModel \in MakeChoices
  /\ models \subseteq Makes
  /\ modelsLoading \in BOOLEAN /\ modelsError \in BOOLEAN
  /\ request \in 0 .. MaxRequests
  /\ \A r \in DOMAIN requests : requests[r] \in [make : MakeChoices, open : BOOLEAN]

ModelsOf(make) == IF make = Unselected THEN {} ELSE {make}

(* A page, with the models of its make; the address may name a model of it.*)
Rendered(make, model) ==
  /\ initialMake' = make /\ selectedMake' = make /\ selectedModel' = model
  /\ models' = ModelsOf(make)
  /\ modelsLoading' = FALSE /\ modelsError' = FALSE
  /\ request' = 0 /\ requests' = <<>>

FormInit ==
  /\ initialMake \in MakeChoices
  /\ selectedMake = initialMake /\ selectedModel = Unselected
  /\ models = ModelsOf(initialMake)
  /\ modelsLoading = FALSE /\ modelsError = FALSE
  /\ request = 0 /\ requests = <<>>

-----------------------------------------------------------------------------
(* selectMake up to its request.  A choice that sends none also supersedes *)
(* the request under way, with a number of its own.                        *)
Choose(make, known, ask) ==
  /\ request < MaxRequests
  /\ request' = request + 1
  /\ selectedMake' = make /\ selectedModel' = Unselected
  /\ modelsError' = FALSE
  /\ models' = known
  /\ modelsLoading' = ask
  /\ requests' = Append(requests, [make |-> make, open |-> ask])
  /\ UNCHANGED initialMake

SelectMake(make) ==
  \/ make = Unselected /\ Choose(make, {}, FALSE)
  \/ make # Unselected /\ make = initialMake /\ Choose(make, {make}, FALSE)
  \/ make # Unselected /\ make # initialMake /\ Choose(make, {}, TRUE)

ChooseMake == \E make \in MakeChoices \ {selectedMake} : SelectMake(make)
RetryModels == modelsError /\ SelectMake(selectedMake)

ChooseModel(make) ==
  /\ selectedMake # Unselected /\ ~modelsLoading
  /\ make \in models
  /\ selectedModel' = make
  /\ UNCHANGED <<initialMake, selectedMake, models, modelsLoading, modelsError, request, requests>>

-----------------------------------------------------------------------------
(* The end of request r.  Only the current one touches the form.           *)
Ends(r) ==
  /\ requests[r].open
  /\ requests' = [requests EXCEPT ![r].open = FALSE]
  /\ UNCHANGED <<initialMake, selectedMake, selectedModel, request>>

(* Mutant: the answer of any request is shown.                             *)
AnyModelsArrive(r) ==
  /\ Ends(r)
  /\ models' = {requests[r].make} /\ modelsLoading' = FALSE /\ UNCHANGED modelsError

ModelsArrive(r) ==
  /\ Ends(r)
  /\ \/ r = request /\ models' = {requests[r].make} /\ modelsLoading' = FALSE /\ UNCHANGED modelsError
     \/ r # request /\ UNCHANGED <<models, modelsLoading, modelsError>>

(* An error, a time-out, or the abort by a later choice.                   *)
ModelsFail(r) ==
  /\ Ends(r)
  /\ \/ r = request /\ models' = {} /\ modelsLoading' = FALSE /\ modelsError' = TRUE
     \/ r # request /\ UNCHANGED <<models, modelsLoading, modelsError>>

(* The form was submitted, or the address changed: a new form, for the     *)
(* make and model of the address; the old one aborts its request.          *)
Navigate ==
  \/ Rendered(selectedMake, selectedModel)
  \/ \E make \in MakeChoices : Rendered(make, Unselected)

FormNext ==
  \/ ChooseMake \/ RetryModels \/ Navigate
  \/ \E make \in Makes : ChooseModel(make)
  \/ \E r \in DOMAIN requests : ModelsArrive(r) \/ ModelsFail(r)

FormSpec == FormInit /\ [][FormNext]_formVars

-----------------------------------------------------------------------------
(* However answers, time-outs and choices interleave, the model select     *)
(* offers the models of the selected make once it is enabled, unless their *)
(* request failed; while it waits, the request it waits for is under way;  *)
(* and the selected model is one of the selected make.                     *)
OptionsMatchMake ==
  /\ ~modelsLoading /\ ~modelsError => models = ModelsOf(selectedMake)
  /\ modelsLoading => requests[request].open /\ requests[request].make = selectedMake
  /\ selectedModel # Unselected => selectedModel = selectedMake
=============================================================================
