----------------------------- MODULE MCRecords -----------------------------
(***************************************************************************)
(* The components that keep records of the market and answer questions     *)
(* about it, each on a small instance.  They share no state here: stored   *)
(* galleries, snapshots and sightings are inputs of the modules that read  *)
(* them.  A behaviour is one of one component, "part"; the others rest.    *)
(***************************************************************************)
EXTENDS ListingHistory, MarketQueries, MarketSeries, HeroArchive, DetailPages,
        SavedWorkspace, FilterForm, FilterLinks, TLC

CONSTANTS This, That  \* what pages say

VARIABLE part

recordsVars == <<historyVars, marketVars, seriesVars, heroVars, pageVars,
                 savedVars, formVars, linkVars, part>>

-----------------------------------------------------------------------------
(* A card says nothing of what only detail pages tell, and the detail      *)
(* pages say another mileage than the card, or nothing of it.              *)
MCAttributes == {"offer", "vehicle", "equipment"}
Says(offer, vehicle, equipment) == [offer |-> offer, vehicle |-> vehicle, equipment |-> equipment]
MCCardStates == {Says(This, This, Unknown), Says(That, This, Unknown)}
MCDetailStates == {Says(Unknown, That, Unknown), Says(Unknown, Unknown, That)}

(* Listings with their latest snapshots, told by their differences from a  *)
(* common car: labels in two languages and unknown ones, missing values,   *)
(* equal sort keys, and values at and next to the bounds of activity,      *)
(* mileage and years.  Comparable cars within the reach of 2 km and        *)
(* others within 20% only.                                                 *)
Car == [make |-> "toyota", model |-> "yaris", sellerType |-> "dealer", bodyType |-> "sedan",
        fuelType |-> "bensiini", transmission |-> "manuaali", year |-> 3, availability |-> "active",
        asking |-> 3, sold |-> 0, mileage |-> 18, first |-> 1, last |-> 9, prices |-> <<>>]
At(t, price) == [at |-> t, price |-> price]

MCStock == {
  [Car EXCEPT !.prices = <<At(1, 4), At(8, 3)>>],
  [Car EXCEPT !.fuelType = "Petrol", !.transmission = "Manual", !.mileage = 15, !.year = 3, !.first = 8, !.prices = <<At(8, 3)>>],
  [Car EXCEPT !.fuelType = "null", !.bodyType = "null", !.mileage = 15, !.year = 2, !.asking = 2, !.first = 9],
  [Car EXCEPT !.fuelType = "Diesel", !.availability = "sold", !.asking = 0, !.sold = 2, !.year = 1, !.mileage = 9, !.last = 5, !.prices = <<At(1, 3), At(2, 2)>>],
  [Car EXCEPT !.fuelType = "diesel", !.transmission = "steam", !.availability = "sold", !.asking = 0, !.sold = 5, !.year = 1, !.mileage = 11, !.first = 7],
  [Car EXCEPT !.make = "volvo", !.model = "v70", !.sellerType = "private", !.bodyType = "wagon", !.fuelType = "diesel", !.year = -1,
              !.mileage = -1, !.asking = 2, !.first = 2, !.last = 7, !.prices = <<At(2, 3), At(3, 4), At(7, 2)>>],
  [Car EXCEPT !.make = "null", !.model = "yaris", !.fuelType = "steam", !.availability = "unknown", !.last = 2, !.prices = <<At(1, 3), At(2, 2)>>],
  [Car EXCEPT !.make = "volvo", !.model = "null", !.transmission = "Manual", !.availability = "sold", !.asking = 0, !.sold = 2, !.year = 9,
              !.mileage = 0, !.last = 2, !.prices = <<At(1, 2)>>]}
MCSynonyms == [fuelType |-> "bensiini" :> "Petrol" @@ "diesel" :> "Diesel",
               transmission |-> "manuaali" :> "Manual"]
MCLower == [w \in {"bensiini", "diesel", "manuaali", "steam"} |-> w]
           @@ "Petrol" :> "petrol" @@ "Diesel" :> "diesel" @@ "Manual" :> "manual"

(* Filters of the fields that answers count on together, and of each other *)
(* field alone.                                                            *)
SoleValues == [
  make |-> {"toyota"}, model |-> {"yaris"}, sellerType |-> {"dealer"}, bodyType |-> {"sedan"},
  fuelType |-> {"Petrol", "Diesel"}, transmission |-> {"manuaali"}, modelYear |-> {3}, modelYearFrom |-> {2, 3},
  modelYearTo |-> {3}, priceMin |-> {3}, priceMax |-> {2}, mileageMin |-> {10}, mileageMax |-> {15},
  availability |-> {"sold"}, activity |-> {"firstObserved"}, from |-> {2}, to |-> {4},
  interval |-> {"day", "month"}]
MCQuestions ==
  {[Everything EXCEPT !.make = make, !.fuelType = fuel, !.availability = av, !.activity = activity] :
     make \in {"toyota", "null"}, fuel \in {"bensiini", "null"},
     av \in {"all", "current", "sold"}, activity \in {"null", "firstObserved", "priceReduced"}}
  \cup UNION {{[Everything EXCEPT ![f] = v] : v \in SoleValues[f]} : f \in FilterFields}

(* Runs of both kinds, some in one week or month, on a short calendar.     *)
MCRuns == [kind : {"current"}, day : {1, 2, 4, 5}] \cup [kind : {"sold"}, day : {2, 5}]
MCTrunc == [day |-> [d \in 1 .. 5 |-> d], week |-> [d \in 1 .. 5 |-> 2 * (d \div 2)],
            month |-> [d \in 1 .. 5 |-> 4 * (d \div 4)]]

(* Halves of boxes: a label with two spellings, values in and out of their *)
(* bounds, one that is a VIN and has digits, and nothing.                  *)
MCTexts == {"owners", "owners now", "vin", "year", "2", "500", "V", ""}
MCKnownLabels == "owners" :> "owners" @@ "owners now" :> "owners" @@ "vin" :> "vin" @@ "year" :> "year"
MCNumbers == "2" :> 2 @@ "500" :> 500 @@ "V" :> 16000001

MCSymmetry == Permutations(Assets) \cup Permutations(Photos)

-----------------------------------------------------------------------------
Components == {"history", "market", "series", "heroes", "pages", "saved", "form", "links"}

(* A component that rests is in its least state, without a sweep that has *)
(* anything to do; one that runs has a sweep that goes on to a second      *)
(* batch, after a listing with a gallery or one without.                   *)
RecordsInit ==
  /\ part \in Components
  /\ HistoryInit /\ SeriesInit /\ PageInit
  /\ MarketInit /\ (part # "market" =>
       stock = [i \in ListingIds |-> CHOOSE l \in Stock : l.availability = "unknown"])
  /\ HeroInit /\ (IF part = "heroes" THEN 2 \in meant ELSE meant = {} /\ ~enabled)
  /\ SavedInit /\ (part # "saved" => earlier = {})
  /\ FormInit /\ (part # "form" => initialMake = Unselected)
  /\ LinkInit /\ (part # "links" => address = Listings(NoParams))

Others(name) ==
  /\ UNCHANGED part
  /\ name # "history" => UNCHANGED historyVars
  /\ name # "market" => UNCHANGED marketVars
  /\ name # "series" => UNCHANGED seriesVars
  /\ name # "heroes" => UNCHANGED heroVars
  /\ name # "pages" => UNCHANGED pageVars
  /\ name # "saved" => UNCHANGED savedVars
  /\ name # "form" => UNCHANGED formVars
  /\ name # "links" => UNCHANGED linkVars

RecordsNext ==
  \/ part = "history" /\ HistoryNext /\ Others("history")
  \/ part = "market" /\ MarketNext /\ Others("market")
  \/ part = "series" /\ SeriesNext /\ Others("series")
  \/ part = "heroes" /\ HeroNext /\ Others("heroes")
  \/ part = "pages" /\ PageNext /\ Others("pages")
  \/ part = "saved" /\ SavedNext /\ Others("saved")
  \/ part = "form" /\ FormNext /\ Others("form")
  \/ part = "links" /\ LinkNext /\ Others("links")

RecordsSpec == RecordsInit /\ [][RecordsNext]_recordsVars

-----------------------------------------------------------------------------
(* The type invariants of the components.                                  *)
RecordsTypeOK ==
  /\ part \in Components
  /\ HistoryTypeOK /\ MarketTypeOK /\ SeriesTypeOK /\ HeroTypeOK /\ PageTypeOK
  /\ SavedTypeOK /\ FormTypeOK /\ LinkTypeOK
=============================================================================
