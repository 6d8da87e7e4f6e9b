----------------------------- MODULE FilterLinks -----------------------------
(***************************************************************************)
(* The addresses of the listing and the analysis pages and the links and   *)
(* forms that lead from one to the next.  The scope of a page is what its  *)
(* address says with the defaults of the page, which are not those of the  *)
(* Product API: a link must spell out what its target would default        *)
(* differently.  The analysis page may compare two groups, whose keys      *)
(* share one address under two names.                                      *)
(*                                                                         *)
(* Of the filters, "activity" and "from", which exclude each other, stand  *)
(* for all that have no default; every parameter occurs once.              *)
(***************************************************************************)
CONSTANT Pages  \* pages of results a reader may open

ASSUME LinkConstants == "" \notin Pages /\ "1" \in Pages

VARIABLES
  address,   \* the address shown
  intended   \* history: the scope the last link or form was to lead to

linkVars == <<address, intended>>

Absent == ""
Sorts == {"lastSeenDesc", "firstSeenDesc"}
Params == {p \in [availability : {Absent, "all", "current"}, activity : {Absent, "priceReduced"},
                  from : {Absent, "2026-01-01"}, sort : Sorts \cup {Absent}, page : Pages \cup {Absent}] :
             p.activity = Absent \/ p.from = Absent}
NoParams == [availability |-> Absent, activity |-> Absent, from |-> Absent, sort |-> Absent, page |-> Absent]
Address == [path : {"/listings", "/analyze"}, primary : Params, comparing : BOOLEAN, comparison : Params]

-----------------------------------------------------------------------------
(* The Product API's reading and writing of a query.                       *)
Or(value, default) == IF value = Absent THEN default ELSE value
Parse(p) == [p EXCEPT !.availability = Or(@, "all"), !.sort = Or(@, "lastSeenDesc"), !.page = Or(@, "1")]
Unless(value, default) == IF value = default THEN Absent ELSE value
FormatQuery(q) == [q EXCEPT !.availability = Unless(@, "all"), !.sort = Unless(@, "lastSeenDesc"),
                            !.page = Unless(@, "1")]
ToAnalysis(q) == [q EXCEPT !.sort = "lastSeenDesc", !.page = "1"]

(* Mutant: the browser's links leave the API's defaults out.               *)
FormatApiDefaults(q) == FormatQuery(q)

FormatPageFilters(q) == [FormatQuery(q) EXCEPT !.availability = q.availability, !.sort = q.sort]

(* An analysis query has neither sort nor page to write.                   *)
FormatAnalysis(q) == [FormatPageFilters(ToAnalysis(q)) EXCEPT !.sort = Absent, !.page = Absent]

-----------------------------------------------------------------------------
(* The params a page renders from, with its defaults, and their reading.   *)
PageParams(a) ==
  [a EXCEPT !.primary.availability = Or(@, "current"),
            !.primary.sort = IF a.path = "/listings" THEN Or(@, "firstSeenDesc") ELSE @]
ResearchQuery(p) == Parse([p EXCEPT !.availability = Or(@, "current")])

Scope(a) ==
  [path |-> a.path,
   primary |-> IF a.path = "/listings" THEN Parse(PageParams(a).primary) ELSE ResearchQuery(PageParams(a).primary),
   comparison |-> IF a.comparing THEN {ResearchQuery(a.comparison)} ELSE {}]

LinkTypeOK == address \in Address

LinkInit ==
  /\ address \in [path : {"/listings", "/analyze"}, primary : Params, comparing : {FALSE}, comparison : {NoParams}]
  /\ intended = Scope(address)

Follow(a, scope) == address' = a /\ intended' = scope

Here == PageParams(address)
Now == Scope(address)
Compared == ResearchQuery(address.comparison)
Query == Now.primary

-----------------------------------------------------------------------------
(* The listing page.                                                       *)
Listings(p) == [path |-> "/listings", primary |-> p, comparing |-> FALSE, comparison |-> NoParams]
Analyze(p) == [Listings(p) EXCEPT !.path = "/analyze"]

PageHref(n) ==
  Follow(Listings(FormatPageFilters([Query EXCEPT !.page = n])), [Now EXCEPT !.primary.page = n])
ReturnToListings == Follow(Listings(FormatPageFilters(Query)), Now)
SortListings(sort) ==
  Follow(Listings([FormatPageFilters(Query) EXCEPT !.sort = sort, !.page = Absent]),
         [Now EXCEPT !.primary.sort = sort, !.primary.page = "1"])
AnalyticsHref ==
  Follow(Analyze(FormatAnalysis(Query)),
         [Now EXCEPT !.path = "/analyze", !.primary = ToAnalysis(Query)])

(* The form has no dates; what the reader leaves is sent as it was shown.  *)
SubmitListings(availability, activity) ==
  LET form == [Here.primary EXCEPT !.availability = availability, !.activity = activity,
                                   !.from = Absent, !.page = Absent]
  IN  Follow(Listings(FormatPageFilters(Parse(form))),
             [Now EXCEPT !.primary.availability = availability, !.primary.activity = activity,
                         !.primary.from = Absent, !.primary.page = "1"])

ListingLinks ==
  /\ address.path = "/listings"
  /\ \/ \E n \in Pages : PageHref(n)
     \/ ReturnToListings
     \/ \E sort \in Sorts : SortListings(sort)
     \/ AnalyticsHref
     \/ \E availability \in {"all", "current"}, activity \in {Absent, "priceReduced"} :
          SubmitListings(availability, activity)

-----------------------------------------------------------------------------
(* The analysis page.  researchHref keeps every parameter but the page of  *)
(* its group.                                                              *)
ResearchPage(n) == Follow([Here EXCEPT !.primary.page = n], [Now EXCEPT !.primary.page = n])
ComparisonPage(n) ==
  /\ address.comparing
  /\ Follow([Here EXCEPT !.comparison.page = n], [Now EXCEPT !.comparison = {[Compared EXCEPT !.page = n]}])
ReturnToResearch == Follow(Here, Now)
SortResearch(sort) ==
  Follow([Here EXCEPT !.primary.sort = sort, !.primary.page = Absent],
         [Now EXCEPT !.primary.sort = sort, !.primary.page = "1"])
SortComparison(sort) ==
  /\ address.comparing
  /\ Follow([Here EXCEPT !.comparison.sort = sort, !.comparison.page = Absent],
            [Now EXCEPT !.comparison = {[Compared EXCEPT !.sort = sort, !.page = "1"]}])
OpenBucket(from) ==
  Follow([Here EXCEPT !.primary.from = from, !.primary.activity = Absent, !.primary.page = Absent],
         [Now EXCEPT !.primary.from = from, !.primary.activity = Absent, !.primary.page = "1"])

CloneComparison ==
  /\ ~address.comparing
  /\ Follow([Here EXCEPT !.primary.page = Absent, !.comparing = TRUE,
                         !.comparison = [FormatPageFilters(Query) EXCEPT !.page = Absent]],
            [Now EXCEPT !.primary.page = "1", !.comparison = {[Query EXCEPT !.page = "1"]}])
SwapGroups ==
  /\ address.comparing
  /\ Follow([Here EXCEPT !.primary = FormatPageFilters(Compared), !.comparison = FormatPageFilters(Query)],
            [Now EXCEPT !.primary = Compared, !.comparison = {Query}])
RemoveComparison ==
  /\ address.comparing
  /\ Follow(Analyze([Here.primary EXCEPT !.page = Query.page]), [Now EXCEPT !.comparison = {}])
ExploreComparison ==
  /\ address.comparing
  /\ Follow(Analyze([FormatPageFilters(Compared) EXCEPT !.page = Absent]),
            [Now EXCEPT !.primary = [Compared EXCEPT !.page = "1"], !.comparison = {}])

(* A form sends its group as an analysis query and keeps the other group.  *)
Edited(p, availability, activity, from) ==
  FormatAnalysis(Parse([p EXCEPT !.availability = availability, !.activity = activity, !.from = from]))
Filtered(q, availability, activity, from) ==
  [ToAnalysis(q) EXCEPT !.availability = availability, !.activity = activity, !.from = from]
SubmitPrimary(availability, activity, from) ==
  Follow([Here EXCEPT !.primary = Edited(Here.primary, availability, activity, from)],
         [Now EXCEPT !.primary = Filtered(Query, availability, activity, from)])
SubmitComparison(availability, activity, from) ==
  /\ address.comparing
  /\ Follow([Here EXCEPT !.comparison = Edited(FormatPageFilters(Compared), availability, activity, from)],
            [Now EXCEPT !.comparison = {Filtered(Compared, availability, activity, from)}])

ResearchLinks ==
  /\ address.path = "/analyze"
  /\ \/ \E n \in Pages : ResearchPage(n) \/ ComparisonPage(n)
     \/ ReturnToResearch
     \/ \E sort \in Sorts : SortResearch(sort) \/ SortComparison(sort)
     \/ OpenBucket("2026-01-01")
     \/ CloneComparison \/ SwapGroups \/ RemoveComparison \/ ExploreComparison
     \/ \E availability \in {"all", "current"}, activity \in {Absent, "priceReduced"}, from \in {Absent, "2026-01-01"} :
          /\ activity = Absent \/ from = Absent
          /\ \/ SubmitPrimary(availability, activity, from)
             \/ SubmitComparison(availability, activity, from)

LinkNext == ListingLinks \/ ResearchLinks

LinkSpec == LinkInit /\ [][LinkNext]_linkVars

-----------------------------------------------------------------------------
(* After any sequence of links and forms, the page shows the scope the     *)
(* last of them was to lead to: paging, sorting, returning from a listing, *)
(* comparing, swapping and applying a form change no filter of either      *)
(* group but those they are for, and no default replaces one.              *)
LinksKeepScope == Scope(address) = intended
=============================================================================
