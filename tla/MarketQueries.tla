--------------------------- MODULE MarketQueries ---------------------------
(***************************************************************************)
(* The queries of the public API over the observed market (product.ts,     *)
(* research.ts, vehicle-categories.ts, the cache keys of api-app.ts): one  *)
(* filter is compiled into many statements - pages of a search, counts,    *)
(* facets, comparable cars - which must agree.                             *)
(*                                                                         *)
(* A behaviour picks a stock of listings and asks questions of it.  A      *)
(* filter has all its fields; of the answers medians, labels and formats   *)
(* are left out.  The statements of a question read a database that does   *)
(* not change between them.                                                *)
(***************************************************************************)
EXTENDS Integers, Sequences, FiniteSets, FiniteSetsExt, Functions, SequencesExt

CONSTANTS
  Stock,       \* the listings a stock may have, with their latest snapshots
  StockSize,   \* how many listings: their ids are 1 .. StockSize
  Questions,   \* the filters asked about
  Synonyms,    \* fuels and transmissions of vehicle-categories.ts, by kind:
               \* the categories of source labels in lower case
  Lower,       \* labels and categories trimmed and in lower case
  LastPage,    \* MAX_LISTING_PAGE
  Reach,       \* the mileage by which comparable cars may differ, 25 000
  MileageCap,  \* the highest mileage taken for valid, 2 000 000
  LeastYear, MostYear,  \* the years a filter may ask for
  BucketKm,    \* the mileage of one bar of a chart, 25 000
  ActiveDays,  \* the days of recent activity, 7
  Runs,        \* complete runs: the kind of their query and the day they ended
  Today, Lookback,      \* the days of the series when no day is asked for, 365
  Trunc        \* date_trunc: the day a bucket starts, by interval and day

VARIABLES
  stock,    \* listings joined with their latest snapshots, by id
  question  \* the filter asked about

marketVars == <<stock, question>>

Null == "null"
Unset == -1  \* no number
ListingIds == 1 .. StockSize

(* The fields of a filter: labels are compared as they are, categories in  *)
(* the words of vehicle-categories.ts.                                     *)
LabelFields == {"make", "model", "sellerType", "bodyType"}
CategoryFields == {"fuelType", "transmission"}
NumberFields == {"modelYear", "modelYearFrom", "modelYearTo",
                 "priceMin", "priceMax", "mileageMin", "mileageMax"}
SnapshotFields == LabelFields \cup CategoryFields \cup NumberFields \cup {"availability", "activity"}
FilterFields == SnapshotFields \cup {"from", "to", "interval"}

Everything ==
  [f \in FilterFields |-> CASE f \in NumberFields \cup {"from", "to"} -> Unset
                            [] f = "availability" -> "all"
                            [] f = "interval" -> "week"
                            [] OTHER -> Null]

ASSUME MarketConstants == /\ {StockSize, LastPage, BucketKm} \subseteq Nat \ {0}
                          /\ {Reach, MileageCap, ActiveDays, LeastYear, MostYear} \subseteq Nat

(* A listing was first seen no later than last (persistNettiautoListing).  *)
ASSUME MarketListings == \A l \in Stock :
  /\ l.availability \in {"active", "sold", "unknown"}
  /\ {l.asking, l.sold, l.first, l.last} \subseteq Nat /\ l.first <= l.last
  /\ {l.mileage, l.year} \subseteq Nat \cup {Unset} /\ l.prices \in Seq([at : Nat, price : Nat])

(* What a query is parsed to: a field that is not given has its default.   *)
ASSUME MarketQuestions == \A q \in Questions :
  /\ q = [f \in FilterFields |-> q[f]]
  /\ q.availability \in {"all", "current", "sold"}
  /\ q.activity \in {Null, "firstObserved", "priceReduced"}
  /\ \A f \in NumberFields : q[f] \in Nat \cup {Unset}

(* The tables of vehicle-categories.ts: categories differ in lower case,   *)
(* and one that is also a label stands for itself.                         *)
ASSUME MarketCategories == \A k \in CategoryFields : LET categories == Range(Synonyms[k]) IN
  /\ Null \notin categories
  /\ \A c \in categories : Lower[c] \in DOMAIN Synonyms[k] => Synonyms[k][Lower[c]] = c
  /\ \A c, d \in categories : Lower[c] = Lower[d] => c = d

MarketInit == stock \in [ListingIds -> Stock] /\ question = Everything

(* A route parses a query and runs its statements: one of each kind.       *)
Ask(q) == question = Everything /\ question' = q /\ UNCHANGED stock

MarketNext == \E q \in Questions : Ask(q)
MarketSpec == MarketInit /\ [][MarketNext]_marketVars

-----------------------------------------------------------------------------
(* normalizeVehicleCategory: a label of the table, or a category itself.   *)
NormalizeVehicleCategory(label, kind) ==
  LET Labels == Synonyms[kind]
      Named == {c \in Range(Labels) : Lower[c] = Lower[label]}
  IN IF label = Null THEN Null
     ELSE IF Lower[label] \in DOMAIN Labels THEN Labels[Lower[label]]
     ELSE IF Named # {} THEN CHOOSE c \in Named : TRUE ELSE Null

(* categorySql: a case with one arm per label of the table, then one per   *)
(* category in lower case.  lower(trim()) and trim().toLowerCase() give    *)
(* the same for the labels of the source.                                  *)
Arms(kind) ==
  LET Labels == Synonyms[kind]
      Canonical == {Lower[c] : c \in Range(Labels)}
  IN [w \in DOMAIN Labels \cup Canonical |->
        IF w \in DOMAIN Labels THEN Labels[w] ELSE CHOOSE c \in Range(Labels) : Lower[c] = w]

CategorySql(label, kind) ==
  IF label # Null /\ Lower[label] \in DOMAIN Arms(kind) THEN Arms(kind)[Lower[label]] ELSE Null

(* Stored prices are positive; an asking price comes before a sold one.    *)
ListingPrice(l) == IF l.asking > 0 THEN l.asking ELSE IF l.sold > 0 THEN l.sold ELSE Unset

OfAvailability(av) == {i \in ListingIds : stock[i].availability \in
  (CASE av = "current" -> {"active"} [] av = "sold" -> {"sold"} [] av = "all" -> {"active", "sold"})}

(* The newest sighting of an active listing is the anchor of activity: an  *)
(* empty market has none.                                                  *)
Anchor == Max({stock[i].last : i \in OfAvailability("current")} \cup {-1})

Recent(t) == Anchor # -1 /\ t >= Anchor - ActiveDays /\ t <= Anchor

(* Reductions of the asking price, each with its time, by one list of      *)
(* prices a listing has had while it was active.                           *)
Reductions(l) == {n \in 2 .. Len(l.prices) : l.prices[n].price < l.prices[n - 1].price}
Active(l, activity) == CASE activity = "firstObserved" -> Recent(l.first)
                         [] activity = "priceReduced"  -> \E n \in Reductions(l) : Recent(l.prices[n].at)

(* buildFilterWhere: a column that is null is within no bound.             *)
AtLeast(v, bound) == bound # Unset => v # Unset /\ bound <= v
AtMost(v, bound) == bound # Unset => v # Unset /\ v <= bound

Matches(q) == {i \in OfAvailability(q.availability) : LET l == stock[i] IN
  /\ \A f \in LabelFields : q[f] # Null => l[f] = q[f]
  /\ q.modelYear # Unset => l.year = q.modelYear
  /\ AtLeast(l.year, q.modelYearFrom) /\ AtMost(l.year, q.modelYearTo)
  /\ AtLeast(ListingPrice(l), q.priceMin) /\ AtMost(ListingPrice(l), q.priceMax)
  /\ AtLeast(l.mileage, q.mileageMin) /\ AtMost(l.mileage, q.mileageMax)
  /\ \A k \in CategoryFields : q[k] # Null =>
       CategorySql(l[k], k) # Null /\ CategorySql(l[k], k) = CategorySql(q[k], k)
  /\ q.activity # Null => Active(l, q.activity)}

-----------------------------------------------------------------------------
(* sortToOrderBy: the value first, none last, then the id.                 *)
SortKey(l, sort) == CASE sort = "priceAsc"     -> IF ListingPrice(l) = Unset THEN 1000 ELSE ListingPrice(l)
                      [] sort = "firstSeenDesc" -> 0 - l.first
                      [] sort = "lastSeenDesc"  -> 0 - l.last

Before(i, j, sort) == SortKey(stock[i], sort) < SortKey(stock[j], sort)
                      \/ (SortKey(stock[i], sort) = SortKey(stock[j], sort) /\ i < j)

(* searchListings: limit and offset in the order of the sort.              *)
Page(q, sort, page, size) ==
  LET found == Matches(q)
      Offset(i) == Cardinality({j \in found : Before(j, i, sort)})
  IN {i \in found : (page - 1) * size <= Offset(i) /\ Offset(i) < page * size}

(* countListingMatches counts listings alone when no filter needs more.    *)
SnapshotFiltersBefore(q) == \E f \in SnapshotFields \ {"availability", "activity"} : q[f] # Everything[f]
SnapshotFilters(q) == \E f \in SnapshotFields \ {"availability"} : q[f] # Everything[f]
CountMatches(q) == Cardinality(IF SnapshotFilters(q) THEN Matches(q) ELSE OfAvailability(q.availability))

TotalPages(n, size) == Min({LastPage, Max({1, (n + size - 1) \div size})})

(* getSummaryAndCoverage, and the charts: one count per group that has     *)
(* cars; a car without a valid value of its own is in none of them.        *)
SummaryOf(q) == [listings |-> Cardinality(Matches(q)),
                 active |-> Cardinality({i \in Matches(q) : stock[i].availability = "active"}),
                 sold |-> Cardinality({i \in Matches(q) : stock[i].availability = "sold"})]

GroupCounts(grouped) ==
  [g \in {c[2] : c \in grouped} |-> Cardinality({c \in grouped : c[2] = g})]

PriceByMileageBucket(q) ==
  LET Start(i) == (stock[i].mileage \div BucketKm) * BucketKm
  IN GroupCounts({<<i, Start(i)>> : i \in {j \in Matches(q) : stock[j].mileage \in 0 .. MileageCap}})

PriceByCategory(q, k) ==
  LET Category(i) == CategorySql(stock[i][k], k)
  IN GroupCounts({<<i, Category(i)>> : i \in {j \in Matches(q) : Category(j) # Null}})

(* getListingObservationContext: the prices on the page of a listing, of   *)
(* all its snapshots, and how often they changed.                          *)
PricesShown(l) == [n \in DOMAIN l.prices |-> l.prices[n].price] \o (IF l.sold > 0 THEN <<l.sold>> ELSE <<>>)
RecordedChanges(l) == {n \in 2 .. Len(PricesShown(l)) : PricesShown(l)[n] # PricesShown(l)[n - 1]}

(* queryFacets: models of the make that was asked for; years and           *)
(* categories of what is left by make and model.                           *)
ModelsOffered(q) == {l.model : l \in {m \in Range(stock) : q.make # Null /\ m.make = q.make}} \ {Null}
Chosen(q) == {l \in Range(stock) : \A f \in {"make", "model"} : q[f] # Null => l[f] = q[f]}
YearRange(listings) == LET years == {l.year : l \in listings} \ {Unset}
                       IN IF years = {} THEN {} ELSE {Min(years), Max(years)}

FacetsOf(q) ==
  [f \in LabelFields \cup CategoryFields \cup {"yearRange"} |->
     CASE f = "model" -> ModelsOffered(q)
       [] f \in LabelFields \ {"model"} -> {l[f] : l \in Range(stock)} \ {Null}
       [] f \in CategoryFields -> {CategorySql(l[f], f) : l \in Chosen(q)} \ {Null}
       [] f = "yearRange" -> YearRange(Chosen(q))]

(* getDatasetOverview *)
OverviewCounts ==
  LET current == OfAvailability("current") IN
  [current |-> Cardinality(current),
   archived |-> Cardinality(OfAvailability("sold")),
   firstObserved |-> Cardinality({i \in current : stock[i].first >= Anchor - ActiveDays}),
   reduced |-> Cardinality({i \in current : \E n \in Reductions(stock[i]) : Recent(stock[i].prices[n].at)})]

(* buildCompletedRunTimeWhere, and the newest run of each kind in a bucket *)
(* (getMarketOverTime): the runs whose sightings a series shows.           *)
WindowRuns(q) == {r \in Runs :
  /\ q.availability # "all" => r.kind = q.availability
  /\ q.from # Unset => q.from <= r.day
  /\ q.from = Unset /\ q.to # Unset => q.to - Lookback <= r.day
  /\ q.to # Unset => r.day <= q.to
  /\ q.from = Unset /\ q.to = Unset => Today - Lookback <= r.day}

BucketOf(r, q) == Trunc[q.interval][r.day]
NewestRuns(q) == {r \in WindowRuns(q) : \A other \in WindowRuns(q) :
  other.kind = r.kind /\ BucketOf(other, q) = BucketOf(r, q) => other.day <= r.day}

(* A series: buckets with their runs, and the listings its filter finds.   *)
SeriesOf(q) == [buckets |-> {<<BucketOf(r, q), r>> : r \in NewestRuns(q)}, found |-> Matches(q)]

(* filterMetadataCacheKey, analyticsSnapshotCacheKey and                   *)
(* analyticsTimeSeriesCacheKey                                             *)
FacetsKey(q) == Restrict(q, {"make", "model"})
SnapshotKeyBefore(q) == Restrict(q, SnapshotFields \ {"activity"})
SnapshotKey(q) == Restrict(q, SnapshotFields)
TimeSeriesKey(q) == <<SnapshotKey(q), Restrict(q, {"from", "to", "interval"})>>

-----------------------------------------------------------------------------
(* getListingMarketPriceContext: cars like the target, whatever their      *)
(* availability is, so long as it is the target's.                         *)
PriceBasis(l) == IF l.asking # 0 THEN "asking" ELSE "sold"
PriceBy(l, basis) == IF basis = "asking" THEN l.asking ELSE l.sold

(* max(25 000, 20%), in fifths of a kilometre. The statement compares with *)
(* exact numbers; the link rounds them down and up.                        *)
Spread(m) == Max({5 * Reach, m})
Within(m, target) ==
  /\ m # Unset /\ target \in 0 .. MileageCap
  /\ Max({0, 5 * target - Spread(target)}) <= 5 * m
  /\ 5 * m <= Min({5 * MileageCap, 5 * target + Spread(target)})
LeastKmBefore(m) == Max({0, m - Reach})
LeastKm(m) == Max({0, (5 * m - Spread(m)) \div 5})
MostKm(m) == Min({MileageCap, (5 * m + Spread(m) + 4) \div 5})

Comparable(t) == {i \in ListingIds \ {t} : LET l == stock[i] target == stock[t] IN
  /\ \A f \in {"make", "model"} : target[f] # Null /\ l[f] = target[f]
  /\ l.availability = target.availability
  /\ target.year # Unset /\ l.year # Unset /\ l.year \in target.year - 1 .. target.year + 1
  /\ Within(l.mileage, target.mileage)
  /\ \A k \in CategoryFields : CategorySql(target[k], k) # Null =>
       CategorySql(l[k], k) = CategorySql(target[k], k)
  /\ target.bodyType # Null => l.bodyType = target.bodyType
  /\ PriceBy(l, PriceBasis(target)) > 0}

(* comparisonHref: what is not known is not in the link.                   *)
ComparisonLink(t) ==
  LET target == stock[t]
      km == target.mileage
  IN [f \in FilterFields |->
        CASE f \in {"make", "model", "bodyType"} -> target[f]
          [] f \in CategoryFields -> NormalizeVehicleCategory(target[f], f)
          [] f = "modelYearFrom" /\ target.year > 0 -> target.year - 1
          [] f = "modelYearTo" /\ target.year > 0 -> target.year + 1
          [] f = "mileageMin" /\ km \in 0 .. MileageCap -> LeastKm(km)
          [] f = "mileageMax" /\ km \in 0 .. MileageCap -> MostKm(km)
          [] f = "availability" -> IF target.availability = "active" THEN "current" ELSE "sold"
          [] OTHER -> Everything[f]]

(* What the link shows: nothing when its years are not in the schema.      *)
LinkShows(t) ==
  IF \A f \in {"modelYearFrom", "modelYearTo"} :
       ComparisonLink(t)[f] # Unset => ComparisonLink(t)[f] \in LeastYear .. MostYear
  THEN Matches(ComparisonLink(t)) ELSE {}

-----------------------------------------------------------------------------
MarketTypeOK == stock \in [ListingIds -> Stock] /\ question \in Questions \cup {Everything}

(* Every match can be reached by the facets that are offered for its make  *)
(* and model.                                                              *)
FacetsReach == \A i \in Matches(question) :
  LET l == stock[i]
      offered == FacetsOf([question EXCEPT !.make = l.make, !.model = l.model])
  IN /\ \A f \in LabelFields : l[f] # Null /\ (f = "model" => l.make # Null) => l[f] \in offered[f]
     /\ \A k \in CategoryFields : CategorySql(l[k], k) # Null =>
          /\ CategorySql(l[k], k) \in offered[k]
          /\ question[k] = Null => i \in Matches([question EXCEPT ![k] = CategorySql(l[k], k)])

(* Every bar of a chart counts the cars its filter finds, and a car that   *)
(* is found as reduced has a change of its price on its page.              *)
ChartsAgree ==
  LET Count(q) == Cardinality(Matches(q))
      buckets == PriceByMileageBucket(question)
  IN /\ \A k \in CategoryFields : question[k] = Null =>
          \A c \in DOMAIN PriceByCategory(question, k) :
            PriceByCategory(question, k)[c] = Count([question EXCEPT ![k] = c])
     /\ question.mileageMin = Unset /\ question.mileageMax = Unset =>
          \A km \in DOMAIN buckets : buckets[km] = Count([question EXCEPT
            !.mileageMin = km, !.mileageMax = Min({km + BucketKm - 1, MileageCap})])
     /\ question.activity = "priceReduced" => \A i \in Matches(question) : RecordedChanges(stock[i]) # {}

(* The pages of a search, in every order, have every match once, as many   *)
(* as the count says, with its shortcut or without, unless they are more   *)
(* than the last page allows; and the counts on the front page are those   *)
(* of the searches that show them. Every match can be reached by the       *)
(* facets offered for its make, and still matches when they are chosen: a  *)
(* category chosen as a filter is understood like the source labels it     *)
(* stands for. The summary counts the same cars, and so do the bars of     *)
(* the charts (searchListings, countListingMatches, getDatasetOverview,    *)
(* queryFacets, categorySql, getSummaryAndCoverage, getPriceBy...).        *)
AnswersAgree ==
  LET total == CountMatches(question)
      found == Matches(question)
      Count(q) == Cardinality(Matches(q))
      current == [Everything EXCEPT !.availability = "current"]
  IN /\ total = Cardinality(found)
     /\ \A sort \in {"priceAsc", "firstSeenDesc", "lastSeenDesc"}, size \in 1 .. StockSize :
          LET Full(p) == Page(question, sort, p, size)
          IN /\ total <= LastPage * size =>
                  UNION {Full(p) : p \in 1 .. TotalPages(total, size)} = found
             /\ \A p \in 1 .. TotalPages(total, size) - 1 : Cardinality(Full(p)) = size
     /\ OverviewCounts = [current |-> Count(current),
                          archived |-> Count([Everything EXCEPT !.availability = "sold"]),
                          firstObserved |-> Count([current EXCEPT !.activity = "firstObserved"]),
                          reduced |-> Count([current EXCEPT !.activity = "priceReduced"])]
     /\ SummaryOf(question) = [listings |-> total,
                               active |-> Cardinality(found \cap OfAvailability("current")),
                               sold |-> total - Cardinality(found \cap OfAvailability("current"))]
     /\ FacetsReach
     /\ ChartsAgree

(* A query that was asked has the same answer as every other with its key *)
(* of a cache: no field that the statements of the cached answer read is   *)
(* missing in its key (analyticsSnapshotCacheKey, filterMetadataCacheKey,  *)
(* analyticsTimeSeriesCacheKey).                                           *)
KeysSuffice == question # Everything =>
  LET facets == FacetsOf(question)
      found == Matches(question)
      series == SeriesOf(question)
  IN \A q \in Questions \cup {Everything} :
       /\ SnapshotKey(q) = SnapshotKey(question) => Matches(q) = found
       /\ TimeSeriesKey(q) = TimeSeriesKey(question) => SeriesOf(q) = series
       /\ FacetsKey(q) = FacetsKey(question) => FacetsOf(q) = facets

(* The cars a listing that is for sale or sold is compared with are among  *)
(* those its link shows, unless its year is at or past the ends of those a *)
(* filter may ask for: the exact bounds and the categories of the          *)
(* statement agree with the rounded ones and the words of the link, at     *)
(* caps and with unknown values (comparisonHref).                          *)
ComparablesLinked == \A t \in OfAvailability("all") :
  LeastYear < stock[t].year /\ stock[t].year < MostYear => Comparable(t) \subseteq LinkShows(t)
=============================================================================
