SPECIFICATION RecordsSpec
CONSTANTS
  This = This
  That = That
  Unknown = Unknown
  Enriched = Enriched
  Attributes <- MCAttributes
  Values = {This, That}
  CardStates <- MCCardStates
  DetailStates <- MCDetailStates
  Assets = {p, q}
  FetchTimes = 3
  MaxPages = 3
  Stock <- MCStock
  StockSize = 3
  Questions <- MCQuestions
  Synonyms <- MCSynonyms
  Lower <- MCLower
  LastPage = 2
  Reach = 2
  MileageCap = 20
  LeastYear = 1
  MostYear = 9
  BucketKm = 4
  ActiveDays = 2
  Runs <- MCRuns
  Today = 5
  Lookback = 2
  Trunc <- MCTrunc
  SeriesTimes = 3
  SeriesLength = 3
  SeriesRuns = 2
  HeroListings = 2
  HeroBatch = 1
  Photos = {x, y}
  Texts <- MCTexts
  KnownLabels <- MCKnownLabels
  Numbers <- MCNumbers
  ValidVins = {"V"}
  LeastOwners = 0
  MostOwners = 100
  PageBoxes = 2
  Tabs = {t1, t2}
  SavedCars = {g, h, i}
  SavedViews = {v, w}
  CompareLimit = 2
  ShortlistLimit = 2
  ViewLimit = 1
  MaxWrites = 4
  Makes = {"toyota", "volvo"}
  MaxRequests = 3
  Pages = {"1", "2"}
SYMMETRY MCSymmetry
INVARIANT PagesAreHistory
INVARIANT NewestStands
INVARIANT AnswersAgree
INVARIANT KeysSuffice
INVARIANT ComparablesLinked
INVARIANT StrategiesAgree
INVARIANT SweepCovers
INVARIANT ParsersAgree
INVARIANT SavedReadable
INVARIANT OptionsMatchMake
INVARIANT LinksKeepScope
PROPERTY EnrichmentIsEvidence
PROPERTY HeroesStand
\* A component stops when its bounds are used up.
CHECK_DEADLOCK FALSE
