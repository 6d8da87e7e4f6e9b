---------------------------- MODULE MarketSeries ----------------------------
(***************************************************************************)
(* The market over time (product.ts) and its historical research           *)
(* (research.ts), for one listing: the completed runs that stand for each  *)
(* bucket of time, when they saw the listing, and the snapshot that was    *)
(* valid then.  The series finds it by a lookup for each sighting or by    *)
(* joining the periods of all snapshots, as it expects few listings or     *)
(* many.  Runs are those of one search query.                              *)
(***************************************************************************)
EXTENDS Integers, Sequences, FiniteSets

CONSTANTS
  SeriesTimes,   \* times are 1 .. SeriesTimes
  SeriesLength,  \* bounds the snapshots
  SeriesRuns     \* crawl runs: a bound

ASSUME SeriesConstants == SeriesTimes \in Nat \ {0} /\ SeriesLength \in Nat /\ SeriesRuns \in Nat

VARIABLES
  series,  \* listing_snapshots in the order of created_at: when they were
           \* observed, and whether the filter finds them
  runs     \* crawl_runs that finished: when, whether completely, and when they
           \* saw the listing, or 0 (listing_sightings)

seriesVars == <<series, runs>>

SeriesTypeOK ==
  /\ series \in Seq([at : 1 .. SeriesTimes, found : BOOLEAN])
  /\ runs \in Seq([finished : 1 .. SeriesTimes, complete : BOOLEAN, seen : 0 .. SeriesTimes])

SeriesInit == series = <<>> /\ runs = <<>>

(* Pages are persisted, in any order of their times.                       *)
Observe(t, found) ==
  /\ Len(series) < SeriesLength
  /\ series' = Append(series, [at |-> t, found |-> found])
  /\ UNCHANGED runs

Finish(t, complete, seen) ==
  /\ Len(runs) < SeriesRuns /\ seen <= t
  /\ runs' = Append(runs, [finished |-> t, complete |-> complete, seen |-> seen])
  /\ UNCHANGED series

SeriesNext ==
  \/ \E t \in 1 .. SeriesTimes, found \in BOOLEAN : Observe(t, found)
  \/ \E t \in 1 .. SeriesTimes, seen \in 0 .. SeriesTimes, complete \in BOOLEAN : Finish(t, complete, seen)

SeriesSpec == SeriesInit /\ [][SeriesNext]_seriesVars

-----------------------------------------------------------------------------
(* A bucket has two times.  selected_runs: its last complete run.          *)
Bucket(t) == t \div 2
Complete == {r \in DOMAIN runs : runs[r].complete}
SelectedRuns == {r \in Complete : \A s \in Complete :
  Bucket(runs[s].finished) = Bucket(runs[r].finished) => runs[s].finished <= runs[r].finished}

(* Of runs that finished at one time the database takes any.               *)
Selections == {S \in SUBSET SelectedRuns :
  /\ {Bucket(runs[r].finished) : r \in S} = {Bucket(runs[r].finished) : r \in SelectedRuns}
  /\ \A r, s \in S : Bucket(runs[r].finished) = Bucket(runs[s].finished) => r = s}

(* sighting_buckets *)
Sightings(S) == {[bucket |-> Bucket(runs[r].finished), at |-> runs[r].seen] : r \in {s \in S : runs[s].seen # 0}}

(* The order of observed_at and created_at.                                *)
Follows(m, n) == series[m].at > series[n].at \/ (series[m].at = series[n].at /\ m > n)

(* The rows, given for each time the snapshots valid then.                 *)
SeriesRows(S, valid) == {row \in Sightings(S) \X DOMAIN series :
  row[2] \in valid[row[1].at] /\ series[row[2]].found}

(* restrictListings: the last snapshot by the time of the sighting, for    *)
(* listings that have any the filter finds.                                *)
LastBy == [t \in 1 .. SeriesTimes |-> {n \in DOMAIN series :
  /\ \E m \in DOMAIN series : series[m].found
  /\ series[n].at <= t
  /\ \A m \in DOMAIN series : Follows(m, n) => series[m].at > t}]

(* snapshot_periods: lag over the descending order is the next snapshot.   *)
NextAt(n) == LET after == {m \in DOMAIN series : Follows(m, n)}
             IN IF after = {} THEN SeriesTimes + 1
                ELSE series[CHOOSE m \in after : \A k \in after : k = m \/ Follows(k, m)].at
PeriodWithEnd == [t \in 1 .. SeriesTimes |-> {n \in DOMAIN series : series[n].at <= t /\ t <= NextAt(n)}]
PeriodOf == [t \in 1 .. SeriesTimes |-> {n \in DOMAIN series : series[n].at <= t /\ t < NextAt(n)}]

-----------------------------------------------------------------------------
(* The series is the same whether it expects few listings or many: equal   *)
(* times, late pages and filters that find only some snapshots of a        *)
(* listing give each sighting the same row (getMarketOverTime).            *)
StrategiesAgree == \A S \in Selections : SeriesRows(S, LastBy) = SeriesRows(S, PeriodOf)
=============================================================================
