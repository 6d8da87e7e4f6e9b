------------------------ MODULE ListingHistoryProofs ------------------------
(***************************************************************************)
(* Theorems about ListingHistory, for any times, states of cards, contents *)
(* of detail pages, images and number of pages.                            *)
(***************************************************************************)
EXTENDS ListingHistory, WellFoundedInduction, TLAPS

-----------------------------------------------------------------------------
(* Least and greatest numbers, and the newest of a set of snapshots.       *)

\* A set of natural numbers that is not empty has a least one.
LEMMA LeastNumber ==
  ASSUME NEW S \in SUBSET Nat, S # {}
  PROVE  \E m \in S : \A k \in S : m <= k
<1>1. PICK m \in S : \A k \in S : ~(<<k, m>> \in OpToRel(<, Nat))
  BY NatLessThanWellFounded, WFMin
<1>2. ASSUME NEW k \in S PROVE m <= k
  <2>1. <<k, m>> \in Nat \X Nat /\ <<k, m>>[1] = k /\ <<k, m>>[2] = m
    OBVIOUS
  <2>2. ~(k < m)
    BY <1>1, <2>1 DEF OpToRel
  <2> QED
    BY <2>2
<1> QED
  BY <1>2

\* A bounded set of them has a greatest one.
LEMMA GreatestNumber ==
  ASSUME NEW n \in Nat, NEW S \in SUBSET (1 .. n), S # {}
  PROVE  \E m \in S : \A k \in S : k <= m
<1> DEFINE D == {e \in Nat : n - e \in S}
<1>0. \A k \in S : k \in Nat /\ n - k \in D
  BY Z3
<1>1. D \in SUBSET Nat /\ D # {}
  BY <1>0
<1>2. PICK d \in D : \A e \in D : d <= e
  BY <1>1, LeastNumber
<1>3. n - d \in S /\ d \in Nat
  BY <1>2
<1> HIDE DEF D
<1>4. ASSUME NEW k \in S PROVE k <= n - d
  <2>1. k \in Nat /\ n - k \in D
    BY <1>0
  <2>2. d <= n - k
    BY <1>2, <2>1
  <2> QED
    BY <1>3, <2>1, <2>2
<1> QED
  BY <1>3, <1>4

\* The order of snapshots by observed_at and created_at.
NotNewer(rows, i, j) ==
  \/ rows[i].observed < rows[j].observed
  \/ rows[i].observed = rows[j].observed /\ i <= j

\* AsOf of a given history.
Observed(rows, t) == {i \in DOMAIN rows : rows[i].observed <= t}
Newest(rows, found) == CHOOSE i \in found : \A j \in found : NotNewer(rows, j, i)
AsOfIn(rows, t) == IF Observed(rows, t) = {} THEN 0 ELSE Newest(rows, Observed(rows, t))

\* AsOf is that of the present history.
LEMMA AsOfPresent ==
  ASSUME NEW t
  PROVE  AsOf(t) = AsOfIn(snapshots, t) /\ AsOf(t)' = AsOfIn(snapshots', t)
BY DEF AsOf, AsOfIn, ObservedBy, Observed, NewestOf, Newest, NotNewer

\* Any set of snapshots that is not empty has one newest.
LEMMA NewestIs ==
  ASSUME NEW rows \in Seq(SnapshotRows), NEW found \in SUBSET DOMAIN rows, found # {}
  PROVE  /\ Newest(rows, found) \in found
         /\ \A j \in found : NotNewer(rows, j, Newest(rows, found))
         /\ \A i \in found : (\A j \in found : NotNewer(rows, j, i)) => Newest(rows, found) = i
<1>0. FetchTimes \in Nat
  BY HistoryConstants
<1>1. \A i \in DOMAIN rows : i \in Nat /\ rows[i].observed \in 1 .. FetchTimes
  <2>1. \A i \in DOMAIN rows : i \in Nat /\ rows[i] \in SnapshotRows
    OBVIOUS
  <2> QED
    BY ONLY <2>1 DEF SnapshotRows
<1> DEFINE times == {rows[i].observed : i \in found}
<1>2. times \in SUBSET (1 .. FetchTimes) /\ times # {}
  BY <1>1
<1>3. PICK last \in times : \A s \in times : s <= last
  BY <1>0, <1>2, GreatestNumber
<1> DEFINE then == {i \in found : rows[i].observed = last}
<1>4. then \in SUBSET (1 .. Len(rows)) /\ then # {} /\ Len(rows) \in Nat
  BY <1>3
<1>5. PICK m \in then : \A i \in then : i <= m
  <2> HIDE DEF then
  <2> QED
    BY <1>4, GreatestNumber
<1>6. m \in found /\ \A j \in found : NotNewer(rows, j, m)
  <2>1. m \in found /\ rows[m].observed = last
    BY <1>5
  <2>2. ASSUME NEW j \in found PROVE NotNewer(rows, j, m)
    <3>1. rows[j].observed <= last /\ rows[j].observed \in Nat /\ last \in Nat
      BY <1>1, <1>2, <1>3
    <3>2. rows[j].observed = last => j <= m
      BY <1>5
    <3> QED
      BY <2>1, <3>1, <3>2 DEF NotNewer
  <2> QED
    BY <2>1, <2>2
<1>7. Newest(rows, found) \in found /\ \A j \in found : NotNewer(rows, j, Newest(rows, found))
  BY <1>6 DEF Newest
<1>8. ASSUME NEW i \in found, NEW k \in found, NotNewer(rows, i, k), NotNewer(rows, k, i) PROVE i = k
  BY <1>1, <1>8 DEF NotNewer
<1> QED
  BY <1>7, <1>8

\* What AsOf gives is observed by then and not older than any other.
LEMMA AsOfIs ==
  ASSUME NEW rows \in Seq(SnapshotRows), NEW t \in Nat
  PROVE  /\ AsOfIn(rows, t) = 0 <=> Observed(rows, t) = {}
         /\ AsOfIn(rows, t) # 0 =>
              /\ AsOfIn(rows, t) \in DOMAIN rows /\ rows[AsOfIn(rows, t)].observed <= t
              /\ \A j \in Observed(rows, t) : NotNewer(rows, j, AsOfIn(rows, t))
         /\ \A i \in Observed(rows, t) : (\A j \in Observed(rows, t) : NotNewer(rows, j, i)) => AsOfIn(rows, t) = i
<1> DEFINE found == Observed(rows, t)
<1>1. found \in SUBSET DOMAIN rows /\ \A i \in found : rows[i].observed <= t /\ i # 0
  BY DEF Observed
<1> HIDE DEF found
<1>2. AsOfIn(rows, t) = IF found = {} THEN 0 ELSE Newest(rows, found)
  BY DEF AsOfIn, found
<1>3. found # {} => /\ Newest(rows, found) \in found
                    /\ \A j \in found : NotNewer(rows, j, Newest(rows, found))
                    /\ \A i \in found : (\A j \in found : NotNewer(rows, j, i)) => Newest(rows, found) = i
  BY <1>1, NewestIs
<1>4. CASE found = {}
  BY <1>2, <1>4 DEF found
<1>5. CASE found # {}
  <2>1. AsOfIn(rows, t) = Newest(rows, found) /\ Newest(rows, found) \in found
    BY <1>2, <1>3, <1>5
  <2> QED
    BY <1>1, <1>3, <1>5, <2>1 DEF found
<1> QED
  BY <1>4, <1>5

\* A snapshot that is added is in the history from its time on, unless a newer one is.
LEMMA AsOfAdded ==
  ASSUME NEW rows \in Seq(SnapshotRows), NEW row \in SnapshotRows, NEW t \in Nat
  PROVE  LET next == AsOfIn(Append(rows, row), t)
             old == AsOfIn(rows, t)
         IN  /\ t < row.observed => next = old
             /\ t >= row.observed =>
                  next = IF old = 0 \/ rows[old].observed <= row.observed THEN Len(rows) + 1 ELSE old
<1> DEFINE more == Append(rows, row)
           n == Len(rows) + 1
<1>1. /\ more \in Seq(SnapshotRows) /\ n \in Nat /\ Len(more) = n /\ DOMAIN more = DOMAIN rows \cup {n}
      /\ more[n] = row /\ n \notin DOMAIN rows
      /\ \A i \in DOMAIN rows : more[i] = rows[i] /\ i < n /\ i \in Nat
      /\ row.observed \in Nat /\ \A i \in DOMAIN rows : rows[i].observed \in Nat
  <2>1. \A r \in SnapshotRows : r.observed \in Nat
    BY HistoryConstants DEF SnapshotRows
  <2> QED
    BY <2>1
<1> HIDE DEF more, n
<1>2. \A i, j \in DOMAIN rows : NotNewer(more, i, j) <=> NotNewer(rows, i, j)
  BY <1>1 DEF NotNewer
<1>3. CASE t < row.observed
  <2>1. Observed(more, t) = Observed(rows, t)
    BY <1>1, <1>3 DEF Observed
  <2>2. Observed(rows, t) = {} => AsOfIn(more, t) = AsOfIn(rows, t)
    BY <1>1, <2>1, AsOfIs
  <2>3. ASSUME Observed(rows, t) # {} PROVE AsOfIn(more, t) = AsOfIn(rows, t)
    <3>1. AsOfIn(rows, t) \in Observed(rows, t)
          /\ \A j \in Observed(rows, t) : NotNewer(rows, j, AsOfIn(rows, t))
      BY <2>3, AsOfIs DEF Observed
    <3>2. \A j \in Observed(more, t) : NotNewer(more, j, AsOfIn(rows, t))
      BY <1>2, <2>1, <3>1 DEF Observed
    <3> QED
      BY <1>1, <2>1, <3>1, <3>2, AsOfIs
  <2> QED
    BY <1>1, <1>3, <2>2, <2>3 DEF more
<1>4. CASE t >= row.observed
  <2>1. Observed(more, t) = Observed(rows, t) \cup {n}
    BY <1>1, <1>4 DEF Observed
  <2>2. CASE AsOfIn(rows, t) = 0 \/ rows[AsOfIn(rows, t)].observed <= row.observed
    <3>1. ASSUME NEW j \in Observed(rows, t) PROVE NotNewer(more, j, n)
      <4>1. AsOfIn(rows, t) \in DOMAIN rows /\ NotNewer(rows, j, AsOfIn(rows, t)) /\ j \in DOMAIN rows
        BY AsOfIs DEF Observed
      <4>2. rows[j].observed <= row.observed
        BY <1>1, <2>2, <4>1 DEF NotNewer
      <4> QED
        BY <1>1, <4>1, <4>2 DEF NotNewer
    <3>2. NotNewer(more, n, n)
      BY <1>1 DEF NotNewer
    <3>3. AsOfIn(more, t) = n
      BY <1>1, <2>1, <3>1, <3>2, AsOfIs
    <3> QED
      BY <1>1, <1>4, <2>2, <3>3 DEF more, n
  <2>3. CASE AsOfIn(rows, t) # 0 /\ rows[AsOfIn(rows, t)].observed > row.observed
    <3> DEFINE old == AsOfIn(rows, t)
    <3>1. old \in Observed(rows, t) /\ old \in DOMAIN rows /\ \A j \in Observed(rows, t) : NotNewer(rows, j, old)
      BY <2>3, AsOfIs DEF Observed
    <3>2. \A j \in Observed(rows, t) : NotNewer(more, j, old)
      BY <1>2, <3>1 DEF Observed
    <3>3. NotNewer(more, n, old)
      BY <1>1, <2>3, <3>1 DEF NotNewer
    <3>4. AsOfIn(more, t) = old
      BY <1>1, <2>1, <3>1, <3>2, <3>3, AsOfIs
    <3> QED
      BY <1>1, <1>4, <2>3, <3>1, <3>4 DEF more
  <2>4. AsOfIn(rows, t) = 0 \/ AsOfIn(rows, t) \in DOMAIN rows
    BY AsOfIs
  <2> QED
    BY <1>1, <2>2, <2>3, <2>4
<1> QED
  BY <1>1, <1>3, <1>4

-----------------------------------------------------------------------------
(* The inductive invariant, part by part.                                  *)

(* A snapshot is of a page, whose time and payload number it has; what it  *)
(* holds is the card of its hash unless a detail page enriched it.         *)
SnapshotSound(s) ==
  /\ s.payload \in DOMAIN payloads /\ payloads[s.payload] \in Contents
  /\ \E n \in DOMAIN pages : s.payload = <<"snapshot", n>> /\ s.observed = pages[n].at
  /\ s.hash \in CardStates => payloads[s.payload] = s.hash
SnapshotsSound == \A i \in DOMAIN snapshots : SnapshotSound(snapshots[i])

(* A listing points to its newest snapshot.                                *)
LatestSound ==
  /\ latest = 0 => snapshots = <<>>
  /\ \A i \in DOMAIN snapshots : NotNewer(snapshots, i, latest)

(* The detail row is that of a newest detail page, its bundle of that page.*)
PagesOfDetails == {n \in DOMAIN pages : pages[n].kind = "detail"}
DetailOf(n) ==
  /\ pages[n].at = details.fetched
  /\ details.payload = <<"detail", n>> /\ details.payload \in DOMAIN payloads
  /\ payloads[details.payload] = pages[n].content
DetailsSound ==
  /\ \/ details = NoDetails /\ PagesOfDetails = {}
     \/ \E n \in PagesOfDetails : DetailOf(n)
  /\ \A m \in PagesOfDetails : pages[m].at <= details.fetched

(* A stored asset is of a page that has it, and of no page before another  *)
(* that has it, with the variants of them all.                             *)
AssetSound(a) ==
  /\ StoredAsset(a).raw \in DOMAIN pages \cup {-1, 0}
  /\ StoredAsset(a).raw \in DOMAIN pages => a \in pages[StoredAsset(a).raw].images
  /\ \A m \in DOMAIN pages : a \in pages[m].images =>
       pages[m].at <= TimeOf(StoredAsset(a).raw) /\ pages[m].kind \in StoredAsset(a).variants
GallerySound == \A a \in Assets : AssetSound(a)

(* PagesAreHistory, for a time when there is a snapshot at all.            *)
ToldIn(rows, f, t) == {n \in DOMAIN rows :
  rows[n].at <= t /\ (rows[n].kind = "card" \/ rows[n].content[f] # Unknown)}
LastOf(numbers) == CHOOSE n \in numbers : \A m \in numbers : m <= n
PagesKept == InOrder => \A t \in 1 .. FetchTimes, f \in Attributes :
  ToldIn(pages, f, t) # {} =>
    AsOf(t) # 0 /\ Content(AsOf(t))[f] = pages[LastOf(ToldIn(pages, f, t))].content[f]

HistoryInv ==
  /\ HistoryTypeOK /\ Len(pages) <= MaxPages
  /\ SnapshotsSound /\ LatestSound /\ DetailsSound /\ PayloadsAreUsed /\ GallerySound /\ PagesKept

-----------------------------------------------------------------------------
(* A page that is recorded.                                                *)

\* Nothing is recorded at first.
LEMMA HistoryInitially == HistoryInit => HistoryInv
<1> SUFFICES ASSUME HistoryInit PROVE HistoryInv
  OBVIOUS
<1>1. /\ pages = <<>> /\ snapshots = <<>> /\ latest = 0 /\ details = NoDetails /\ payloads = <<>>
      /\ bundle = [a \in Assets |-> NoRow] /\ inline = [a \in Assets |-> NoRow]
  BY DEF HistoryInit
<1>2. DOMAIN pages = {} /\ DOMAIN snapshots = {} /\ DOMAIN payloads = {} /\ Len(pages) = 0
  BY <1>1
<1>3. HistoryTypeOK
  <2>1. pages \in Seq(PageRows) /\ snapshots \in Seq(SnapshotRows) /\ latest \in 0 .. Len(snapshots)
    BY <1>1
  <2>2. details \in DetailRows
    BY <1>1, HistoryConstants DEF DetailRows, NoDetails
  <2>3. DOMAIN payloads \subseteq PayloadIds /\ Range(payloads) \subseteq Contents
    BY <1>2 DEF Range
  <2> QED
    BY <1>1, <2>1, <2>2, <2>3 DEF HistoryTypeOK, GalleryRows
<1>4. SnapshotsSound /\ LatestSound
  BY <1>1, <1>2 DEF SnapshotsSound, LatestSound
<1>5. DetailsSound
  BY <1>1, <1>2 DEF DetailsSound, PagesOfDetails
<1>6. PayloadsAreUsed
  BY <1>1, <1>2 DEF PayloadsAreUsed, NoDetails
<1>7. GallerySound
  BY <1>1, <1>2 DEF GallerySound, AssetSound, StoredAsset, NoRow
<1>8. PagesKept
  BY <1>2 DEF PagesKept, ToldIn
<1> QED
  BY <1>2, <1>3, <1>4, <1>5, <1>6, <1>7, <1>8, HistoryConstants DEF HistoryInv

\* A page is recorded after the others.
LEMMA PageAdded ==
  ASSUME HistoryInv, NEW kind \in {"card", "detail"}, NEW t \in 1 .. FetchTimes,
         NEW content \in CardStates \cup DetailStates, NEW images \in SUBSET Assets,
         Record(kind, t, content, images)
  PROVE  /\ pages' \in Seq(PageRows) /\ Len(pages') = Len(pages) + 1 /\ Len(pages') \in 1 .. MaxPages
         /\ DOMAIN pages' = DOMAIN pages \cup {Len(pages')} /\ Len(pages') \notin DOMAIN pages
         /\ pages'[Len(pages')].kind = kind /\ pages'[Len(pages')].at = t
         /\ pages'[Len(pages')].content = content /\ pages'[Len(pages')].images = images
         /\ \A m \in DOMAIN pages : pages'[m] = pages[m] /\ pages[m] \in PageRows
<1> DEFINE page == [kind |-> kind, at |-> t, content |-> content, images |-> images]
<1>1. page \in PageRows
  BY DEF PageRows
<1>2. pages \in Seq(PageRows) /\ Len(pages) < MaxPages /\ pages' = Append(pages, page) /\ MaxPages \in Nat
  BY HistoryConstants DEF Record, HistoryInv, HistoryTypeOK
<1>3. page.kind = kind /\ page.at = t /\ page.content = content /\ page.images = images
  OBVIOUS
<1> HIDE DEF page
<1>4. /\ pages' \in Seq(PageRows) /\ Len(pages') = Len(pages) + 1 /\ Len(pages') \in 1 .. MaxPages
      /\ DOMAIN pages' = DOMAIN pages \cup {Len(pages')} /\ Len(pages') \notin DOMAIN pages
      /\ pages'[Len(pages')] = page
      /\ \A m \in DOMAIN pages : pages'[m] = pages[m] /\ pages[m] \in PageRows
  BY <1>1, <1>2
<1> QED
  BY <1>3, <1>4

\* Pages have times, kinds and images.
LEMMA PageFields ==
  ASSUME NEW page \in PageRows
  PROVE  /\ page.kind \in {"card", "detail"} /\ page.at \in 1 .. FetchTimes
         /\ page.content \in CardStates \cup DetailStates /\ page.images \in SUBSET Assets
BY DEF PageRows

\* A row of the gallery has a page, or is no row.
LEMMA GalleryRowIs ==
  ASSUME NEW row \in GalleryRows
  PROVE  /\ row.raw \in -1 .. MaxPages
         /\ row.variants \in SUBSET {"card", "detail", "legacy"}
         /\ row # NoRow => row.raw \in 0 .. MaxPages /\ row.variants # {}
         /\ row = NoRow => row.raw = -1 /\ row.variants = {}
BY HistoryConstants DEF GalleryRows, NoRow

\* A page that is recorded takes over the images it has, unless a newer one has them.
LEMMA GalleryMerged ==
  ASSUME HistoryInv, NEW kind \in {"card", "detail"}, NEW t \in 1 .. FetchTimes,
         NEW content \in CardStates \cup DetailStates, NEW images \in SUBSET Assets,
         Record(kind, t, content, images)
  PROVE  bundle' \in [Assets -> GalleryRows] /\ inline' \in [Assets -> GalleryRows] /\ GallerySound'
<1> DEFINE n == Len(pages) + 1
<1>1. /\ bundle \in [Assets -> GalleryRows] /\ inline \in [Assets -> GalleryRows] /\ GallerySound
  BY DEF HistoryInv, HistoryTypeOK
<1>2. /\ Len(pages') = n /\ n \in 1 .. MaxPages /\ t \in Nat
      /\ DOMAIN pages' = DOMAIN pages \cup {n} /\ n \notin DOMAIN pages
      /\ pages'[n].kind = kind /\ pages'[n].at = t /\ pages'[n].images = images
      /\ \A m \in DOMAIN pages : pages'[m] = pages[m]
  <2>1. Len(pages') = n /\ t \in Nat
    BY PageAdded, HistoryConstants
  <2> HIDE DEF n
  <2> QED
    BY <2>1, PageAdded
<1>3. \A m \in DOMAIN pages : pages[m].at \in Nat /\ m \in 1 .. MaxPages
  <2>1. \A m \in DOMAIN pages : pages[m].at \in 1 .. FetchTimes
    BY PageAdded, PageFields
  <2>2. DOMAIN pages = 1 .. Len(pages) /\ Len(pages) \in Nat /\ Len(pages) <= MaxPages
    BY DEF HistoryInv, HistoryTypeOK
  <2> QED
    BY <2>1, <2>2, HistoryConstants
<1>4. MergeGallery(n, t, kind, images)
  BY DEF Record
<1> HIDE DEF n
<1>5. -1 \notin DOMAIN pages' /\ 0 \notin DOMAIN pages'
  BY <1>2, <1>3
<1>6. \A a \in Assets : StoredAsset(a) \in GalleryRows
  BY <1>1 DEF StoredAsset
<1>7. CASE images = {}
  <2>1. UNCHANGED <<bundle, inline>>
    BY <1>4, <1>7 DEF MergeGallery
  <2>2. ASSUME NEW a \in Assets PROVE AssetSound(a)'
    <3>1. StoredAsset(a)' = StoredAsset(a) /\ AssetSound(a)
      BY <1>1, <2>1 DEF StoredAsset, GallerySound
    <3>2. StoredAsset(a).raw # n
      BY <1>2, <3>1 DEF AssetSound
    <3>3. TimeOf(StoredAsset(a).raw)' = TimeOf(StoredAsset(a).raw)
      BY <1>2, <3>1, <3>2 DEF TimeOf
    <3> QED
      BY <1>2, <1>7, <3>1, <3>2, <3>3 DEF AssetSound
  <2> QED
    BY <1>1, <2>1, <2>2 DEF GallerySound
<1>8. CASE images # {}
  <2> DEFINE merged(a) == [raw |-> IF AssetFromNewest(StoredAsset(a), t) THEN n ELSE StoredAsset(a).raw,
                           variants |-> StoredAsset(a).variants \cup {kind}]
  <2>1. /\ bundle' = [a \in Assets |-> IF a \notin images THEN StoredAsset(a) ELSE merged(a)]
        /\ inline' = [a \in Assets |-> NoRow]
    BY <1>4, <1>8 DEF MergeGallery
  <2>2. \A a \in Assets : /\ merged(a).raw = IF TimeOf(StoredAsset(a).raw) <= t THEN n ELSE StoredAsset(a).raw
                          /\ merged(a).variants = StoredAsset(a).variants \cup {kind}
    BY DEF AssetFromNewest
  <2>3. ASSUME NEW a \in Assets PROVE merged(a) \in GalleryRows /\ merged(a) # NoRow
    <3>1. AssetSound(a) /\ StoredAsset(a) \in GalleryRows
      BY <1>1, <1>6 DEF GallerySound
    <3>2. ~(TimeOf(StoredAsset(a).raw) <= t) => StoredAsset(a).raw \in DOMAIN pages
      BY <1>2 DEF TimeOf
    <3>3. merged(a).raw \in 0 .. MaxPages
      BY <1>2, <1>3, <2>2, <3>2
    <3>4. merged(a).variants \in (SUBSET {"card", "detail", "legacy"}) \ {{}}
      BY <2>2, <3>1, GalleryRowIs
    <3>5. merged(a) = [raw |-> merged(a).raw, variants |-> merged(a).variants]
      OBVIOUS
    <3> HIDE DEF merged
    <3>6. merged(a) \in GalleryRows
      BY <3>3, <3>4, <3>5 DEF GalleryRows
    <3> QED
      BY <3>3, <3>6, GalleryRowIs
  <2> HIDE DEF merged
  <2>4. bundle' \in [Assets -> GalleryRows] /\ inline' \in [Assets -> GalleryRows]
    BY <1>6, <2>1, <2>3 DEF GalleryRows
  <2>5. ASSUME NEW a \in Assets PROVE AssetSound(a)'
    <3>0. AssetSound(a) /\ StoredAsset(a) \in GalleryRows
      BY <1>1, <1>6 DEF GallerySound
    <3>1. StoredAsset(a)' = IF a \in images THEN merged(a) ELSE StoredAsset(a)
      BY <2>1 DEF StoredAsset
    <3>2. StoredAsset(a).raw # n
      BY <1>2, <3>0 DEF AssetSound
    <3>3. CASE a \notin images
      <4>1. TimeOf(StoredAsset(a).raw)' = TimeOf(StoredAsset(a).raw)
        BY <1>2, <3>1, <3>2, <3>3 DEF TimeOf
      <4> QED
        BY <1>2, <3>0, <3>1, <3>2, <3>3, <4>1 DEF AssetSound
    <3>4. CASE a \in images /\ TimeOf(StoredAsset(a).raw) <= t
      <4>1. StoredAsset(a)'.raw = n /\ StoredAsset(a)'.variants = StoredAsset(a).variants \cup {kind}
        BY <2>2, <3>1, <3>4
      <4>2. TimeOf(StoredAsset(a).raw)' = t
        BY <1>2, <4>1 DEF TimeOf
      <4>3. ASSUME NEW m \in DOMAIN pages', a \in pages'[m].images
            PROVE  pages'[m].at <= t /\ pages'[m].kind \in StoredAsset(a)'.variants
        <5>1. CASE m = n
          BY <1>2, <4>1, <5>1
        <5>2. CASE m \in DOMAIN pages
          <6>1. pages[m].at <= TimeOf(StoredAsset(a).raw) /\ pages[m].kind \in StoredAsset(a).variants
            BY <1>2, <3>0, <4>3, <5>2 DEF AssetSound
          <6>2. TimeOf(StoredAsset(a).raw) \in Nat
            BY <1>3 DEF TimeOf
          <6> QED
            BY <1>2, <1>3, <3>4, <4>1, <5>2, <6>1, <6>2
        <5> QED
          BY <1>2, <5>1, <5>2
      <4> QED
        BY <1>2, <3>4, <4>1, <4>2, <4>3 DEF AssetSound
    <3>5. CASE a \in images /\ ~(TimeOf(StoredAsset(a).raw) <= t)
      <4>1. StoredAsset(a)'.raw = StoredAsset(a).raw /\ StoredAsset(a)'.variants = StoredAsset(a).variants \cup {kind}
        BY <2>2, <3>1, <3>5
      <4>2. TimeOf(StoredAsset(a).raw)' = TimeOf(StoredAsset(a).raw)
        BY <1>2, <3>2, <4>1 DEF TimeOf
      <4>3. TimeOf(StoredAsset(a).raw) \in Nat /\ t <= TimeOf(StoredAsset(a).raw)
        BY <1>2, <1>3, <3>5 DEF TimeOf
      <4>4. ASSUME NEW m \in DOMAIN pages', a \in pages'[m].images
            PROVE  pages'[m].at <= TimeOf(StoredAsset(a).raw) /\ pages'[m].kind \in StoredAsset(a)'.variants
        <5>1. CASE m = n
          BY <1>2, <4>1, <4>3, <5>1
        <5>2. CASE m \in DOMAIN pages
          BY <1>2, <3>0, <4>1, <4>4, <5>2 DEF AssetSound
        <5> QED
          BY <1>2, <5>1, <5>2
      <4> QED
        BY <1>2, <3>0, <4>1, <4>2, <4>4 DEF AssetSound
    <3> QED
      BY <3>3, <3>4, <3>5
  <2> QED
    BY <2>4, <2>5 DEF GallerySound
<1> QED
  BY <1>7, <1>8

-----------------------------------------------------------------------------
(* A snapshot that is added.                                               *)

\* A snapshot comes after the others, and the listing points to it unless a newer one is there.
LEMMA SnapshotAdded ==
  ASSUME HistoryInv, NEW t \in 1 .. FetchTimes, NEW hash \in CardStates \cup {Enriched},
         AddSnapshot(t, hash), Len(pages) < MaxPages
  PROVE  /\ snapshots' \in Seq(SnapshotRows) /\ Len(snapshots') = Len(snapshots) + 1
         /\ DOMAIN snapshots' = DOMAIN snapshots \cup {Len(snapshots')} /\ Len(snapshots') \notin DOMAIN snapshots
         /\ snapshots'[Len(snapshots')].observed = t /\ snapshots'[Len(snapshots')].hash = hash
         /\ snapshots'[Len(snapshots')].payload = <<"snapshot", Len(pages) + 1>>
         /\ \A i \in DOMAIN snapshots : snapshots'[i] = snapshots[i]
         /\ latest' \in 0 .. Len(snapshots') /\ latest' # 0 /\ LatestSound'
         /\ \A u \in Nat : u < t => AsOf(u)' = AsOf(u)
         /\ \A u \in Nat : u >= t =>
              AsOf(u)' = IF AsOf(u) = 0 \/ snapshots[AsOf(u)].observed <= t THEN Len(snapshots') ELSE AsOf(u)
<1> DEFINE row == [observed |-> t, hash |-> hash, payload |-> <<"snapshot", Len(pages) + 1>>]
           n == Len(snapshots) + 1
<1>1. /\ snapshots \in Seq(SnapshotRows) /\ latest \in 0 .. Len(snapshots) /\ LatestSound
      /\ Len(pages) + 1 \in 1 .. MaxPages /\ t \in Nat
  BY HistoryConstants DEF HistoryInv, HistoryTypeOK
<1>2. row \in SnapshotRows
  BY <1>1 DEF SnapshotRows, PayloadIds
<1>3. row.observed = t /\ row.hash = hash /\ row.payload = <<"snapshot", Len(pages) + 1>>
  OBVIOUS
<1>4. snapshots' = Append(snapshots, row) /\ latest' = IF LatestUnlessNewer(t) THEN n ELSE latest
  BY DEF AddSnapshot
<1> HIDE DEF row
<1>5. /\ snapshots' \in Seq(SnapshotRows) /\ Len(snapshots') = n /\ n \in Nat /\ n # 0
      /\ DOMAIN snapshots' = DOMAIN snapshots \cup {n} /\ n \notin DOMAIN snapshots
      /\ snapshots'[n] = row
      /\ \A i \in DOMAIN snapshots : snapshots'[i] = snapshots[i] /\ i < n /\ i \in Nat
  BY <1>1, <1>2, <1>4
<1>6. \A i \in DOMAIN snapshots : snapshots[i].observed \in Nat
  <2>1. \A r \in SnapshotRows : r.observed \in Nat
    BY HistoryConstants DEF SnapshotRows
  <2> QED
    BY <1>1, <2>1
<1>7. \A i, j \in DOMAIN snapshots : NotNewer(snapshots', i, j) <=> NotNewer(snapshots, i, j)
  BY <1>5 DEF NotNewer
<1>8. /\ latest' \in 0 .. Len(snapshots') /\ latest' # 0 /\ \A i \in DOMAIN snapshots' : NotNewer(snapshots', i, latest')
  <2>1. latest # 0 => latest \in DOMAIN snapshots
    BY <1>1
  <2>2. CASE LatestUnlessNewer(t)
    <3>1. latest' = n
      BY <1>4, <2>2
    <3>2. ASSUME NEW i \in DOMAIN snapshots PROVE NotNewer(snapshots', i, n)
      <4>1. latest # 0 /\ NotNewer(snapshots, i, latest) /\ snapshots[latest].observed <= t
        BY <1>1, <2>2 DEF LatestSound, LatestUnlessNewer
      <4>2. snapshots[i].observed <= t
        BY <1>1, <1>6, <2>1, <4>1 DEF NotNewer
      <4> QED
        BY <1>1, <1>3, <1>5, <1>6, <4>2 DEF NotNewer
    <3>3. NotNewer(snapshots', n, n)
      BY <1>5 DEF NotNewer
    <3> QED
      BY <1>5, <3>1, <3>2, <3>3
  <2>3. CASE ~LatestUnlessNewer(t)
    <3>1. latest' = latest /\ latest # 0 /\ ~(snapshots[latest].observed <= t) /\ latest \in DOMAIN snapshots
      BY <1>4, <2>1, <2>3 DEF LatestUnlessNewer
    <3>2. \A i \in DOMAIN snapshots : NotNewer(snapshots', i, latest)
      BY <1>1, <1>7, <3>1 DEF LatestSound
    <3>3. NotNewer(snapshots', n, latest)
      BY <1>1, <1>3, <1>5, <1>6, <3>1 DEF NotNewer
    <3> QED
      BY <1>1, <1>5, <3>1, <3>2, <3>3
  <2> QED
    BY <2>2, <2>3
<1>9. LatestSound'
  BY <1>8 DEF LatestSound
<1>10. ASSUME NEW u \in Nat
       PROVE  /\ u < t => AsOf(u)' = AsOf(u)
              /\ u >= t => AsOf(u)' = IF AsOf(u) = 0 \/ snapshots[AsOf(u)].observed <= t THEN n ELSE AsOf(u)
  <2>1. AsOf(u) = AsOfIn(snapshots, u) /\ AsOf(u)' = AsOfIn(Append(snapshots, row), u)
    BY <1>4, AsOfPresent
  <2> QED
    BY <1>1, <1>2, <1>3, <2>1, AsOfAdded
<1> QED
  BY <1>3, <1>5, <1>8, <1>9, <1>10

\* A bundle is of a snapshot, or of the detail row, and of a page.
LEMMA PayloadIs ==
  ASSUME HistoryInv, NEW id \in DOMAIN payloads
  PROVE  \/ \E m \in DOMAIN pages : id = <<"snapshot", m>>
         \/ id = details.payload /\ \E m \in DOMAIN pages : id = <<"detail", m>>
<1>1. CASE \E i \in DOMAIN snapshots : id = snapshots[i].payload
  BY <1>1 DEF HistoryInv, SnapshotsSound, SnapshotSound
<1>2. CASE id = details.payload /\ id # NoPayload
  BY <1>2 DEF HistoryInv, DetailsSound, DetailOf, PagesOfDetails, NoDetails
<1> QED
  BY <1>1, <1>2 DEF HistoryInv, PayloadsAreUsed

\* Bundles of snapshots that stay keep the snapshots sound.
LEMMA SnapshotsStay ==
  ASSUME HistoryInv, \A i \in DOMAIN snapshots : snapshots'[i] = snapshots[i],
         DOMAIN pages \subseteq DOMAIN pages', \A m \in DOMAIN pages : pages'[m] = pages[m],
         \A m \in DOMAIN pages : <<"snapshot", m>> \in DOMAIN payloads =>
           <<"snapshot", m>> \in DOMAIN payloads' /\ payloads'[<<"snapshot", m>>] = payloads[<<"snapshot", m>>]
  PROVE  \A i \in DOMAIN snapshots : SnapshotSound(snapshots[i])' /\ payloads'[snapshots'[i].payload] = Content(i)
<1> TAKE i \in DOMAIN snapshots
<1>1. SnapshotSound(snapshots[i])
  BY DEF HistoryInv, SnapshotsSound
<1>2. PICK m \in DOMAIN pages : snapshots[i].payload = <<"snapshot", m>> /\ snapshots[i].observed = pages[m].at
  BY <1>1 DEF SnapshotSound
<1>3. snapshots[i].payload \in DOMAIN payloads' /\ payloads'[snapshots[i].payload] = payloads[snapshots[i].payload]
  BY <1>1, <1>2 DEF SnapshotSound
<1>4. \E k \in DOMAIN pages' : snapshots[i].payload = <<"snapshot", k>> /\ snapshots[i].observed = pages'[k].at
  BY <1>2
<1> QED
  BY <1>1, <1>3, <1>4 DEF SnapshotSound, Content

-----------------------------------------------------------------------------
(* The page of a card.                                                     *)

\* The last of numbered pages is among them.
LEMMA LastIs ==
  ASSUME NEW N \in Nat, NEW S \in SUBSET (1 .. N), S # {}
  PROVE  /\ LastOf(S) \in S /\ \A m \in S : m <= LastOf(S)
         /\ \A i \in S : (\A m \in S : m <= i) => LastOf(S) = i
<1>1. PICK n \in S : \A m \in S : m <= n
  BY GreatestNumber
<1>2. LastOf(S) \in S /\ \A m \in S : m <= LastOf(S)
  BY <1>1 DEF LastOf
<1>3. ASSUME NEW i \in S, \A m \in S : m <= i PROVE LastOf(S) = i
  <2>0. i \in 1 .. N /\ LastOf(S) \in 1 .. N
    BY <1>2
  <2>1. i <= LastOf(S) /\ LastOf(S) <= i /\ i \in Nat /\ LastOf(S) \in Nat
    BY <1>2, <1>3, <2>0
  <2> QED
    BY <2>1
<1> QED
  BY <1>2, <1>3

\* Pages that are in order were so before the last, and none was later than it.
LEMMA InOrderBefore ==
  ASSUME HistoryInv, NEW kind \in {"card", "detail"}, NEW t \in 1 .. FetchTimes,
         NEW content \in CardStates \cup DetailStates, NEW images \in SUBSET Assets,
         Record(kind, t, content, images), InOrder'
  PROVE  InOrder /\ \A m \in DOMAIN pages : pages[m].at <= t
<1>1. /\ DOMAIN pages' = DOMAIN pages \cup {Len(pages')} /\ pages'[Len(pages')].at = t
      /\ \A m \in DOMAIN pages : pages'[m] = pages[m] /\ m < Len(pages')
  <2>1. \A m \in DOMAIN pages : m < Len(pages) + 1
    BY DEF HistoryInv, HistoryTypeOK
  <2>2. DOMAIN pages' = DOMAIN pages \cup {Len(pages')}
    BY PageAdded
  <2>6. pages'[Len(pages')].at = t
    BY PageAdded
  <2>3. Len(pages') = Len(pages) + 1
    BY PageAdded
  <2>4. \A m \in DOMAIN pages : pages'[m] = pages[m]
    BY PageAdded
  <2>5. \A m \in DOMAIN pages : m < Len(pages')
    BY <2>1, <2>3
  <2> QED
    BY <2>2, <2>4, <2>5, <2>6
<1> QED
  BY <1>1 DEF InOrder

\* A time and a field for which neither the pages nor what the history gives change.
LEMMA PagesUnchanged ==
  ASSUME HistoryInv, NEW u \in 1 .. FetchTimes, NEW f \in Attributes, InOrder,
         ToldIn(pages', f, u) = ToldIn(pages, f, u), \A m \in DOMAIN pages : pages'[m] = pages[m],
         AsOf(u) # 0 => AsOf(u)' # 0 /\ Content(AsOf(u))'[f] = Content(AsOf(u))[f]
  PROVE  ToldIn(pages', f, u) # {} =>
           AsOf(u)' # 0 /\ Content(AsOf(u))'[f] = pages'[LastOf(ToldIn(pages', f, u))].content[f]
<1> SUFFICES ASSUME ToldIn(pages, f, u) # {}
             PROVE  AsOf(u)' # 0 /\ Content(AsOf(u))'[f] = pages'[LastOf(ToldIn(pages, f, u))].content[f]
  OBVIOUS
<1>1. ToldIn(pages, f, u) \in SUBSET (1 .. Len(pages)) /\ Len(pages) \in Nat
  BY DEF ToldIn, HistoryInv, HistoryTypeOK
<1>2. LastOf(ToldIn(pages, f, u)) \in DOMAIN pages
  BY <1>1, LastIs DEF ToldIn
<1>3. AsOf(u) # 0 /\ Content(AsOf(u))[f] = pages[LastOf(ToldIn(pages, f, u))].content[f]
  BY DEF HistoryInv, PagesKept
<1> QED
  BY <1>2, <1>3

\* What a card persists keeps the invariant.
LEMMA CardPersisted ==
  ASSUME HistoryInv, NEW t \in 1 .. FetchTimes, NEW card \in CardStates, NEW images \in SUBSET Assets,
         PersistCard(t, card, images)
  PROVE  HistoryInv'
<1> DEFINE n == Len(pages')
           id == <<"snapshot", n>>
<1>0. Record("card", t, card, images) /\ UNCHANGED details
  BY DEF PersistCard
<1>1. /\ pages' \in Seq(PageRows) /\ n = Len(pages) + 1 /\ n \in 1 .. MaxPages
      /\ DOMAIN pages' = DOMAIN pages \cup {n} /\ n \notin DOMAIN pages
      /\ pages'[n].kind = "card" /\ pages'[n].at = t /\ pages'[n].content = card
      /\ \A m \in DOMAIN pages : pages'[m] = pages[m] /\ pages[m] \in PageRows
  BY <1>0, PageAdded
<1>2. bundle' \in [Assets -> GalleryRows] /\ inline' \in [Assets -> GalleryRows] /\ GallerySound'
  BY <1>0, GalleryMerged
<1>3. \/ Changed(card) /\ AddSnapshot(t, card) /\ payloads' = With(payloads, id, card)
      \/ ~Changed(card) /\ UNCHANGED <<snapshots, latest, payloads>>
  BY <1>1 DEF PersistCard
<1>4. card \in Contents /\ id \in PayloadIds
  BY <1>1, HistoryConstants DEF PayloadIds
<1>5. /\ DOMAIN payloads \subseteq DOMAIN payloads'
      /\ \A i \in DOMAIN payloads : payloads'[i] = payloads[i]
      /\ id \notin DOMAIN payloads
      /\ Changed(card) => DOMAIN payloads' = DOMAIN payloads \cup {id} /\ payloads'[id] = card
  <2>1. id \notin DOMAIN payloads
    BY <1>1, PayloadIs
  <2> HIDE DEF id
  <2>2. CASE Changed(card) /\ payloads' = With(payloads, id, card)
    <3>1. /\ DOMAIN payloads' = DOMAIN payloads \cup {id} /\ payloads'[id] = card
          /\ \A i \in DOMAIN payloads : i # id => payloads'[i] = payloads[i]
      BY <2>2, Zenon DEF With
    <3> QED
      BY <2>1, <3>1
  <2>3. CASE ~Changed(card) /\ UNCHANGED payloads
    BY <2>1, <2>3
  <2> QED
    BY <1>3, <2>2, <2>3
<1>6. Changed(card) =>
        /\ snapshots' \in Seq(SnapshotRows) /\ Len(snapshots') = Len(snapshots) + 1
        /\ DOMAIN snapshots' = DOMAIN snapshots \cup {Len(snapshots')}
        /\ snapshots'[Len(snapshots')].observed = t /\ snapshots'[Len(snapshots')].hash = card
        /\ snapshots'[Len(snapshots')].payload = id
        /\ \A i \in DOMAIN snapshots : snapshots'[i] = snapshots[i]
        /\ latest' \in 0 .. Len(snapshots') /\ LatestSound'
        /\ \A u \in Nat : u < t => AsOf(u)' = AsOf(u)
        /\ \A u \in Nat : u >= t =>
             AsOf(u)' = IF AsOf(u) = 0 \/ snapshots[AsOf(u)].observed <= t THEN Len(snapshots') ELSE AsOf(u)
  <2>1. Len(pages) < MaxPages
    BY <1>0 DEF Record
  <2> QED
    BY <1>1, <1>3, <2>1, SnapshotAdded
<1>7. \A i \in DOMAIN snapshots : /\ snapshots'[i] = snapshots[i] /\ SnapshotSound(snapshots[i])'
                                  /\ payloads'[snapshots'[i].payload] = Content(i)
  <2>1. \A i \in DOMAIN snapshots : snapshots'[i] = snapshots[i]
    BY <1>3, <1>6
  <2> QED
    BY <1>1, <1>5, <2>1, SnapshotsStay
<1>8. HistoryTypeOK'
  <2>1. snapshots' \in Seq(SnapshotRows) /\ latest' \in 0 .. Len(snapshots')
    BY <1>3, <1>6 DEF HistoryInv, HistoryTypeOK
  <2>2. DOMAIN payloads' \subseteq PayloadIds /\ Range(payloads') \subseteq Contents
    BY <1>3, <1>4, <1>5 DEF HistoryInv, HistoryTypeOK, Range
  <2> QED
    BY <1>0, <1>1, <1>2, <2>1, <2>2 DEF HistoryInv, HistoryTypeOK
<1>9. SnapshotsSound'
  <2>1. CASE Changed(card)
    <3>1. ASSUME NEW i \in DOMAIN snapshots', i = Len(snapshots') PROVE SnapshotSound(snapshots[i])'
      <4>1. \E m \in DOMAIN pages' : snapshots'[i].payload = <<"snapshot", m>> /\ snapshots'[i].observed = pages'[m].at
        BY <1>1, <1>6, <2>1, <3>1
      <4>2. snapshots'[i].payload = id /\ snapshots'[i].hash = card
        BY <1>6, <2>1, <3>1
      <4>3. id \in DOMAIN payloads' /\ payloads'[id] = card
        BY <1>5, <2>1
      <4> QED
        BY <1>4, <4>1, <4>2, <4>3 DEF SnapshotSound
    <3> QED
      BY <1>6, <1>7, <2>1, <3>1 DEF SnapshotsSound
  <2>2. CASE ~Changed(card)
    BY <1>3, <1>7, <2>2 DEF SnapshotsSound
  <2> QED
    BY <2>1, <2>2
<1>10. LatestSound'
  BY <1>3, <1>6 DEF HistoryInv, LatestSound
<1>11. DetailsSound'
  <2>1. PagesOfDetails' = PagesOfDetails
    BY <1>1 DEF PagesOfDetails
  <2>2. ASSUME NEW m \in PagesOfDetails, DetailOf(m) PROVE DetailOf(m)'
    BY <1>0, <1>1, <1>5, <2>2 DEF DetailOf, PagesOfDetails
  <2>3. \A m \in PagesOfDetails : pages'[m] = pages[m]
    BY <1>1 DEF PagesOfDetails
  <2> QED
    BY <1>0, <2>1, <2>2, <2>3 DEF HistoryInv, DetailsSound
<1>12. PayloadsAreUsed'
  <2>1. CASE Changed(card)
    <3>1. {snapshots'[i].payload : i \in DOMAIN snapshots'} = {snapshots[i].payload : i \in DOMAIN snapshots} \cup {id}
      BY <1>6, <2>1
    <3>2. DOMAIN payloads' = DOMAIN payloads \cup {id}
      BY <1>5, <2>1
    <3> QED
      BY <1>0, <3>1, <3>2 DEF HistoryInv, PayloadsAreUsed
  <2>2. CASE ~Changed(card)
    BY <1>0, <1>3, <2>2 DEF HistoryInv, PayloadsAreUsed
  <2> QED
    BY <2>1, <2>2
<1>13. PagesKept'
  <2> SUFFICES ASSUME InOrder', NEW u \in 1 .. FetchTimes, NEW f \in Attributes, ToldIn(pages', f, u) # {}
               PROVE  AsOf(u)' # 0 /\ Content(AsOf(u))'[f] = pages'[LastOf(ToldIn(pages', f, u))].content[f]
    BY DEF PagesKept
  <2>0. u \in Nat /\ t \in Nat /\ \A m \in DOMAIN pages : pages[m].at \in Nat /\ m \in Nat
    <3>1. \A m \in DOMAIN pages : pages[m].at \in 1 .. FetchTimes
      BY <1>1, PageFields
    <3>2. \A m \in DOMAIN pages : m \in Nat
      BY DEF HistoryInv, HistoryTypeOK
    <3> QED
      BY <3>1, <3>2, HistoryConstants
  <2>1. InOrder /\ \A m \in DOMAIN pages : pages[m].at <= t
    BY <1>0, InOrderBefore
  <2>2. AsOf(u) # 0 => AsOf(u) \in DOMAIN snapshots
    BY <2>0, AsOfIs, AsOfPresent DEF HistoryInv, HistoryTypeOK
  <2>3. CASE u < t
    <3>1. ToldIn(pages', f, u) = ToldIn(pages, f, u)
      BY <1>1, <2>0, <2>3 DEF ToldIn
    <3>2. AsOf(u)' = AsOf(u)
      <4>1. CASE Changed(card)
        BY <1>6, <2>0, <2>3, <4>1
      <4>2. CASE ~Changed(card)
        BY <1>3, <4>2, AsOfPresent
      <4> QED
        BY <4>1, <4>2
    <3>3. AsOf(u) # 0 => AsOf(u)' # 0 /\ Content(AsOf(u))'[f] = Content(AsOf(u))[f]
      BY <1>7, <2>2, <3>2 DEF Content
    <3> QED
      BY <1>1, <2>1, <3>1, <3>3, PagesUnchanged
  <2>4. CASE u >= t
    <3>1. n \in ToldIn(pages', f, u) /\ \A m \in ToldIn(pages', f, u) : m <= n
      BY <1>1, <2>0, <2>4 DEF ToldIn, HistoryInv, HistoryTypeOK
    <3>2. LastOf(ToldIn(pages', f, u)) = n
      <4>1. ToldIn(pages', f, u) \in SUBSET (1 .. n) /\ n \in Nat
        BY <1>1 DEF ToldIn
      <4> HIDE DEF n
      <4> QED
        BY <3>1, <4>1, LastIs
    <3>3. \A i \in DOMAIN snapshots : snapshots[i].observed <= t /\ snapshots[i].observed <= u
      <4>1. \A i \in DOMAIN snapshots : \E m \in DOMAIN pages : snapshots[i].observed = pages[m].at
        BY DEF HistoryInv, SnapshotsSound, SnapshotSound
      <4> QED
        BY <2>0, <2>1, <2>4, <4>1
    <3>4. CASE Changed(card)
      <4>1. AsOf(u)' = Len(snapshots') /\ Len(snapshots') # 0
        BY <1>6, <2>0, <2>2, <2>4, <3>3, <3>4 DEF HistoryInv, HistoryTypeOK
      <4>2. Content(AsOf(u))' = card
        BY <1>5, <1>6, <3>4, <4>1 DEF Content
      <4> QED
        BY <1>1, <3>2, <4>1, <4>2
    <3>5. CASE ~Changed(card)
      <4>1. latest \in DOMAIN snapshots /\ snapshots[latest].hash = card
        BY <3>5 DEF Changed, HistoryInv, HistoryTypeOK
      <4>2. Content(latest) = card
        BY <4>1 DEF HistoryInv, SnapshotsSound, SnapshotSound, Content
      <4>3. AsOfIn(snapshots, u) = latest
        <5>1. latest \in Observed(snapshots, u) /\ \A j \in Observed(snapshots, u) : NotNewer(snapshots, j, latest)
          BY <3>3, <4>1 DEF Observed, HistoryInv, LatestSound
        <5> QED
          BY <2>0, <5>1, AsOfIs DEF HistoryInv, HistoryTypeOK
      <4>4. AsOf(u)' = latest /\ latest # 0
        BY <1>3, <3>5, <4>1, <4>3, AsOfPresent DEF Changed
      <4>5. Content(AsOf(u))' = Content(latest)
        BY <1>3, <3>5, <4>4 DEF Content
      <4> QED
        BY <1>1, <3>2, <4>2, <4>4, <4>5
    <3> QED
      BY <3>4, <3>5
  <2> QED
    BY <2>0, <2>3, <2>4
<1>14. Len(pages') <= MaxPages
  BY <1>1, HistoryConstants
<1> QED
  BY <1>2, <1>8, <1>9, <1>10, <1>11, <1>12, <1>13, <1>14 DEF HistoryInv

-----------------------------------------------------------------------------
(* The page of a detail.                                                   *)

\* A merged content is a content.
LEMMA MergedIs ==
  ASSUME NEW old \in Contents, NEW detail \in DetailStates
  PROVE  Merged(old, detail) \in Contents /\ \A f \in Attributes :
           Merged(old, detail)[f] = IF detail[f] = Unknown THEN old[f] ELSE detail[f]
BY HistoryConstants DEF Contents, Merged

\* What a detail page does to the snapshots and their bundles: nothing, or one more.
LEMMA Enriches ==
  ASSUME HistoryInv, NEW t \in 1 .. FetchTimes, NEW detail \in DetailStates, NEW images \in SUBSET Assets,
         PersistDetail(t, detail, images)
  PROVE  LET old == AsOf(t)
             new == <<"snapshot", Len(pages) + 1>>
             rows == Enrichment(t, detail)
         IN  /\ new \notin DOMAIN payloads
             /\ \A i \in DOMAIN payloads : i \in DOMAIN rows /\ rows[i] = payloads[i]
             /\ \/ /\ UNCHANGED <<snapshots, latest>> /\ rows = payloads
                   /\ old # 0 => Merged(Content(old), detail) = Content(old)
                \/ /\ old \in DOMAIN snapshots /\ AddSnapshot(t, Enriched)
                   /\ DOMAIN rows = DOMAIN payloads \cup {new}
                   /\ rows[new] = Merged(Content(old), detail)
<1> DEFINE old == AsOf(t)
           new == <<"snapshot", Len(pages) + 1>>
           rows == Enrichment(t, detail)
           content == Merged(Content(old), detail)
<1>1. new \notin DOMAIN payloads
  <2>1. Len(pages) + 1 \notin DOMAIN pages
    BY DEF HistoryInv, HistoryTypeOK
  <2> QED
    BY <2>1, PayloadIs
<1>2. \/ UNCHANGED <<snapshots, latest>> /\ rows = payloads /\ (old # 0 => content = Content(old))
      \/ old # 0 /\ AddSnapshot(t, Enriched) /\ rows = With(payloads, new, content)
  BY DEF PersistDetail, Enrich, Enrichment, MergeChanges, Basis
<1>3. old # 0 => old \in DOMAIN snapshots
  BY HistoryConstants, AsOfIs, AsOfPresent DEF HistoryInv, HistoryTypeOK
<1> HIDE DEF content, rows, new, old
<1>4. CASE UNCHANGED <<snapshots, latest>> /\ rows = payloads /\ (old # 0 => content = Content(old))
  BY <1>1, <1>4 DEF rows, new, old, content
<1>5. CASE old # 0 /\ AddSnapshot(t, Enriched) /\ rows = With(payloads, new, content)
  <2>1. /\ DOMAIN rows = DOMAIN payloads \cup {new} /\ rows[new] = content
        /\ \A i \in DOMAIN payloads : i # new => rows[i] = payloads[i]
    BY <1>5, Zenon DEF With
  <2>2. \A i \in DOMAIN payloads : i \in DOMAIN rows /\ rows[i] = payloads[i]
    BY <1>1, <2>1
  <2> QED
    BY <1>1, <1>3, <1>5, <2>1, <2>2 DEF rows, new, old, content
<1> QED
  BY <1>2, <1>4, <1>5

\* What a detail page writes of its own keys, and what it leaves of the bundles.
LEMMA Details ==
  ASSUME HistoryInv, NEW t \in 1 .. FetchTimes, NEW detail \in DetailStates, NEW images \in SUBSET Assets,
         PersistDetail(t, detail, images)
  PROVE  LET id == <<"detail", Len(pages) + 1>>
             rows == Enrichment(t, detail)
         IN  /\ id \notin DOMAIN rows
             /\ \A i \in DOMAIN rows : i # details.payload => i \in DOMAIN payloads' /\ payloads'[i] = rows[i]
             /\ \/ /\ t >= details.fetched /\ details' = [fetched |-> t, payload |-> id]
                   /\ DOMAIN payloads' = (DOMAIN rows \cup {id}) \ {details.payload}
                   /\ id \in DOMAIN payloads' /\ payloads'[id] = detail
                \/ t < details.fetched /\ UNCHANGED details /\ payloads' = rows
<1> DEFINE id == <<"detail", Len(pages) + 1>>
           rows == Enrichment(t, detail)
           content == detail
           written == With(rows, id, content)
<1>1. Len(pages) + 1 \notin DOMAIN pages
  BY DEF HistoryInv, HistoryTypeOK
<1>2. id \notin DOMAIN payloads
  BY <1>1, PayloadIs
<1>3. id # details.payload
  BY <1>1 DEF HistoryInv, DetailsSound, DetailOf, PagesOfDetails, NoDetails, NoPayload
<1>4. id \notin DOMAIN rows
  <2>1. DOMAIN rows = DOMAIN payloads \/ DOMAIN rows = DOMAIN payloads \cup {<<"snapshot", Len(pages) + 1>>}
    BY Enriches
  <2> HIDE DEF rows
  <2> QED
    BY <1>2, <2>1
<1>5. \/ t >= details.fetched /\ details' = [fetched |-> t, payload |-> id]
         /\ payloads' = WithoutUnused(written, details.payload)
      \/ ~(t >= details.fetched) /\ UNCHANGED details /\ payloads' = rows
  BY DEF PersistDetail, DetailUnlessNewer
<1>6. t \in Nat /\ details.fetched \in Nat
  BY HistoryConstants DEF HistoryInv, HistoryTypeOK, DetailRows
<1> HIDE DEF id, rows, content, written
<1>7. CASE /\ t >= details.fetched /\ details' = [fetched |-> t, payload |-> id]
           /\ payloads' = WithoutUnused(written, details.payload)
  <2>1. /\ DOMAIN written = DOMAIN rows \cup {id} /\ written[id] = content
        /\ \A i \in DOMAIN rows : i # id => written[i] = rows[i]
    BY Zenon DEF written, With
  <2>2. /\ DOMAIN payloads' = DOMAIN written \ {details.payload}
        /\ \A i \in DOMAIN written : i # details.payload => payloads'[i] = written[i]
    BY <1>7, Zenon DEF WithoutUnused
  <2>3. \A i \in DOMAIN rows : i # details.payload => i \in DOMAIN payloads' /\ payloads'[i] = rows[i]
    BY <1>4, <2>1, <2>2
  <2>4. id \in DOMAIN payloads' /\ payloads'[id] = content
    BY <1>3, <2>1, <2>2
  <2> QED
    BY <1>4, <1>7, <2>1, <2>2, <2>3, <2>4 DEF id, rows, content
<1>8. CASE ~(t >= details.fetched) /\ UNCHANGED details /\ payloads' = rows
  BY <1>4, <1>6, <1>8 DEF id, rows
<1> QED
  BY <1>5, <1>7, <1>8

\* A detail page leaves the bundles of all snapshots.
LEMMA SnapshotBundlesStay ==
  ASSUME HistoryInv, NEW t \in 1 .. FetchTimes, NEW detail \in DetailStates, NEW images \in SUBSET Assets,
         PersistDetail(t, detail, images)
  PROVE  \A m \in DOMAIN pages' : LET id == <<"snapshot", m>> IN
           id \in DOMAIN Enrichment(t, detail) => id \in DOMAIN payloads' /\ payloads'[id] = Enrichment(t, detail)[id]
<1>1. \A m : <<"snapshot", m>> # details.payload
  BY DEF HistoryInv, DetailsSound, DetailOf, PagesOfDetails, NoDetails, NoPayload
<1> HIDE DEF Enrichment
<1>2. \A i \in DOMAIN Enrichment(t, detail) :
        i # details.payload => i \in DOMAIN payloads' /\ payloads'[i] = Enrichment(t, detail)[i]
  BY Details
<1> QED
  BY <1>1, <1>2, Zenon

\* A detail page is merged over the history from its time to the next observation, and only there.
LEMMA DetailIsEvidence ==
  ASSUME HistoryInv, NEW t \in 1 .. FetchTimes, NEW detail \in DetailStates, NEW images \in SUBSET Assets,
         PersistDetail(t, detail, images), NEW u \in Nat, AsOf(u) # 0
  PROVE  AsOf(u)' # 0 /\ Content(AsOf(u))' =
           IF t <= u /\ snapshots[AsOf(u)].observed <= t
           THEN Merged(Content(AsOf(u)), detail) ELSE Content(AsOf(u))
<1> DEFINE old == AsOf(t)
           new == <<"snapshot", Len(pages) + 1>>
           rows == Enrichment(t, detail)
<1>0. /\ snapshots \in Seq(SnapshotRows) /\ t \in Nat /\ Len(pages) < MaxPages
      /\ \A i \in DOMAIN snapshots : snapshots[i].observed \in Nat
  <2>1. \A r \in SnapshotRows : r.observed \in Nat
    BY HistoryConstants DEF SnapshotRows
  <2>2. snapshots \in Seq(SnapshotRows) /\ t \in Nat /\ Len(pages) < MaxPages
    BY HistoryConstants DEF HistoryInv, HistoryTypeOK, PersistDetail, Record
  <2> QED
    BY <2>1, <2>2
<1>1. /\ AsOf(u) = AsOfIn(snapshots, u) /\ AsOf(u) \in DOMAIN snapshots /\ snapshots[AsOf(u)].observed <= u
      /\ \A j \in Observed(snapshots, u) : NotNewer(snapshots, j, AsOf(u))
  BY <1>0, AsOfIs, AsOfPresent
<1>2. \A i \in DOMAIN payloads : i \in DOMAIN rows /\ rows[i] = payloads[i]
  BY Enriches
<1>3. \/ UNCHANGED <<snapshots, latest>> /\ (old # 0 => Merged(Content(old), detail) = Content(old))
      \/ /\ old \in DOMAIN snapshots /\ AddSnapshot(t, Enriched)
         /\ new \in DOMAIN rows /\ rows[new] = Merged(Content(old), detail)
  BY Enriches
<1>7. t <= u /\ snapshots[AsOf(u)].observed <= t => AsOf(u) = old
  <2>1. ASSUME t <= u, snapshots[AsOf(u)].observed <= t PROVE AsOf(u) = old
    <3>1. AsOf(u) \in Observed(snapshots, t) /\ Observed(snapshots, t) \subseteq Observed(snapshots, u)
      BY <1>0, <1>1, <2>1 DEF Observed
    <3> QED
      BY <1>0, <1>1, <3>1, AsOfIs, AsOfPresent
  <2> QED
    BY <2>1
<1>4. \A i \in DOMAIN snapshots : snapshots[i].payload \in DOMAIN payloads' /\ payloads'[snapshots[i].payload] = Content(i)
  <2> SUFFICES ASSUME NEW i \in DOMAIN snapshots
               PROVE  snapshots[i].payload \in DOMAIN payloads' /\ payloads'[snapshots[i].payload] = Content(i)
    OBVIOUS
  <2>1. PICK m \in DOMAIN pages : snapshots[i].payload = <<"snapshot", m>>
    BY DEF HistoryInv, SnapshotsSound, SnapshotSound
  <2>2. snapshots[i].payload \in DOMAIN rows /\ rows[snapshots[i].payload] = Content(i)
    BY <1>2 DEF HistoryInv, SnapshotsSound, SnapshotSound, Content
  <2>3. m \in DOMAIN pages'
    BY PageAdded DEF PersistDetail
  <2> HIDE DEF rows
  <2> QED
    BY <2>1, <2>2, <2>3, SnapshotBundlesStay DEF rows
<1>5. CASE UNCHANGED <<snapshots, latest>> /\ (old # 0 => Merged(Content(old), detail) = Content(old))
  <2>1. AsOf(u)' = AsOf(u)
    BY <1>5, AsOfPresent
  <2>2. Content(AsOf(u))' = Content(AsOf(u))
    BY <1>1, <1>4, <1>5, <2>1 DEF Content
  <2> HIDE DEF old
  <2> QED
    BY <1>5, <1>7, <2>1, <2>2
<1>6. CASE /\ old \in DOMAIN snapshots /\ AddSnapshot(t, Enriched)
           /\ new \in DOMAIN rows /\ rows[new] = Merged(Content(old), detail)
  <2>1. /\ \A i \in DOMAIN snapshots : snapshots'[i] = snapshots[i]
        /\ snapshots'[Len(snapshots')].payload = new /\ Len(snapshots') = Len(snapshots) + 1
        /\ u < t => AsOf(u)' = AsOf(u)
        /\ u >= t => AsOf(u)' = IF snapshots[AsOf(u)].observed <= t THEN Len(snapshots') ELSE AsOf(u)
    <3>1. Enriched \in CardStates \cup {Enriched}
      OBVIOUS
    <3> QED
      BY <1>0, <1>6, <3>1, SnapshotAdded
  <2>2. CASE ~(t <= u /\ snapshots[AsOf(u)].observed <= t)
    <3>1. AsOf(u)' = AsOf(u)
      BY <1>0, <2>1, <2>2
    <3>2. Content(AsOf(u))' = Content(AsOf(u))
      BY <1>1, <1>4, <2>1, <3>1 DEF Content
    <3> QED
      BY <2>2, <3>1, <3>2
  <2>3. CASE t <= u /\ snapshots[AsOf(u)].observed <= t
    <3>1. AsOf(u) = old
      BY <1>7, <2>3
    <3>2. AsOf(u)' = Len(snapshots') /\ Len(snapshots') # 0
      BY <1>0, <2>1, <2>3
    <3>3. new \in DOMAIN payloads' /\ payloads'[new] = rows[new]
      <4>1. Len(pages) + 1 \in DOMAIN pages'
        BY PageAdded DEF PersistDetail
      <4> HIDE DEF rows
      <4> QED
        BY <1>6, <4>1, SnapshotBundlesStay DEF rows
    <3>4. Content(AsOf(u))' = Merged(Content(old), detail)
      BY <1>6, <2>1, <3>2, <3>3 DEF Content
    <3> HIDE DEF old
    <3> QED
      BY <2>3, <3>1, <3>2, <3>4
  <2> QED
    BY <2>2, <2>3
<1> QED
  BY <1>3, <1>5, <1>6

\* What a detail page persists keeps the invariant.
LEMMA DetailPersisted ==
  ASSUME HistoryInv, NEW t \in 1 .. FetchTimes, NEW detail \in DetailStates, NEW images \in SUBSET Assets,
         PersistDetail(t, detail, images)
  PROVE  HistoryInv'
<1>a. PICK n \in Nat : n = Len(pages) + 1
  BY DEF HistoryInv, HistoryTypeOK
<1> DEFINE id == <<"detail", n>>
           new == <<"snapshot", n>>
           old == AsOf(t)
           rows == Enrichment(t, detail)
           enriched == Merged(Content(old), detail)
<1>b. Record("detail", t, detail, images)
  BY DEF PersistDetail
<1>1. /\ pages' \in Seq(PageRows) /\ Len(pages') = n /\ n \in 1 .. MaxPages
      /\ DOMAIN pages' = DOMAIN pages \cup {n} /\ n \notin DOMAIN pages
      /\ pages'[n].kind = "detail" /\ pages'[n].at = t /\ pages'[n].content = detail
      /\ \A m \in DOMAIN pages : pages'[m] = pages[m] /\ pages[m] \in PageRows
  <2>1. Len(pages') = n
    BY <1>a, <1>b, PageAdded
  <2> QED
    BY <1>b, <2>1, PageAdded
<1>2. bundle' \in [Assets -> GalleryRows] /\ inline' \in [Assets -> GalleryRows] /\ GallerySound'
  BY <1>b, GalleryMerged
<1>3. /\ new \notin DOMAIN payloads
      /\ \A i \in DOMAIN payloads : i \in DOMAIN rows /\ rows[i] = payloads[i]
      /\ \/ UNCHANGED <<snapshots, latest>> /\ rows = payloads
         \/ /\ old \in DOMAIN snapshots /\ AddSnapshot(t, Enriched)
            /\ DOMAIN rows = DOMAIN payloads \cup {new} /\ rows[new] = enriched
  <2> HIDE DEF rows, old, enriched
  <2> QED
    BY <1>a, Enriches DEF rows, old, enriched
<1>4. /\ id \notin DOMAIN rows
      /\ \A i \in DOMAIN rows : i # details.payload => i \in DOMAIN payloads' /\ payloads'[i] = rows[i]
      /\ \/ /\ t >= details.fetched /\ details' = [fetched |-> t, payload |-> id]
            /\ DOMAIN payloads' = (DOMAIN rows \cup {id}) \ {details.payload}
            /\ id \in DOMAIN payloads' /\ payloads'[id] = detail
         \/ t < details.fetched /\ UNCHANGED details /\ payloads' = rows
  BY <1>a, Details
<1>5. \A m \in DOMAIN pages' : <<"snapshot", m>> \in DOMAIN rows =>
        <<"snapshot", m>> \in DOMAIN payloads' /\ payloads'[<<"snapshot", m>>] = rows[<<"snapshot", m>>]
  BY SnapshotBundlesStay
<1>6. old \in DOMAIN snapshots => enriched \in Contents
  <2>1. old \in DOMAIN snapshots => Content(old) \in Contents
    BY DEF HistoryInv, SnapshotsSound, SnapshotSound, Content
  <2> HIDE DEF old
  <2> QED
    BY <2>1, MergedIs
<1>7. t \in Nat /\ details.fetched \in Nat /\ details \in DetailRows
  BY HistoryConstants DEF HistoryInv, HistoryTypeOK, DetailRows
<1> HIDE DEF rows, enriched, old
<1>8. AddSnapshot(t, Enriched) =>
        /\ snapshots' \in Seq(SnapshotRows) /\ Len(snapshots') = Len(snapshots) + 1
        /\ DOMAIN snapshots' = DOMAIN snapshots \cup {Len(snapshots')}
        /\ snapshots'[Len(snapshots')].observed = t /\ snapshots'[Len(snapshots')].hash = Enriched
        /\ snapshots'[Len(snapshots')].payload = new
        /\ \A i \in DOMAIN snapshots : snapshots'[i] = snapshots[i]
        /\ latest' \in 0 .. Len(snapshots') /\ LatestSound'
  <2>1. Len(pages) < MaxPages /\ Enriched \in CardStates \cup {Enriched}
    BY <1>b DEF Record
  <2> QED
    BY <1>a, <2>1, SnapshotAdded
<1>9. \A i \in DOMAIN snapshots : snapshots'[i] = snapshots[i] /\ SnapshotSound(snapshots[i])'
  <2>1. \A i \in DOMAIN snapshots : snapshots'[i] = snapshots[i]
    BY <1>3, <1>8
  <2>2. \A m \in DOMAIN pages : <<"snapshot", m>> \in DOMAIN payloads =>
          <<"snapshot", m>> \in DOMAIN payloads' /\ payloads'[<<"snapshot", m>>] = payloads[<<"snapshot", m>>]
    BY <1>1, <1>3, <1>5
  <2> QED
    BY <1>1, <2>1, <2>2, SnapshotsStay
<1>10. HistoryTypeOK'
  <2>1. snapshots' \in Seq(SnapshotRows) /\ latest' \in 0 .. Len(snapshots')
    BY <1>3, <1>8 DEF HistoryInv, HistoryTypeOK
  <2>2. id \in PayloadIds /\ new \in PayloadIds /\ detail \in Contents
    BY <1>1, HistoryConstants DEF PayloadIds
  <2>3. \A i \in DOMAIN rows : i \in PayloadIds /\ rows[i] \in Contents
    <3>1. \A i \in DOMAIN payloads : i \in PayloadIds /\ payloads[i] \in Contents
      BY DEF HistoryInv, HistoryTypeOK, Range
    <3>2. CASE rows = payloads
      BY <3>1, <3>2
    <3>3. CASE DOMAIN rows = DOMAIN payloads \cup {new} /\ rows[new] = enriched /\ old \in DOMAIN snapshots
      BY <1>3, <1>6, <2>2, <3>1, <3>3
    <3> QED
      BY <1>3, <3>2, <3>3
  <2>4. \A i \in DOMAIN payloads' : i \in PayloadIds /\ payloads'[i] \in Contents
    <3>1. CASE payloads' = rows
      BY <2>3, <3>1
    <3>2. CASE /\ DOMAIN payloads' = (DOMAIN rows \cup {id}) \ {details.payload}
               /\ payloads'[id] = detail
      BY <1>4, <2>2, <2>3, <3>2
    <3> QED
      BY <1>4, <3>1, <3>2
  <2>5. DOMAIN payloads' \subseteq PayloadIds /\ Range(payloads') \subseteq Contents
    BY <2>4 DEF Range
  <2>6. details' \in DetailRows
    BY <1>4, <1>7, <2>2, HistoryConstants DEF DetailRows
  <2> QED
    BY <1>1, <1>2, <2>1, <2>5, <2>6 DEF HistoryTypeOK
<1>11. SnapshotsSound'
  <2>1. CASE AddSnapshot(t, Enriched) /\ DOMAIN rows = DOMAIN payloads \cup {new} /\ rows[new] = enriched
                /\ old \in DOMAIN snapshots
    <3>1. ASSUME NEW i \in DOMAIN snapshots', i = Len(snapshots') PROVE SnapshotSound(snapshots[i])'
      <4>1. \E m \in DOMAIN pages' : snapshots'[i].payload = <<"snapshot", m>> /\ snapshots'[i].observed = pages'[m].at
        BY <1>1, <1>8, <2>1, <3>1
      <4>2. snapshots'[i].payload = new /\ snapshots'[i].hash \notin CardStates
        BY <1>8, <2>1, <3>1, HistoryConstants
      <4>3. new \in DOMAIN payloads' /\ payloads'[new] = enriched
        BY <1>1, <1>5, <2>1
      <4> QED
        BY <1>6, <2>1, <4>1, <4>2, <4>3 DEF SnapshotSound
    <3> QED
      BY <1>8, <1>9, <2>1, <3>1 DEF SnapshotsSound
  <2>2. CASE UNCHANGED <<snapshots, latest>>
    BY <1>9, <2>2 DEF SnapshotsSound
  <2> QED
    BY <1>3, <2>1, <2>2
<1>12. LatestSound'
  BY <1>3, <1>8 DEF HistoryInv, LatestSound
<1>13. DetailsSound'
  <2>1. PagesOfDetails' = PagesOfDetails \cup {n}
    BY <1>1 DEF PagesOfDetails
  <2>2. \A m \in PagesOfDetails : pages'[m] = pages[m] /\ m \in DOMAIN pages
    BY <1>1 DEF PagesOfDetails
  <2>3. \A m \in PagesOfDetails : pages[m].at \in Nat /\ pages[m].at <= details.fetched
    <3>1. \A m \in DOMAIN pages : pages[m].at \in 1 .. FetchTimes
      BY <1>1, PageFields
    <3> QED
      BY <2>2, <3>1, HistoryConstants DEF HistoryInv, DetailsSound
  <2>4. CASE /\ t >= details.fetched /\ details' = [fetched |-> t, payload |-> id]
             /\ id \in DOMAIN payloads' /\ payloads'[id] = detail
    <3>1. details'.fetched = t /\ details'.payload = id /\ payloads'[id] = detail
      BY <2>4
    <3>2. DetailOf(n)'
      BY <1>1, <2>4, <3>1 DEF DetailOf
    <3>3. \A m \in PagesOfDetails' : pages'[m].at <= details'.fetched
      BY <1>1, <1>7, <2>1, <2>2, <2>3, <2>4, <3>1
    <3> QED
      BY <2>1, <3>2, <3>3 DEF DetailsSound
  <2>5. CASE t < details.fetched /\ UNCHANGED details /\ payloads' = rows
    <3>1. PICK m \in PagesOfDetails : DetailOf(m)
      BY <1>7, <2>5 DEF HistoryInv, DetailsSound, NoDetails
    <3>2. DetailOf(m)'
      BY <1>3, <2>2, <2>5, <3>1 DEF DetailOf
    <3>3. \A k \in PagesOfDetails' : pages'[k].at <= details'.fetched
      BY <1>1, <1>7, <2>1, <2>2, <2>3, <2>5
    <3> QED
      BY <2>1, <3>1, <3>2, <3>3 DEF DetailsSound
  <2> QED
    BY <1>4, <2>4, <2>5
<1>14. PayloadsAreUsed'
  <2> DEFINE used == {snapshots[i].payload : i \in DOMAIN snapshots}
             usedThen == {snapshots'[i].payload : i \in DOMAIN snapshots'}
  <2>1. DOMAIN payloads = used \cup ({details.payload} \ {NoPayload})
    BY DEF HistoryInv, PayloadsAreUsed
  <2>2. DOMAIN rows = usedThen \cup ({details.payload} \ {NoPayload})
    <3>1. CASE UNCHANGED <<snapshots, latest>> /\ rows = payloads
      BY <2>1, <3>1
    <3>2. CASE AddSnapshot(t, Enriched) /\ DOMAIN rows = DOMAIN payloads \cup {new}
      <4>1. usedThen = used \cup {new}
        BY <1>8, <3>2
      <4> HIDE DEF used, usedThen
      <4> QED
        BY <2>1, <3>2, <4>1
    <3> QED
      BY <1>3, <3>1, <3>2
  <2>3. details.payload \notin usedThen
    <3>1. \A i \in DOMAIN snapshots' : \E m \in DOMAIN pages' : snapshots'[i].payload = <<"snapshot", m>>
      BY <1>11 DEF SnapshotsSound, SnapshotSound
    <3>2. \A m : <<"snapshot", m>> # details.payload
      BY DEF HistoryInv, DetailsSound, DetailOf, PagesOfDetails, NoDetails, NoPayload
    <3> QED
      BY <3>1, <3>2
  <2>4. id # NoPayload /\ id # details.payload
    <3>1. id # NoPayload
      BY <1>1 DEF NoPayload
    <3>2. details.payload \in DOMAIN rows \/ details.payload = NoPayload
      BY <2>2
    <3> HIDE DEF id
    <3> QED
      BY <1>4, <3>1, <3>2
  <2> SUFFICES DOMAIN payloads' = usedThen \cup ({details'.payload} \ {NoPayload})
    BY DEF PayloadsAreUsed
  <2> HIDE DEF used, usedThen, id
  <2>5. CASE /\ details' = [fetched |-> t, payload |-> id]
             /\ DOMAIN payloads' = (DOMAIN rows \cup {id}) \ {details.payload}
    <3>1. details'.payload = id
      BY <2>5
    <3> QED
      BY <2>2, <2>3, <2>4, <2>5, <3>1
  <2>6. CASE UNCHANGED details /\ payloads' = rows
    BY <2>2, <2>6
  <2> QED
    BY <1>4, <2>5, <2>6
<1>15. PagesKept'
  <2> SUFFICES ASSUME InOrder', NEW u \in 1 .. FetchTimes, NEW f \in Attributes, ToldIn(pages', f, u) # {}
               PROVE  AsOf(u)' # 0 /\ Content(AsOf(u))'[f] = pages'[LastOf(ToldIn(pages', f, u))].content[f]
    BY DEF PagesKept
  <2>0. u \in Nat /\ \A m \in DOMAIN pages : m \in Nat /\ m < n
    <3>1. DOMAIN pages = 1 .. Len(pages) /\ Len(pages) \in Nat
      BY DEF HistoryInv, HistoryTypeOK
    <3> QED
      BY <1>a, <3>1, HistoryConstants
  <2>1. InOrder /\ \A m \in DOMAIN pages : pages[m].at <= t
    BY <1>b, InOrderBefore
  <2>2. AsOf(u) # 0 => AsOf(u) \in DOMAIN snapshots
    BY <2>0, AsOfIs, AsOfPresent DEF HistoryInv, HistoryTypeOK
  <2>3. AsOf(u) # 0 => AsOf(u)' # 0 /\ Content(AsOf(u))' =
          IF t <= u /\ snapshots[AsOf(u)].observed <= t
          THEN Merged(Content(AsOf(u)), detail) ELSE Content(AsOf(u))
    BY <2>0, DetailIsEvidence
  <2>4. CASE n \notin ToldIn(pages', f, u)
    <3>1. ToldIn(pages', f, u) = ToldIn(pages, f, u)
      BY <1>1, <2>4 DEF ToldIn
    <3>2. t <= u => detail[f] = Unknown
      BY <1>1, <2>4 DEF ToldIn
    <3>3. ASSUME AsOf(u) # 0 PROVE AsOf(u)' # 0 /\ Content(AsOf(u))'[f] = Content(AsOf(u))[f]
      BY <2>3, <3>2, <3>3 DEF Merged
    <3> QED
      BY <1>1, <2>1, <3>1, <3>3, PagesUnchanged
  <2>5. CASE n \in ToldIn(pages', f, u)
    <3>1. t <= u /\ detail[f] # Unknown
      BY <1>1, <2>5 DEF ToldIn
    <3>2. LastOf(ToldIn(pages', f, u)) = n
      <4>1. \A m \in ToldIn(pages', f, u) : m \in DOMAIN pages \/ m = n
        BY <1>1 DEF ToldIn
      <4>2. \A m \in DOMAIN pages : m \in 1 .. n
        BY <1>a DEF HistoryInv, HistoryTypeOK
      <4>3. ToldIn(pages', f, u) \in SUBSET (1 .. n)
        BY <1>a, <1>1, <4>1, <4>2
      <4>4. \A m \in ToldIn(pages', f, u) : m <= n
        BY <1>a, <4>3
      <4> QED
        BY <1>a, <2>5, <4>3, <4>4, LastIs
    <3>3. \A i \in DOMAIN snapshots : snapshots[i].observed <= t /\ snapshots[i].observed <= u
      <4>1. \A i \in DOMAIN snapshots : \E m \in DOMAIN pages : snapshots[i].observed = pages[m].at
        BY DEF HistoryInv, SnapshotsSound, SnapshotSound
      <4>2. \A m \in DOMAIN pages : pages[m].at \in 1 .. FetchTimes
        BY <1>1, PageFields
      <4> QED
        BY <1>7, <2>0, <2>1, <3>1, <4>1, <4>2, HistoryConstants
    <3>4. AsOf(u) # 0
      <4>1. latest \in DOMAIN snapshots
        BY DEF PersistDetail, HistoryInv, HistoryTypeOK
      <4>2. Observed(snapshots, u) # {}
        BY <3>3, <4>1 DEF Observed
      <4> QED
        BY <2>0, <4>2, AsOfIs, AsOfPresent DEF HistoryInv, HistoryTypeOK
    <3>5. Content(AsOf(u))'[f] = detail[f]
      BY <2>2, <2>3, <3>1, <3>3, <3>4 DEF Merged
    <3> QED
      BY <1>1, <2>3, <3>2, <3>4, <3>5
  <2> QED
    BY <2>4, <2>5
<1>16. Len(pages') <= MaxPages
  BY <1>1, HistoryConstants
<1> QED
  BY <1>2, <1>10, <1>11, <1>12, <1>13, <1>14, <1>15, <1>16 DEF HistoryInv

-----------------------------------------------------------------------------
(* The other steps.                                                        *)

\* Legacy images leave the pages of the stored assets as they are.
LEMMA AssetsBackfilled ==
  ASSUME HistoryInv, NEW b \in Assets, BackfillAssets(b)
  PROVE  HistoryInv'
<1> DEFINE row == [raw |-> IF inline[b] = NoRow THEN 0 ELSE inline[b].raw,
                   variants |-> inline[b].variants \cup {"legacy"}]
<1>1. /\ bundle \in [Assets -> GalleryRows] /\ inline \in [Assets -> GalleryRows]
      /\ UNCHANGED <<pages, snapshots, latest, details, payloads, bundle>> /\ inline' = [inline EXCEPT ![b] = row]
  <2>1. bundle \in [Assets -> GalleryRows] /\ inline \in [Assets -> GalleryRows]
    BY DEF HistoryInv, HistoryTypeOK
  <2>2. UNCHANGED <<pages, snapshots, latest, details, payloads, bundle>>
    BY DEF BackfillAssets
  <2>3. inline' = [inline EXCEPT ![b] = row]
    BY <2>1 DEF BackfillAssets
  <2> QED
    BY <2>1, <2>2, <2>3
<1>2. /\ row \in GalleryRows /\ row # NoRow
      /\ inline[b] = NoRow => row.raw = 0
      /\ inline[b] # NoRow => row.raw = inline[b].raw /\ inline[b].variants \subseteq row.variants
  <2>1. row.raw = (IF inline[b] = NoRow THEN 0 ELSE inline[b].raw) /\ row.variants = inline[b].variants \cup {"legacy"}
    OBVIOUS
  <2>2. row.raw \in 0 .. MaxPages /\ row.variants \in (SUBSET {"card", "detail", "legacy"}) \ {{}}
    BY <1>1, <2>1, GalleryRowIs, HistoryConstants
  <2>3. row \in GalleryRows
    BY <2>1, <2>2 DEF GalleryRows
  <2>4. row # NoRow
    BY <2>2, HistoryConstants DEF NoRow
  <2> QED
    BY <2>1, <2>3, <2>4
<1> HIDE DEF row
<1>3. HistoryTypeOK'
  BY <1>1, <1>2 DEF HistoryInv, HistoryTypeOK
<1>4. GallerySound'
  <2> SUFFICES ASSUME NEW a \in Assets PROVE AssetSound(a)'
    BY DEF GallerySound
  <2>1. AssetSound(a)
    BY DEF HistoryInv, GallerySound
  <2>2. CASE a # b \/ bundle[a] # NoRow
    <3>1. StoredAsset(a)' = StoredAsset(a)
      BY <1>1, <2>2 DEF StoredAsset
    <3> QED
      BY <1>1, <2>1, <3>1 DEF AssetSound, TimeOf
  <2>3. CASE a = b /\ bundle[a] = NoRow
    <3>1. StoredAsset(a) = inline[b] /\ StoredAsset(a)' = row
      BY <1>1, <2>3 DEF StoredAsset
    <3>2. CASE inline[b] = NoRow
      <4>1. 0 \notin DOMAIN pages /\ -1 \notin DOMAIN pages /\ \A m \in DOMAIN pages : pages[m].at \in 1 .. FetchTimes
        <5>1. \A m \in DOMAIN pages : pages[m] \in PageRows
          BY DEF HistoryInv, HistoryTypeOK
        <5> QED
          BY <5>1, PageFields DEF HistoryInv, HistoryTypeOK
      <4>2. \A m \in DOMAIN pages : a \notin pages[m].images
        BY <2>1, <3>1, <3>2, <4>1, HistoryConstants DEF AssetSound, TimeOf, NoRow
      <4> QED
        BY <1>1, <1>2, <3>1, <3>2, <4>1, <4>2 DEF AssetSound
    <3>3. CASE inline[b] # NoRow
      <4>1. /\ StoredAsset(a)'.raw = StoredAsset(a).raw
            /\ StoredAsset(a).variants \subseteq StoredAsset(a)'.variants
        BY <1>2, <3>1, <3>3
      <4> QED
        BY <1>1, <2>1, <4>1 DEF AssetSound, TimeOf
    <3> QED
      BY <3>2, <3>3
  <2> QED
    BY <2>2, <2>3
<1>5. SnapshotsSound' /\ LatestSound' /\ PayloadsAreUsed'
  BY <1>1 DEF HistoryInv, SnapshotsSound, SnapshotSound, LatestSound, PayloadsAreUsed
<1>6. DetailsSound'
  BY <1>1 DEF HistoryInv, DetailsSound, DetailOf, PagesOfDetails
<1>7. PagesKept'
  <2>1. \A u : AsOf(u)' = AsOf(u)
    BY <1>1 DEF AsOf, ObservedBy, NewestOf
  <2> QED
    BY <1>1, <2>1 DEF HistoryInv, PagesKept, InOrder, ToldIn, Content
<1> QED
  BY <1>1, <1>3, <1>4, <1>5, <1>6, <1>7 DEF HistoryInv

\* Every step keeps the invariant.
LEMMA HistoryStep == HistoryInv /\ [HistoryNext]_historyVars => HistoryInv'
<1> SUFFICES ASSUME HistoryInv, [HistoryNext]_historyVars PROVE HistoryInv'
  OBVIOUS
<1>1. ASSUME NEW t \in 1 .. FetchTimes, NEW images \in SUBSET Assets, NEW card \in CardStates,
             PersistCard(t, card, images)
      PROVE  HistoryInv'
  BY <1>1, CardPersisted
<1>2. ASSUME NEW t \in 1 .. FetchTimes, NEW images \in SUBSET Assets, NEW detail \in DetailStates,
             PersistDetail(t, detail, images)
      PROVE  HistoryInv'
  BY <1>2, DetailPersisted
<1>3. ASSUME NEW a \in Assets, BackfillAssets(a) PROVE HistoryInv'
  BY <1>3, AssetsBackfilled
<1>4. CASE UNCHANGED historyVars
  <2>1. UNCHANGED <<pages, snapshots, latest, details, payloads, bundle, inline>>
    BY <1>4 DEF historyVars
  <2>2. \A u : AsOf(u)' = AsOf(u)
    BY <2>1 DEF AsOf, ObservedBy, NewestOf
  <2>3. PagesKept'
    BY <2>1, <2>2 DEF HistoryInv, PagesKept, InOrder, ToldIn, Content
  <2>4. HistoryTypeOK' /\ SnapshotsSound' /\ LatestSound' /\ PayloadsAreUsed'
    BY <2>1 DEF HistoryInv, HistoryTypeOK, SnapshotsSound, SnapshotSound, LatestSound, PayloadsAreUsed
  <2>5. DetailsSound' /\ GallerySound'
    BY <2>1 DEF HistoryInv, DetailsSound, DetailOf, PagesOfDetails, GallerySound, AssetSound, StoredAsset, TimeOf
  <2> QED
    BY <2>1, <2>3, <2>4, <2>5 DEF HistoryInv
<1> QED
  BY <1>1, <1>2, <1>3, <1>4 DEF HistoryNext

\* The invariant holds whatever pages come, and in whatever order.
LEMMA HistoryHolds == HistorySpec => []HistoryInv
<1> QED
  BY HistoryInitially, HistoryStep, PTL DEF HistorySpec

-----------------------------------------------------------------------------
\* What is stored of a listing keeps its type.
THEOREM HistoryTypeCorrect == HistorySpec => []HistoryTypeOK
<1>1. HistoryInv => HistoryTypeOK
  BY DEF HistoryInv
<1> QED
  BY <1>1, HistoryHolds, PTL

\* When pages arrive in the order of their fetches the history gives for every
\* time and field what a card or a detail page told last by then (persistListingCard,
\* updateListingFromDetailPage).
THEOREM HistoryOfPages == HistorySpec => []PagesAreHistory
<1>1. HistoryInv => PagesAreHistory
  BY DEF HistoryInv, PagesKept, PagesAreHistory, ToldBy, ToldIn, LastOf
<1> QED
  BY <1>1, HistoryHolds, PTL

\* The public gallery is that of the newest page with images.
LEMMA GalleryStands == HistoryInv => GalleryIsNewest
<1> SUFFICES ASSUME HistoryInv, NEW n \in DOMAIN pages, pages[n].images # {},
                    \A m \in DOMAIN pages \ {n} : pages[m].images # {} => pages[m].at < pages[n].at
             PROVE  /\ PublicGallery = pages[n].images
                    /\ \A a \in PublicGallery, m \in DOMAIN pages :
                         a \in pages[m].images => pages[m].kind \in StoredAsset(a).variants
  BY DEF GalleryIsNewest
<1>1. \A m \in DOMAIN pages : pages[m].at \in 1 .. FetchTimes /\ pages[m].images \in SUBSET Assets
  <2>1. \A m \in DOMAIN pages : pages[m] \in PageRows
    BY DEF HistoryInv, HistoryTypeOK
  <2> QED
    BY <2>1, PageFields
<1>2. n \in Nat /\ n # 0 /\ \A m \in DOMAIN pages : m # 0 /\ m # -1 /\ m \in Nat
  BY DEF HistoryInv, HistoryTypeOK
<1>3. TimeOf(n) = pages[n].at /\ TimeOf(n) \in Nat /\ TimeOf(n) > 0
  BY <1>1, HistoryConstants DEF TimeOf
<1>4. ASSUME NEW a \in Assets
      PROVE  /\ AssetSound(a)
             /\ StoredAsset(a).raw = n <=> a \in pages[n].images
             /\ StoredAsset(a).raw # n => TimeOf(StoredAsset(a).raw) < TimeOf(n)
  <2> DEFINE raw == StoredAsset(a).raw
  <2>1. AssetSound(a)
    BY DEF HistoryInv, GallerySound
  <2>2. CASE raw \notin DOMAIN pages
    <3>1. TimeOf(raw) = 0 /\ raw # n
      BY <2>2 DEF TimeOf
    <3> QED
      BY <1>1, <1>3, <2>1, <3>1, HistoryConstants DEF AssetSound
  <2>3. CASE raw \in DOMAIN pages
    <3>1. a \in pages[raw].images /\ TimeOf(raw) = pages[raw].at
      BY <2>1, <2>3 DEF AssetSound, TimeOf
    <3>2. raw # n => pages[raw].at < pages[n].at
      BY <2>3, <3>1
    <3>3. a \in pages[n].images => pages[n].at <= TimeOf(raw)
      BY <2>1 DEF AssetSound
    <3>4. pages[raw].at \in Nat /\ pages[n].at \in Nat
      BY <1>1, <2>3, HistoryConstants
    <3> QED
      BY <1>3, <2>1, <3>1, <3>2, <3>3, <3>4
  <2> QED
    BY <2>2, <2>3
<1> DEFINE raws == {StoredAsset(a).raw : a \in Assets}
           last(r) == \A s \in raws : TimeOf(s) < TimeOf(r) \/ (TimeOf(s) = TimeOf(r) /\ s <= r)
<1>5. n \in raws /\ last(n)
  <2>1. PICK a \in Assets : a \in pages[n].images
    BY <1>1
  <2>2. n \in raws
    BY <1>4, <2>1
  <2>3. ASSUME NEW s \in raws PROVE TimeOf(s) < TimeOf(n) \/ (TimeOf(s) = TimeOf(n) /\ s <= n)
    <3>1. PICK b \in Assets : s = StoredAsset(b).raw
      BY <2>3
    <3>2. s # n => TimeOf(s) < TimeOf(n)
      BY <1>4, <3>1
    <3> HIDE DEF raws
    <3> QED
      BY <1>2, <3>2
  <2> QED
    BY <2>2, <2>3
<1>6. ASSUME NEW r \in raws, last(r) PROVE r = n
  <2>1. PICK b \in Assets : r = StoredAsset(b).raw
    BY <1>6
  <2>2. r # n => TimeOf(r) < TimeOf(n)
    BY <1>4, <2>1
  <2>3. TimeOf(n) < TimeOf(r) \/ TimeOf(n) = TimeOf(r)
    BY <1>5, <1>6
  <2>4. TimeOf(r) \in Nat
    BY <1>1, HistoryConstants DEF TimeOf
  <2> QED
    BY <1>3, <2>2, <2>3, <2>4
<1>7. NewestRaw = n
  <2>1. NewestRaw = CHOOSE r \in raws : last(r)
    BY DEF NewestRaw
  <2> HIDE DEF last, raws
  <2> QED
    BY <1>5, <1>6, <2>1
<1>8. PublicGallery = pages[n].images
  <2>1. n # -1
    BY <1>2
  <2> QED
    BY <1>1, <1>4, <1>7, <2>1 DEF PublicGallery
<1>9. \A a \in Assets, m \in DOMAIN pages : a \in pages[m].images => pages[m].kind \in StoredAsset(a).variants
  BY <1>4 DEF AssetSound
<1> QED
  BY <1>1, <1>8, <1>9

\* However late pages come: the listing points to its newest snapshot, the
\* detail row is that of a newest detail page, the bundles are those that rows
\* use, and the public gallery is that of the newest page with images.
THEOREM NewestAlwaysStands == HistorySpec => []NewestStands
<1>1. HistoryInv => NewestStands
  <2> SUFFICES ASSUME HistoryInv PROVE NewestStands
    OBVIOUS
  <2>1. LatestIsNewest
    <3>1. \A i \in DOMAIN snapshots : snapshots[i] \in SnapshotRows
      BY DEF HistoryInv, HistoryTypeOK
    <3>2. \A i \in DOMAIN snapshots : snapshots[i].observed \in Nat
      BY <3>1, HistoryConstants DEF SnapshotRows
    <3>3. \A i \in DOMAIN snapshots : NotNewer(snapshots, i, latest)
      BY DEF HistoryInv, LatestSound
    <3>4. DOMAIN snapshots # {} => latest \in DOMAIN snapshots
      BY DEF HistoryInv, HistoryTypeOK, LatestSound
    <3> QED
      BY <3>2, <3>3, <3>4 DEF LatestIsNewest, NotNewer
  <2>2. DetailIsNewest
    <3> SUFFICES ASSUME NewestDetailPages # {}
                 PROVE  \E n \in NewestDetailPages : payloads[details.payload] = pages[n].content
      BY DEF DetailIsNewest
    <3>1. PagesOfDetails # {}
      BY DEF NewestDetailPages, PagesOfDetails
    <3>2. PICK n \in PagesOfDetails : DetailOf(n)
      BY <3>1 DEF HistoryInv, DetailsSound
    <3>3. n \in NewestDetailPages
      BY <3>2 DEF HistoryInv, DetailsSound, DetailOf, NewestDetailPages, PagesOfDetails
    <3> QED
      BY <3>2, <3>3 DEF DetailOf
  <2> QED
    BY <2>1, <2>2, GalleryStands DEF HistoryInv, NewestStands
<1> QED
  BY <1>1, HistoryHolds, PTL

\* Whenever a detail page comes, it is merged over the history from its own time up to
\* the next observation, and the rest of the history stays (updateListingFromDetailPage).
THEOREM DetailsAreEvidence == HistorySpec => EnrichmentIsEvidence
<1> DEFINE MergedAt(t, page) == AsOf(t)' # 0 /\ Content(AsOf(t))' =
             IF page.at <= t /\ snapshots[AsOf(t)].observed <= page.at
             THEN Merged(Content(AsOf(t)), page.content) ELSE Content(AsOf(t))
           Evidence == \A t \in 1 .. FetchTimes :
             Len(pages') > Len(pages) /\ Last(pages').kind = "detail" /\ AsOf(t) # 0
               => MergedAt(t, Last(pages'))
<1>1. HistoryInv /\ [HistoryNext]_historyVars => [Evidence]_historyVars
  <2> SUFFICES ASSUME HistoryInv, HistoryNext PROVE Evidence
    OBVIOUS
  <2> SUFFICES ASSUME Len(pages') > Len(pages), Last(pages').kind = "detail",
                      NEW u \in 1 .. FetchTimes, AsOf(u) # 0
               PROVE  MergedAt(u, Last(pages'))
    OBVIOUS
  <2>1. Last(pages') = pages'[Len(pages')] /\ u \in Nat
    BY HistoryConstants DEF Last
  <2>2. ASSUME NEW t \in 1 .. FetchTimes, NEW images \in SUBSET Assets, NEW card \in CardStates,
               PersistCard(t, card, images)
        PROVE  FALSE
    <3>1. pages'[Len(pages')].kind = "card"
      BY <2>2, PageAdded DEF PersistCard
    <3> QED
      BY <2>1, <3>1
  <2>3. ASSUME NEW t \in 1 .. FetchTimes, NEW images \in SUBSET Assets, NEW detail \in DetailStates,
               PersistDetail(t, detail, images)
        PROVE  MergedAt(u, Last(pages'))
    <3>1. pages'[Len(pages')].at = t /\ pages'[Len(pages')].content = detail
      BY <2>3, PageAdded DEF PersistDetail
    <3>2. AsOf(u)' # 0 /\ Content(AsOf(u))' =
            IF t <= u /\ snapshots[AsOf(u)].observed <= t
            THEN Merged(Content(AsOf(u)), detail) ELSE Content(AsOf(u))
      BY <2>1, <2>3, DetailIsEvidence
    <3> QED
      BY <2>1, <3>1, <3>2
  <2>4. ASSUME NEW a \in Assets, BackfillAssets(a) PROVE FALSE
    <3>1. pages' = pages /\ Len(pages) \in Nat
      BY <2>4 DEF BackfillAssets, HistoryInv, HistoryTypeOK
    <3> QED
      BY <3>1
  <2> HIDE DEF MergedAt
  <2> QED
    BY <2>2, <2>3, <2>4 DEF HistoryNext
<1>2. EnrichmentIsEvidence <=> [][Evidence]_historyVars
  BY DEF EnrichmentIsEvidence
<1> HIDE DEF Evidence
<1>3. HistorySpec => [][Evidence]_historyVars
  BY <1>1, HistoryHolds, PTL DEF HistorySpec
<1> QED
  BY <1>2, <1>3

=============================================================================
