--------------------------- MODULE ListingHistory ---------------------------
(***************************************************************************)
(* What the pages of one listing leave in the database (persistence.ts,    *)
(* normalized-storage.ts, gallery-storage.ts): its snapshots and the one   *)
(* that is the latest, the detail row, the bundles of both and the         *)
(* gallery.  Each page that writes a listing locks its row, so pages come  *)
(* one after another, but in any order of the times of their fetches.      *)
(*                                                                         *)
(* A page gives values of fields: a card of the offer and the vehicle, a   *)
(* detail page of the vehicle too (mileage, year, fuel, transmission, body,*)
(* colour) and of more.  A card has one of a few states, which its change  *)
(* hash tells apart.  Transactions of a listing begin in the order in      *)
(* which they write (created_at).  Availability is the matter of           *)
(* ListingAvailability.                                                    *)
(***************************************************************************)
EXTENDS Integers, Sequences, SequencesExt, FiniteSets, Functions

CONSTANTS
  Attributes,    \* promoted and normalized fields, in groups of those that change together
  Values,        \* what pages say of a field
  Unknown,       \* null: a page does not say
  CardStates,    \* the states of cards
  DetailStates,  \* the contents of detail pages
  Enriched,      \* md5 of the old hash and the raw record: no card has it
  Assets,        \* images by their asset path
  FetchTimes,    \* times of fetches are 1 .. FetchTimes
  MaxPages       \* bounds the pages

Contents == [Attributes -> Values \cup {Unknown}]

ASSUME HistoryConstants ==
  /\ FetchTimes \in Nat \ {0} /\ MaxPages \in Nat \ {0}
  /\ CardStates \cup DetailStates \subseteq Contents /\ Enriched \notin CardStates

VARIABLES
  pages,      \* raw_listing_records of the listing, in the order of insertion
  snapshots,  \* listing_snapshots, likewise
  latest,     \* latest_snapshot_id: an index into snapshots, 0 for no listing
  details,    \* the listing_details row
  payloads,   \* normalized_payloads: the contents by id
  bundle,     \* listing_gallery_bundles: raw record and variants by asset
  inline      \* listing_image_assets, likewise

historyVars == <<pages, snapshots, latest, details, payloads, bundle, inline>>

NoRow == [raw |-> -1, variants |-> {}]
NoPayload == <<"none", 0>>
NoDetails == [fetched |-> 0, payload |-> NoPayload]

PayloadIds == {"snapshot", "detail"} \X (1 .. MaxPages)
GalleryRows == {NoRow} \cup [raw : 0 .. MaxPages, variants : (SUBSET {"card", "detail", "legacy"}) \ {{}}]

PageRows == [kind : {"card", "detail"}, at : 1 .. FetchTimes,
             content : CardStates \cup DetailStates, images : SUBSET Assets]
SnapshotRows == [observed : 1 .. FetchTimes, hash : CardStates \cup {Enriched}, payload : PayloadIds]
DetailRows == [fetched : 0 .. FetchTimes, payload : PayloadIds \cup {NoPayload}]

(* Every variable keeps its type, and a stored asset has a page and a kind *)
(* of page it is from.                                                     *)
HistoryTypeOK ==
  /\ pages \in Seq(PageRows)
  /\ snapshots \in Seq(SnapshotRows)
  /\ latest \in 0 .. Len(snapshots)
  /\ details \in DetailRows
  /\ DOMAIN payloads \subseteq PayloadIds /\ Range(payloads) \subseteq Contents
  /\ bundle \in [Assets -> GalleryRows] /\ inline \in [Assets -> GalleryRows]

HistoryInit ==
  /\ pages = <<>> /\ snapshots = <<>> /\ latest = 0
  /\ details = NoDetails
  /\ payloads = <<>>
  /\ bundle = [a \in Assets |-> NoRow] /\ inline = [a \in Assets |-> NoRow]

-----------------------------------------------------------------------------
(* The newest snapshot observed by a time, in the order of observed_at and *)
(* created_at.                                                             *)
NewestOf(found) == CHOOSE i \in found : \A j \in found :
  \/ snapshots[j].observed < snapshots[i].observed
  \/ snapshots[j].observed = snapshots[i].observed /\ j <= i

ObservedBy(t) == {i \in DOMAIN snapshots : snapshots[i].observed <= t}
AsOf(t) == IF ObservedBy(t) = {} THEN 0 ELSE NewestOf(ObservedBy(t))

Content(i) == payloads[snapshots[i].payload]

With(rows, id, content) == [i \in DOMAIN rows \cup {id} |-> IF i = id THEN content ELSE rows[i]]

(* A snapshot is the latest unless the latest one was observed later.      *)
LatestUnlessNewer(t) == latest = 0 \/ snapshots[latest].observed <= t

AddSnapshot(t, hash) ==
  /\ snapshots' = Append(snapshots, [observed |-> t, hash |-> hash,
                                     payload |-> <<"snapshot", Len(pages) + 1>>])
  /\ latest' = IF LatestUnlessNewer(t) THEN Len(snapshots) + 1 ELSE latest

-----------------------------------------------------------------------------
(* mergeGalleryAssets: raw record, role and position of an asset are those *)
(* of the newest page that has it, its variants those of all of them.      *)
StoredAsset(a) == IF bundle[a] # NoRow THEN bundle[a] ELSE inline[a]
TimeOf(raw) == IF raw \in DOMAIN pages THEN pages[raw].at ELSE 0

AssetFromNewest(row, t) == TimeOf(row.raw) <= t

(* readGalleryAssets throws when an asset is stored twice, and the page is *)
(* rolled back.                                                            *)
Readable == \A a \in Assets : bundle[a] = NoRow \/ inline[a] = NoRow

MergeGallery(n, t, kind, images) ==
  IF images = {} THEN UNCHANGED <<bundle, inline>>
  ELSE /\ Readable
       /\ bundle' = [a \in Assets |->
            IF a \notin images THEN StoredAsset(a)
            ELSE [raw |-> IF AssetFromNewest(StoredAsset(a), t) THEN n ELSE StoredAsset(a).raw,
                  variants |-> StoredAsset(a).variants \cup {kind}]]
       /\ inline' = [a \in Assets |-> NoRow]

Record(kind, t, content, images) ==
  /\ Len(pages) < MaxPages
  /\ pages' = Append(pages, [kind |-> kind, at |-> t, content |-> content, images |-> images])
  /\ MergeGallery(Len(pages) + 1, t, kind, images)

NewForListing(card) == \A i \in DOMAIN snapshots : snapshots[i].hash # card
Changed(card) == latest = 0 \/ snapshots[latest].hash # card

(* persistListingCard, and the bundle its page makes of new snapshots.     *)
PersistCard(t, card, images) ==
  /\ Record("card", t, card, images)
  /\ IF Changed(card)
     THEN AddSnapshot(t, card) /\ payloads' = With(payloads, <<"snapshot", Len(pages) + 1>>, card)
     ELSE UNCHANGED <<snapshots, latest, payloads>>
  /\ UNCHANGED details

-----------------------------------------------------------------------------
BasisLatest(t) == latest
(* The snapshot a detail page enriches: previousSnapshot.                  *)
Basis(t) == AsOf(t)

(* What a page says goes before what was known, a card's fields included.  *)
Merged(old, told) == [f \in Attributes |-> IF told[f] = Unknown THEN old[f] ELSE told[f]]

MergeChanges(i, detail) == i # 0 /\ Merged(Content(i), detail) # Content(i)

Enrich(t, detail) ==
  IF MergeChanges(Basis(t), detail) THEN AddSnapshot(t, Enriched)
  ELSE UNCHANGED <<snapshots, latest>>

Enrichment(t, detail) ==
  IF MergeChanges(Basis(t), detail)
  THEN With(payloads, <<"snapshot", Len(pages) + 1>>, Merged(Content(Basis(t)), detail))
  ELSE payloads

DetailAlways(t) == TRUE
DetailUnlessNewer(t) == t >= details.fetched

(* removeUnusedNormalizedPayload *)
WithoutUnused(rows, old) == [i \in DOMAIN rows \ {old} |-> rows[i]]

(* updateListingFromDetailPage and the images of the page: the newest      *)
(* snapshot by its time is enriched when it changes, and the detail row is *)
(* replaced, with its bundle, unless it is newer.  A page of an unknown    *)
(* listing leaves only its raw record, which nothing here reads.           *)
PersistDetail(t, detail, images) ==
  LET id == <<"detail", Len(pages) + 1>> IN
  /\ latest # 0
  /\ Record("detail", t, detail, images)
  /\ Enrich(t, detail)
  /\ IF DetailUnlessNewer(t)
     THEN /\ details' = [fetched |-> t, payload |-> id]
          /\ payloads' = WithoutUnused(With(Enrichment(t, detail), id, detail), details.payload)
     ELSE UNCHANGED details /\ payloads' = Enrichment(t, detail)

(* The image assets task, for legacy images of every asset: it merges them *)
(* into the inline rows, whatever the bundle holds.                        *)
BackfillAssets(a) ==
  /\ latest # 0
  /\ inline' = [inline EXCEPT ![a] = [raw |-> IF @ = NoRow THEN 0 ELSE @.raw,
                                      variants |-> @.variants \cup {"legacy"}]]
  /\ UNCHANGED <<pages, snapshots, latest, details, payloads, bundle>>

HistoryNext ==
  \/ \E t \in 1 .. FetchTimes, images \in SUBSET Assets :
       \/ \E card \in CardStates : PersistCard(t, card, images)
       \/ \E detail \in DetailStates : PersistDetail(t, detail, images)
  \/ \E a \in Assets : BackfillAssets(a)

HistorySpec == HistoryInit /\ [][HistoryNext]_historyVars

-----------------------------------------------------------------------------
(* selectCompactPublicListingImages: the assets of the newest raw record.  *)
NewestRaw == LET raws == {StoredAsset(a).raw : a \in Assets}
             IN CHOOSE r \in raws : \A s \in raws : TimeOf(s) < TimeOf(r) \/ (TimeOf(s) = TimeOf(r) /\ s <= r)
PublicGallery == {a \in Assets : StoredAsset(a).raw = NewestRaw /\ NewestRaw # -1}

-----------------------------------------------------------------------------
InOrder == \A i, j \in DOMAIN pages : i < j => pages[i].at <= pages[j].at

(* The pages by a time that say what a field is: a card says it of all,    *)
(* though it may be that the source gives no value.                        *)
ToldBy(f, t) == {n \in DOMAIN pages :
  pages[n].at <= t /\ (pages[n].kind = "card" \/ pages[n].content[f] # Unknown)}

(* When pages arrive in the order of their fetches, the history gives for  *)
(* every time and field what was told last by then, by a card or a detail  *)
(* page: a card that changes back, or that comes after a detail page, is   *)
(* in it again with all its own values, and a detail page that leaves a    *)
(* field open leaves it as it was.                                         *)
PagesAreHistory == InOrder => \A t \in 1 .. FetchTimes, f \in Attributes :
  ToldBy(f, t) # {} => Content(AsOf(t))[f]
    = pages[CHOOSE n \in ToldBy(f, t) : \A m \in ToldBy(f, t) : m <= n].content[f]

(* "Enrichment is evidence from its fetch time, not a correction to an     *)
(* earlier observation" (updateListingFromDetailPage): whenever a detail   *)
(* page comes, what it tells is merged over the history from its own time  *)
(* up to the next observation, and the history of every other time stays.  *)
EnrichmentIsEvidence == [][\A t \in 1 .. FetchTimes :
  Len(pages') > Len(pages) /\ Last(pages').kind = "detail" /\ AsOf(t) # 0
    => LET page == Last(pages')
       IN AsOf(t)' # 0 /\ Content(AsOf(t))' =
            IF page.at <= t /\ snapshots[AsOf(t)].observed <= page.at
            THEN Merged(Content(AsOf(t)), page.content) ELSE Content(AsOf(t))]_historyVars

LatestIsNewest == \A i \in DOMAIN snapshots : snapshots[i].observed <= snapshots[latest].observed

NewestDetailPages == {n \in DOMAIN pages : pages[n].kind = "detail" /\
  \A m \in DOMAIN pages : pages[m].kind = "detail" => pages[m].at <= pages[n].at}

DetailIsNewest == NewestDetailPages # {} =>
  \E n \in NewestDetailPages : payloads[details.payload] = pages[n].content

PayloadsAreUsed ==
  DOMAIN payloads = {snapshots[i].payload : i \in DOMAIN snapshots} \cup ({details.payload} \ {NoPayload})

GalleryIsNewest == \A n \in DOMAIN pages :
  LET Pictured(m) == pages[m].images # {}
  IN /\ Pictured(n)
     /\ \A m \in DOMAIN pages \ {n} : Pictured(m) => pages[m].at < pages[n].at
     => /\ PublicGallery = pages[n].images
        /\ \A a \in PublicGallery, m \in DOMAIN pages :
             a \in pages[m].images => pages[m].kind \in StoredAsset(a).variants

(* However late pages come: no snapshot was observed after the one the     *)
(* listing points to; the detail row is that of the newest detail page,    *)
(* and the bundles are those that rows refer to, none lost while used and  *)
(* none left behind (compactNormalizedRows, removeUnusedNormalizedPayload);*)
(* the public gallery is that of the newest page that has images, each of  *)
(* them with the variants of every page (mergeGalleryAssets).              *)
NewestStands == LatestIsNewest /\ DetailIsNewest /\ PayloadsAreUsed /\ GalleryIsNewest
=============================================================================
