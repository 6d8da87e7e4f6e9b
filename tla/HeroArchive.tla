---------------------------- MODULE HeroArchive ----------------------------
(***************************************************************************)
(* The archive of hero images (hero-image-archiver.ts,                     *)
(* nettiauto-hero-backfill-task.ts, persistListingHeroImage): a sweep of   *)
(* batches in the order of listing ids queues one job for each listing     *)
(* with a gallery and no hero; jobs and detail pages then archive, each    *)
(* listing at most once, to files named by their content.                  *)
(*                                                                         *)
(* Jobs are added one at a time and adding is idempotent, so the execution *)
(* of a batch is one step that may end after any of them.  A job that      *)
(* throws is tried again or has used up its attempts: either may happen.   *)
(* The spacing of jobs in time is left out.  While the archive is off,     *)
(* which is its default, every job ends at once and successfully.          *)
(***************************************************************************)
EXTENDS Integers, FiniteSets, FiniteSetsExt

CONSTANTS
  HeroListings,  \* the listings are 1 .. HeroListings
  HeroBatch,     \* DETAIL_BACKFILL_BATCH_SIZE
  Photos         \* contents of encoded images

ASSUME HeroConstants == HeroListings \in Nat /\ HeroBatch \in Nat \ {0}

VARIABLES
  enabled,  \* HERO_IMAGE_ARCHIVE_ENABLED
  gallery,  \* of each listing: none, readable, or overlapping
            \* (an asset both inline and in the bundle: reading it throws)
  hero,     \* listing_hero_images: the photo of a listing, or NoPhoto
  files,    \* photos under HERO_IMAGE_STORAGE_PATH
  sweep,    \* schedule jobs: the id they go on after, and whether they gave up
  archive,  \* the listings with an archive job
  archiver, \* what the hero queue and a detail page are archiving
  meant,    \* listings the sweep was started for, to tell afterwards
  asked,    \* listings it has added jobs for
  declined  \* has a job of it ended because the archive was off

heroVars == <<enabled, gallery, hero, files, sweep, archive, archiver, meant, asked, declined>>
historyOfSweep == <<meant, asked, declined>>

NoPhoto == "none"
Listed == 1 .. HeroListings
Archivers == {"queue", "page"}
NoArchive == [pc |-> "idle", listing |-> 0, photo |-> NoPhoto]
HeroRows == [Listed -> Photos \cup {NoPhoto}]
SweepJobs == [after : 0 .. HeroListings, dead : BOOLEAN]

HeroTypeOK ==
  /\ enabled \in BOOLEAN /\ declined \in BOOLEAN
  /\ gallery \in [Listed -> {"none", "readable", "overlapping"}]
  /\ hero \in HeroRows
  /\ files \subseteq Photos
  /\ sweep \subseteq SweepJobs
  /\ archive \subseteq Listed
  /\ archiver \in [Archivers -> [pc : {"idle", "fetch", "insert"}, listing : 0 .. HeroListings,
                                 photo : Photos \cup {NoPhoto}]]
  /\ meant \subseteq Listed /\ asked \subseteq Listed

(* An operator has queued the sweep.                                       *)
HeroInit ==
  /\ enabled \in BOOLEAN /\ declined = FALSE
  /\ gallery \in [Listed -> {"none", "readable"}]
  /\ hero = [l \in Listed |-> NoPhoto] /\ files = {}
  /\ sweep = {[after |-> 0, dead |-> FALSE]}
  /\ archive = {} /\ archiver = [a \in Archivers |-> NoArchive]
  /\ meant = {l \in Listed : gallery[l] # "none"} /\ asked = {}

-----------------------------------------------------------------------------
(* listingsWithoutHeroes *)
Lowest(n, S) == {l \in S : Cardinality({m \in S : m < l}) < n}
WithoutHeroes(job) ==
  Lowest(HeroBatch, {l \in Listed : l > job.after /\ hero[l] = NoPhoto /\ gallery[l] # "none"})

(* A full batch is followed by another.                                    *)
FollowedPastFull(batch) == Cardinality(batch) > HeroBatch
Followed(batch) == Cardinality(batch) = HeroBatch

(* add_job with a key replaces a waiting job.                              *)
Added(jobs, after) == {j \in jobs : j.after # after} \cup {[after |-> after, dead |-> FALSE]}

Queue(listings) ==
  /\ asked' = asked \cup listings
  /\ archive' = archive \cup listings

SweepBatch(job) ==
  LET batch == WithoutHeroes(job) IN
  /\ ~job.dead /\ enabled
  /\ \A l \in batch : gallery[l] = "readable"
  /\ Queue(batch)
  /\ sweep' = IF Followed(batch) THEN Added(sweep \ {job}, Max(batch)) ELSE sweep \ {job}
  /\ UNCHANGED <<enabled, gallery, hero, files, archiver, meant, declined>>

(* A gallery is not read and nothing is added, or the job dies when it has *)
(* added a part of the batch, or all of it and the next job too.           *)
SweepFails(job) ==
  LET batch == WithoutHeroes(job) IN
  /\ ~job.dead /\ enabled
  /\ \E dead \in BOOLEAN : LET retried == (sweep \ {job}) \cup {[job EXCEPT !.dead = dead]} IN
     \/ \E n \in 0 .. HeroBatch :
          /\ (\E l \in batch : gallery[l] = "overlapping") => n = 0
          /\ Queue(Lowest(n, batch)) /\ sweep' = retried
     \/ /\ \A l \in batch : gallery[l] = "readable"
        /\ Followed(batch)
        /\ Queue(batch) /\ sweep' = Added(retried, Max(batch))
  /\ UNCHANGED <<enabled, gallery, hero, files, archiver, meant, declined>>

(* The archive is off: the job queues nothing, and no other follows it.    *)
SweepDeclined(job) ==
  /\ ~job.dead /\ ~enabled
  /\ sweep' = sweep \ {job} /\ declined' = TRUE
  /\ UNCHANGED <<enabled, gallery, hero, files, archive, archiver, meant, asked>>

-----------------------------------------------------------------------------
Becomes(a, pc, l, photo) ==
  archiver' = [archiver EXCEPT ![a] = [pc |-> pc, listing |-> l, photo |-> photo]]
Rests(a) == archiver' = [archiver EXCEPT ![a] = NoArchive]

(* A job ends whether its image was archived, existed or was skipped; one  *)
(* that throws is tried again.                                             *)
Ended(a, l) == archive' = IF a = "queue" THEN archive \ {l} ELSE archive
Threw(a, l) == archive' = archive \/ Ended(a, l)

TakeArchive(l) ==
  /\ archiver["queue"].pc = "idle" /\ l \in archive
  /\ IF ~enabled \/ hero[l] # NoPhoto THEN Ended("queue", l) /\ UNCHANGED archiver
     ELSE Becomes("queue", "fetch", l, NoPhoto) /\ UNCHANGED archive
  /\ UNCHANGED <<enabled, gallery, hero, files, sweep, historyOfSweep>>

(* A detail page is persisted with its gallery, then archives its hero.    *)
PageArchives(l) ==
  /\ archiver["page"].pc = "idle" /\ gallery[l] # "overlapping"
  /\ gallery' = [gallery EXCEPT ![l] = "readable"]
  /\ IF enabled /\ hero[l] = NoPhoto THEN Becomes("page", "fetch", l, NoPhoto) ELSE UNCHANGED archiver
  /\ UNCHANGED <<enabled, hero, files, sweep, archive, historyOfSweep>>

(* A card of a listing without a hero has a job added for its stored       *)
(* gallery.                                                                *)
CardQueues(l) ==
  /\ enabled /\ hero[l] = NoPhoto /\ gallery[l] = "readable"
  /\ archive' = archive \cup {l}
  /\ UNCHANGED <<enabled, gallery, hero, files, sweep, archiver, historyOfSweep>>

(* All variants are gone, or the image is foreign or too large.            *)
ArchiveSkips(a) ==
  LET l == archiver[a].listing IN
  /\ archiver[a].pc = "fetch"
  /\ Rests(a) /\ Ended(a, l)
  /\ UNCHANGED <<enabled, gallery, hero, files, sweep, historyOfSweep>>

(* An HTTP error, a timeout, an image that cannot be encoded or a crash: a *)
(* page goes on without a hero.                                            *)
ArchiveThrows(a) ==
  LET l == archiver[a].listing IN
  /\ archiver[a].pc # "idle"
  /\ Rests(a) /\ Threw(a, l)
  /\ UNCHANGED <<enabled, gallery, hero, files, sweep, historyOfSweep>>

(* The encoded image is renamed to its name, over a file of that content.  *)
StoreFile(a, photo) ==
  /\ archiver[a].pc = "fetch"
  /\ files' = files \cup {photo}
  /\ Becomes(a, "insert", archiver[a].listing, photo)
  /\ UNCHANGED <<enabled, gallery, hero, sweep, archive, historyOfSweep>>

(* persistListingHeroImage: the first hero of a listing stays.             *)
InsertReplacing(a) == [hero EXCEPT ![archiver[a].listing] = archiver[a].photo]
Inserted(a) == [hero EXCEPT ![archiver[a].listing] = IF @ = NoPhoto THEN archiver[a].photo ELSE @]

InsertHero(a) ==
  /\ archiver[a].pc = "insert"
  /\ hero' = Inserted(a)
  /\ Rests(a) /\ Ended(a, archiver[a].listing)
  /\ UNCHANGED <<enabled, gallery, files, sweep, historyOfSweep>>

(* backfill_nettiauto_image_assets adds inline rows beside a bundle.       *)
Overlap(l) ==
  /\ gallery[l] = "readable"
  /\ gallery' = [gallery EXCEPT ![l] = "overlapping"]
  /\ UNCHANGED <<enabled, hero, files, sweep, archive, archiver, historyOfSweep>>

(* External: a deployment with another HERO_IMAGE_ARCHIVE_ENABLED.         *)
SwitchArchive ==
  /\ enabled' = ~enabled
  /\ UNCHANGED <<gallery, hero, files, sweep, archive, archiver, historyOfSweep>>

HeroNext ==
  \/ \E job \in sweep : SweepBatch(job) \/ SweepFails(job) \/ SweepDeclined(job)
  \/ \E l \in Listed : TakeArchive(l) \/ PageArchives(l) \/ CardQueues(l) \/ Overlap(l)
  \/ SwitchArchive
  \/ \E a \in Archivers : ArchiveSkips(a) \/ ArchiveThrows(a) \/ InsertHero(a)
                          \/ \E photo \in Photos : StoreFile(a, photo)

HeroSpec == HeroInit /\ [][HeroNext]_heroVars

-----------------------------------------------------------------------------
(* "Queue the rate-spaced hero archive for all compacted listings"         *)
(* (docs/storage-v4-rollout.md): a sweep none of whose jobs has given up   *)
(* or found the archive switched off has queued every listing it was       *)
(* started for, unless it had a hero when its batch came, whatever died    *)
(* and was tried again (the chain of createNettiautoHeroBackfillTask).     *)
SweepCovers == sweep = {} /\ ~declined => \A l \in meant : l \in asked \/ hero[l] # NoPhoto

(* A hero, once there, stays the same and its file exists: the job of a    *)
(* listing and its detail page may archive different photos at once, and   *)
(* die between the file and the row (archive, persistListingHeroImage).    *)
HeroesStand == [][\A l \in Listed : hero[l] # NoPhoto => hero[l]' = hero[l] /\ hero[l] \in files]_heroVars
=============================================================================
