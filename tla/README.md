# Shiguang in TLA+

Shiguang is a self-hosted photo diary: one Go process with a SQLite database, a
store for photo files (a local directory or an S3 bucket), a pool of image
workers, background jobs and an HTTP API, next to a command line tool that
imports a directory of photos through that API. This directory holds its
specification: TLA+ modules translated from the Go source, the configurations
TLC checks them with, and theorems whose proofs TLAPS checks. Paths below are
relative to `src/`; `service/` etc. stand for `internal/service/` etc.

To use it: `tlc -workers 2 -config MCTrash.cfg MCTrash`, `tlapm PhotoPipeline_proofs.tla`.

## Inventory

| Component | Code | State it keeps | Operations |
|---|---|---|---|
| Worker pool | `imgproc/worker.go` | job channel, in-flight map, `closed` | Enqueue, worker loop, Close |
| Photo pipeline | `service/upload.go` | a photo's status, its original and variants | UploadLocal's tail, Reprocess, ProcessPhoto / processOnce |
| Background jobs | `jobs/jobs.go`, `service/maintenance.go` | tickers only | RecoverStuck at start and every 5 min, reaper, GC at night |
| Direct upload | `service/upload.go`, `store/sessions.go` | pending rows, upload sessions, staged objects | Presign, (browser PUT), Confirm, abortSession, Reap |
| Local upload | `service/upload.go` | - | duplicate check, Stat, Put, insert, Enqueue |
| Trash and GC | `service/maintenance.go`, `store/nodes.go`, `store/photos.go` | `deleted_at` of nodes and photos | soft delete with cascade, restore, purge, GC, orphan sweep |
| Blob stores | `blob/local.go`, `blob/s3.go` | files or objects by key | Put, Get, Stat, Delete, Rename, List, presign |
| Store | `store/*.go` | the SQLite tables; one writer connection | statements and transactions |
| Timeline and browsing | `service/timeline.go`, `store/nodes.go` | - | cursor pagination, previews, counts |
| Photo and node editing | `service/timeline.go`, `store/photos.go` | captions, order numbers, dates | Patch, Move, Reorder, Batch |
| Statistics cache | `service/timeline.go` | a cached answer and its age | GetStats, invalidate |
| Letters | `service/letters.go` | delivery date, read mark | create, list, read, delete |
| HTTP API | `httpapi/` | token bucket per owner | routing, authentication, rate limit |
| Signed image links | `service/service.go` | a secret | sign, verify |
| Image processing | `imgproc/` | - | decode, orient, resize, EXIF |
| Server main, config | `cmd/server` | - | start order, graceful shutdown |
| Importer | `importer/` | a plan, counters | scan, plan, apply manifests, run with retries, export |
| Command line, web pages, migrations, deployment | `cmd/sgctl`, `web/`, `migrations/`, `docker-compose.yml` | - | - |

How they interact. A *local upload* stores the original, inserts a `pending`
row and enqueues the photo. A *direct upload* inserts the row and an upload
session, lets the browser PUT to a staging key, and on confirm checks the
object, renames it to its content's key, records the sha, closes the session
and enqueues. A *worker* claims the row (`processing`), derives the variants
and marks it `ready` or `failed`. *RecoverStuck* enqueues what has been left
unfinished. The *reaper* withdraws uploads nobody confirmed. *Soft deletion*
only sets `deleted_at`; a node takes its photos along, and all rows of one
content share one original. *Purge* and *GC* delete rows first, then count the
references of each content and delete the objects nobody refers to.

What is hard here: the channel and the in-flight map are updated in separate
critical sections; requests outlive Shutdown's 30 seconds and meet a closed
channel; scans enqueue from a snapshot; a confirm makes some ten calls to the store
and the bucket, any of which may fail, be cut off by a crash, be repeated by
the client or meet the reaper; a purge checks, deletes, counts and unlinks in
four steps while owners upload, move and restore. `PROJECT.json` lists these
hazards at their lines with the properties that guard against each, or the
reason why none does yet.

What makes each component correct, in a sentence:

- **pool**: the in-flight map is exactly what is offered, queued or held; no
  photo is held twice; every reservation ends.
- **pipeline**: blob first, row last; `ready` only with all variants and never
  taken back by a latecomer; every photo settles across faults and restarts.
- **direct upload**: an acknowledged upload stays; a duplicate verdict names a
  surviving twin; a repeated confirm gets the same verdict; every upload ends.
- **trash**: a row never loses its original; restore undoes exactly its delete;
  only trash is purged; what is overdue or orphaned goes.
- **timeline**: following the cursor shows each unchanged node exactly once,
  whatever is edited between two pages; only a request that names a date moves
  a node.
- **editing**: a new photo shows last, a reorder takes effect as a whole or not
  at all, a patch leaves the photo as asked.
- **statistics**: a reader sees what was acknowledged before it asked, and
  everything else within a minute.
- **letters**: unreadable before delivery, the first reading recorded once.
- **rate limit**: no interval sees more than burst and refill; waiting as told
  is enough.
- **importer**: what is counted is stored, failures have a cause, reruns add
  neither nodes nor photos as long as titles have no blanks around them (see the
  limits below) and no CreateNode answer is lost; an emitted sheet holds a file
  to its node.
- **export**: a run that ends leaves every photo under its name with its words,
  over whatever broken-off runs left.

## Modules

| Module | Models | Extends / uses |
|---|---|---|
| `PhotoPool` | abstract: what the rest of the server may rely on of the pool | - |
| `WorkerPool` | `imgproc/worker.go`, each critical section and channel operation a step | `PhotoPool` (instance) |
| `WorkerPool_proofs` | theorems about the pool alone | `WorkerPool`, `TLAPS` |
| `PhotoLifecycle` | abstract: what an owner is promised about a photo | - |
| `PhotoPipeline` | rows, blobs, handlers, scans, process life cycle, composed with the pool | `WorkerPool`, `PhotoLifecycle` |
| `PhotoPipeline_proofs` | invariance and refinement theorems | `PhotoPipeline`, `WorkerPool_proofs` |
| `DirectUpload` | presign, PUT, confirm call by call, reaper, recovery | `PhotoPool` |
| `DirectUpload_proofs` | originals, acknowledged uploads, duplicates, verdicts and care, proved | `DirectUpload`, `TLAPS` |
| `Trash` | delete, restore, move, local upload, purge and GC statement by statement | - |
| `Trash_proofs` | types, exact restores, originals and purges, proved | `Trash`, `TLAPS` |
| `Absent` | the one value `None` that the following modules share | - |
| `Timeline` | nodes, PATCH in two statements, a reader with a cursor | `Absent` |
| `StatsCache` | the cached statistics and their mutex | `Absent` |
| `Letters` | letters, their dates and their first reading | `Absent` |
| `Album` | order numbers, moves, patches, batches and reorders of photos | `Absent` |
| `Timeline_proofs` | theorems about pages and about the order of photos | `Timeline`, `Album`, `TLAPS` |
| `RateLimit` | one token bucket | `Absent` |
| `Importer` | runs of the import against an abstract server | `Absent` |
| `Planning` | which file goes to which node, with sheets | `Absent` |
| `Export` | one node laid out as a directory | `Absent` |
| `MCLibrary` | timeline, statistics, letters and album side by side, and their instance | those four |
| `Library_proofs` | theorems about statistics and letters, and about all four together | `MCLibrary`, `Timeline_proofs` |
| `MCImport` | bucket, importer, planning and export side by side, and their instance | those four |
| `Import_proofs` | theorems about each of these, and about all four together | `MCImport`, `TLAPS` |
| other `MC*` | the instances TLC checks: model values, symmetry | the above |

### WorkerPool

`queue` is the channel's buffer, `inflight` the map of that name, `closed` the
flag and `sealed` the closed channel (Close sets the flag under the mutex and
closes the channel afterwards). An Enqueue is a caller's walk through `stage`:
`Call`, then `Reserve` or `Reject` (the critical section at `worker.go:52-60`), then `Send` or
`QueueFull` or, when the channel was closed meanwhile, `SendPanics`; `Rollback`
takes the reservation back when the queue was full. A panic is caught by the
HTTP server's recovery, so the caller just ends, its reservation left behind
until the process dies. A worker goes through `Take`, `HandlerReturns`,
`Forget`. `Restart` is the loss of all this with the process.

`PhotoPool` is the same pool seen from outside: the photos `queued` and those
`working`. Offering a photo adds it, unless it is being worked on, or is in vain
(the queue is full, the pool closed, or the last worker has not quite forgotten
the photo); a worker takes a photo, finds nothing to do or finishes; the process
loses all. `WorkerPool` implements it with `queued` the photos in the channel and
`working` those whose handler runs (`PoolRefined`).

### PhotoLifecycle and PhotoPipeline

`PhotoLifecycle` has a photo `absent`, `developing`, `ready` or `failed`, and
shown or in the trash. It may be accepted, settled while shown, taken back from
`failed` by an explicit retry, hidden and shown; nothing else, and in
particular `ready` is final.

`PhotoPipeline` implements it. `status` is the column, `live` the photos with
no `deleted_at`, `fresh` the `processing` rows written within the ten minutes
`StuckPhotos` looks back, `origs` and `variants` the blobs by sha. A request
stores the original, creates the row and enqueues (`StoreOriginal`,
`CreatePhoto`, then the pool's steps). The handler of a worker is `step`,
`tries`, `todo`: `Claim`, `Develop` (load, decode), `PutVariant` per variant in
any order, `MarkReady`; any call may fail (`AttemptFaults`), a failed attempt
is repeated once, then `MarkFailed`. `Rescan`/`RescanNext` enqueue from a
snapshot. The process is `starting`, `up`, `stopped` or `down`; requests may
still run in `stopped`, since Shutdown gives up after 30 seconds
(`cmd/server/main.go:115-121`). `Crash` may come anywhere.

Simplifications: reading and opening the original are one step, as nothing here
removes originals (that is `Trash`); Reprocess's reads are merged with its
guarded UPDATE; a photo id has one content (`ShaOf`), and two ids may share it.

### DirectUpload

One step per call to store or bucket. A request's `pc` follows `ConfirmUpload`:
read the row, read the session (with the early answers for a session that is
no longer issued), stat and read the staged object, look for a duplicate, stat
the original, copy, delete the staged object (the two halves of the S3 Rename),
`SetPhotoUploaded`, `SetSessionState`, `Enqueue`; or the three steps of
`abortSession`. `Abandon` is a request that ends at any such point: its call
failed, its client left, or its context was cancelled. Calls whose failure the code
ignores are different: `CloseSession`, the steps of `abortSession` and of the
duplicate branch, and the reaper's go on without having had their effect, which
counts as a mishap. So a confirm may answer "ok" with the session still issued
(`upload.go:318`). A read-back that fails (`upload.go:271-274`) is no mishap: it may
happen to any upload and ends it with the verdict "readback", one of the three in
`Rejection` that `VerdictOf` restores. The reaper lists overdue
sessions and goes through them in three steps each. `Expire` is time. `answers`
records what each upload's confirms were told, and `sent` what was PUT; both
are history for the properties.

Simplifications: a client PUTs once per upload. Both clients of the repository
finish their PUT before their first confirm, and the importer's retries of it
(`importer/run.go:206`) send the same bytes; a PUT into the still valid URL after
a confirm is not modelled. A client knows the id only once the presign has been
answered; the pool is `PhotoPool`, which `WorkerPool` implements; an `Enqueue` may
be in vain, and it is for the recovery scan to find the photo; a content is its
own sha.

### Trash

A statement or transaction is a step, since the writer has a single connection
(`store/store.go`). `gone` and `nodeGone` are `deleted_at`, with a stamp of its
own for each deletion; `alone` is history: the photos the owner deleted one by
one. `Upload` and its steps are `UploadLocal` (`FindDuplicate`, `StatOrig`,
`PutOrig`, `CreatePhoto`); `PurgePhoto`/`PurgeNode` are the checks at the head
of `PurgeTrashItem`; `Collect`, `ListNodes`, `DeleteRows`, `DeleteNodeRow`,
`CountRefs`, `Unlink`, `Done` are the body it shares with the GC, which starts
daily and ends with the orphan sweep (`Listed` and the same count). The unique
index `uq_node_sha` and the foreign key on `node_id` are guards.

Simplifications: the original stands for all objects of its sha; two deletions
in the same millisecond, which would share a stamp, are not modelled; the sweep
is the one by modification time (local files), not the S3 driver's two-phase
marks; a request cut short (`Abort`) stops after any step;
a crash is an `Abort` of each request.

### Timeline

`node` is the table: a date and `deleted_at` per node. The owner creates,
deletes and restores nodes; a PATCH is `ReadForPatch`, which reads the row and
merges the fields of the request, and `WritePatch`, which writes the whole row
back (`timeline.go:334-357`), so one request can undo another. `walk` is a
reader of GET /nodes: `ShowPage` fetches one row more than a page holds,
`First(..., Limit + 1)`, and takes its cursor from the last row of the page.
`steady` and `date_is` are history: the nodes nobody touched since the walk
began, and whether a request still holds the row as it is.

Simplification: of a node's fields only the date is kept. Previews and counts,
places and "on this day" are queries without state and are left out.

### StatsCache

`cache`, `statsMu` are the variables of that name in `service.go`; a tick is a
part of the 60 seconds. A write is `CommitWrite`, then either `InvalidateAndAnswer`,
which waits for the mutex, `AnswerQuietly` on the paths that never invalidate
(the pipeline, the confirm of a direct upload), or `FailAfterCommit` for a
request whose later statement fails. A reader is `Ask`, then `Hit`, or `Miss`,
`Query`, `Fill` with the mutex held throughout. `StatsRestart` empties it.

### Letters

A row has its delivery date, whether it is deleted and its `read_at`. A visitor
takes the time (`AskForLetter`), then the row (`ReadLetter`, `ReadAgain`,
`LetterNotFound`), then marks it (`MarkLetterRead`); a PATCH reads and later
writes the whole row, as for nodes. `promised` is the date the owner last asked
for by name. The list of letters has the condition of a single letter and no
mark, so it is covered by `Delivered`.

### Album

`pic` holds the rows of photos with their order numbers, `req` the requests that
take several steps. An upload reads `NextOrd` in one statement and inserts in
a later one; `PatchPhoto` is one statement per field, in the order the code has
them; a batch goes through its ids with a transaction for each; `ReorderPhotos`
is one transaction. Order numbers are signed integers of `2 * Half` values, as a
PATCH may ask for any number; a sum wraps around. `base` and `undisturbed` are
history: the photos an upload has to come after, the patches nobody interfered
with.

### RateLimit

`tokens`, `filled` are the bucket's fields, counted in parts instead of float64
so that the arithmetic is exact; `Pass` and `Refuse` are the two ends of `take`,
each of which brings the bucket up to date first. `Cost <= Full` is what
`cmd/server/config.go:157` guarantees, since rates are positive integers and the
bursts are twice the rate or at least ten. `window` is an interval that may begin
at any time; `advice` is when each caller was told to come back.

### Importer

The server is `keyOf` (its nodes by date and title), `stored` (its photos) and
`late` (requests it still has to carry out for a client that has gone). A run
goes `listing`, then per group `ReuseNode` or one of the three ends of CreateNode,
then up to `Concurrency` workers at a time. A worker's calls go through
`withRetry` (`client.go:301`): `Throttled` waits against its own limit,
`Errs` uses up the error budget, whether or not the server has `carried` the
request out, `Answered`, `AnsweredAgain` and `Refused` end it. Runs are cancelled
or killed at any point and started again; both upload modes are there. The owner
is absent: he edits nothing during imports.

`Trimmed` is what the server makes of a key (`timeline.go:309`): `keyOf` holds the
trimmed key, `byKey` is filled from the listing and asked with the key as planned
(`run.go:84`, `:105`, `:120`). A title of which nothing is left is refused. `Kept`
are the keys that the server leaves alone and makes of no other, and only of these
do `NoNeedlessNode` and `RerunAddsNothing` speak; `CountedIsStored` and
`FailsForCause` speak of all.

### Planning

`Group` is the grouping of `Plan` in its four modes, `Anchor` is `groupAnchors`,
`NodeKey` the date and title under which the importer looks for the node. Titles
here are those without blanks around them: sheets are trimmed when they are read
(`manifest.go:83`), and what becomes of other names is `Importer`'s matter.
`EmitManifests` writes sheets where a group has none. `settled` is the node that
each file had when sheets were emitted. A tree has two levels, as grouping looks
at the first directory only.

### Export

A run takes a list of photos and for each looks for a file of the right name and
size (`Reuse`), or downloads it beside and renames it (`Download`, `RenamePart`),
then writes or removes the text. It stops anywhere (`ExportStops`), also half way
through a text, and the next run may have another list. A name is number, stem
and extension. The directories above and the clean-up of captions for file names
are left out.

## Runs

| Run | Configuration | Checks | Result |
|---|---|---|---|
| `pipeline` | `MCPhotoPipeline.cfg` | `TypeOK`, `InflightExact`, `OneHandlerPerPhoto`, `BlobFirst`, `SoundPhotoFailsForCause`, `LifecycleRefined`, `PoolRefined` | pass, 0.9 M states |
| `pipeline_live` | `MCPhotoPipelineLive.cfg` | `EveryPhotoSettles`, `ReservationsEnd` | pass, 0.17 M states |
| `upload` | `MCDirectUpload.cfg` | `TypeOK`, `UploadedHasOriginal`, `ConfirmedIsKept`, `DuplicateHasTwin`, `SameVerdict` | pass, 4.1 M states |
| `upload_live` | `MCDirectUploadLive.cfg` | `EveryUploadSettles` | pass, 0.11 M states |
| `upload_twice` | `MCDirectUploadTwice.cfg` | `ConfirmedIsKept` with overlapping confirms | violated, finding 1 |
| `upload_again` | `MCDirectUploadAgain.cfg` | `ConfirmIdempotent` | violated, finding 2 |
| `trash` | `MCTrash.cfg` | `TypeOK`, `RowHasOriginal`, `RestoreIsExact`, `PurgesOnlyTrash` | pass, 0.45 M states |
| `trash_live` | `MCTrashLive.cfg` | `TrashEmptied`, `OrphansGo` | pass, 0.07 M states |
| `trash_restore` | `MCTrashRestore.cfg` | `PurgesOnlyTrash` with overlaps | violated, finding 3 |
| `trash_upload` | `MCTrashUpload.cfg` | `RowHasOriginal` with overlaps | violated, finding 4 |
| `library` | `MCLibrary.cfg` | `TypeOK`; `SteadyShownOnce`, `MovedOnlyByName` (timeline); `StatsReadYourWrites`, `StatsAtMostMinuteOld`; `NoLetterEarly`, `FirstReadStays`; `UploadShowsLast`, `PatchedAsAsked`, `ReorderIsWhole` (album) | pass, 0.95 M states |
| `import` | `MCImport.cfg` | `TypeOK`; `WindowBound`, `AdviceSuffices` (bucket); `CountedIsStored`, `NoNeedlessNode`, `RerunAddsNothing`, `FailsForCause` (importer); `EmittedNodesStay` (planning); `ExportFaithful` | pass, 1.3 M states |

`library` and `import` each check four modules that share no variable. An
interleaving of their steps would show nothing that one of them alone does not,
so a variable `part` names the module that moves in a behaviour and the others
rest in their initial state: the states are the sum, not the product, and each
property is that of its own module.

Every property of a passing run has a mutant in `PROJECT.json`: a plausible bug
(a dropped guard, a missing rollback, a count of the wrong rows) under which TLC
finds the property violated. The mutated forms sit next to the definition they
stand in for and are used nowhere else.

**Bounds.** Two photos, because every race here is between two photos of one
content or two actors on one photo. `pipeline` has two workers, one request and
the scanner on a queue of capacity one, so the queue is full as soon as it
matters; `MaxFaults`, `MaxEdits`, `MaxRestarts` of one let one failing call,
one owner's edit (delete, restore or retry) and one shutdown or crash fall at
any point and in any order; a photo is tried twice, so one fault reaches the
retry and a broken image the failure. `pipeline_live` has one worker and one
variant: with more, the liveness check exceeds the time it is worth, and
concurrency of workers is the other run's matter. `upload` has three contents,
a picture, a text and an image of the wrong size, that reach two of the
rejections of confirm, while the third, a failed read-back, may meet each; and two
requests, so a confirm may meet a presign, a confirm of the twin or its
own repetition; `MaxMishaps` = 1 is one delete, failing call, lost connection
or crash. `trash` has two nodes, one content, two requests and the GC, and two
deletions (`MaxStamp`), enough for a photo deleted before its node or the other
way round, and one request cut short (`MaxAborts`). `library` has
three nodes on two dates with pages of one row, so that every row is a page
boundary, once with one PATCH at a time and once with two overlapping ones on
two nodes; three writes, one of them never invalidating, and two readers
of a cache that lives two ticks; one letter, two visitors, two PATCHes and three
moments; two nodes, three photos of which two are one picture, one request of
several steps at a time beside the others, and order numbers from -3 to 2, so
that a number asked for is next to the largest. Editors, readers, visitors and
nodes with photos are two model values `x1` and `x2` in their parts, and
swapping them is a symmetry. `import` has a burst of seven parts, a token of
three, one part per tick and two ticks a second, so that nothing divides
evenly; a group of two files with one picture, which two workers upload at once, and
a group whose title `k2` the server stores as `k3`, so that each run makes a node for
it; three nodes, so that a rerun after a complete run still does (several groups of
one key would exceed the time of the run; the theorems cover them); an error budget
of two, one unit of waiting, one lost answer for the title that is kept; two files,
two directories of which one has a day's name, and all four modes; two photos of
different size with or without a common caption, in every order. The theorems below
hold for every value of these constants.

**Overlapping** is an assumption about the environment, not a bound: FALSE says
that one photo is confirmed by one request at a time (`DirectUpload`), or that
uploads, moves and restores do not run during a purge (`Trash`). The code does
not enforce it. The passing runs show what holds under it, the violation runs
what is lost without it, and the liveness run of `Trash` does without it.

**Deadlock** is checked in every run: none of these systems ever stops.

**Fairness.** Weak fairness on what goroutines do once started (pool callers,
workers, the steps of a handler): the Go scheduler runs them, each of their
calls returns or fails. Weak fairness on the tickers (rescan, reaper, GC), on
time (`Age`, `Expire`, `TimePasses`) and on the start-up sequence, with a
supervisor that starts the process again (`restart: unless-stopped` in
`docker-compose.yml`). Nothing users do is fair:
no upload, PUT, confirm, delete or retry is owed. Errors and crashes are bounded
in number, so liveness is claimed for the time after the last of them.
`EveryUploadSettles` holds without mishaps only: see the hazard at
`service/upload.go:318`, `:211` and `:330`, where a crash or error between two writes
leaves a pending row nobody looks at again.

## Proofs

`WorkerPool_proofs`: `PoolInvariant`, the pool keeps `PoolInv` = `PoolTypeOK`,
`InflightExact` and `OnePlace`. Exactness alone is not inductive: when a worker
drops its photo from the map, one has to know that the photo is not also in
the queue or with a caller; `OnePlace` says so. `PoolHandlesOnce` follows, and so does
`PoolImplementsView`: a photo that reaches the channel was offered, so by `OnePlace`
no worker has it and it is not queued already (`SentWaits`); every other step of the
pool takes, drops, loses or leaves the view as it is (`ViewStep`).

`PhotoPipeline_proofs`: the pipeline changes the pool only by the pool's steps
(`PoolSimulation`), so `PoolInv` carries over, and `PipelineInvariant` proves
`Spec => []PipelineInv`, where `PipelineInv` adds

- `TypeOK`;
- `WorkerOwnsRow`: a handler past its claim holds a row in `processing`. Without
  it, a `MarkReady` might strike a row that another handler had settled. It rests
  on `OnePlace`, because one worker's claim would else disturb the other's row;
- `WrittenOrToDo`: a handler that is writing has written all it need not write,
  so that an empty `todo` means all variants are there;
- `StoredFirst`: the row a request is about to create is absent, its original is
  there, and no other request is about to create it;
- `BlobFirst`, the goal.

From it: `PipelineTypeCorrect`, `PipelineInflightExact`, `PipelineHandlesOnce`,
`PipelineBlobFirst`, and `PipelineImplementsLifecycle`: each step is a step or a
stutter of `PhotoLifecycle` under the mapping `state <- Seen`, `shown <- live`,
where `WorkerOwnsRow` is what shows that a settled row is never settled again.
`PipelineImplementsPool` carries the pool's refinement over to the pipeline.

`PipelineSoundFails` needs one more part, `SoundSoFar`: as long as no fault has
struck and no user has edited, every row is out of the trash, every attempt is a
first one, and a worker about to give up has a broken image in hand. With
`WorkerOwnsRow` a handler then always finds its row, and only the image decides.

`Trash_proofs` has two invariants. `TrashInv` holds whatever overlaps and gives
`TrashTypeCorrect` and `TrashRestoreIsExact`. `RestoreIsExact` speaks of live
nodes only, so it says nothing about what a restore will find; the
strengthening is

- `AloneApart`: in any node, a photo was deleted alone exactly when its stamp is
  neither NULL nor the node's. That is the code's own criterion in `RestoreNode`;
- `StampsPast`: stamps given out are never given out again, so that deleting a
  node cannot hit the stamp of a photo deleted before;
- `CopiesApart`: rows of one node and content were deleted at different times.
  `RestoreNode` brings several rows back at once; two of them with one content
  would break `uq_node_sha`, and this says there never are two;
- `OnlyRowsGone`, `UploadsApart`, `ListsKnown`: purged and future rows carry no
  traces, and no two requests create the same row.

`ApartInv` assumes `~Overlapping` and gives `TrashRowHasOriginal` and
`TrashPurgesOnlyTrash`: uploads and purges exclude each other (`Exclusive`), an
upload about to create its row has its original (`OriginalFirst`), a sha about to
be unlinked has no row (`UnlinksUnreferenced`), and what is on a purge's lists is
in the trash (`PurgesTrash`). The two violation runs show the assumption is needed.

`DirectUpload_proofs` has two as well. `UploadInv` holds whatever overlaps and
gives `UploadTypeCorrect` and `UploadOriginals`: a request that is to record a
sha has its original in place (`OriginalFirst`), and nothing of this model ever
removes an original.

`UploadUsesPool` says that all the uploads do to the pool is what `PhotoPool`
allows; with `PipelineImplementsPool` this is the contract that joins the two models.

`LossInv` holds whatever overlaps, too. Rows, staging objects and what requests have
read back hold what the browser sent (`RowsAsSent`, `GotIsSent`); what is pooled,
developed, acknowledged or seen so by a request has its sha, or its row has been
purged and "duplicate" answered (`TakenIsCarried`, `SeenIsCarried`). Hence
`UploadLostOnlyAsDuplicate`: with any number of confirms at a time and any mishap, an
acknowledged upload is there with what was sent, unless some confirm of the same
photo was told "duplicate". Finding 1 is therefore the only way in which uploads lose
one (what the owner purges is `Trash`'s matter).
On top of it, `UploadsInCare` is the safety half of `EveryUploadSettles`: while nothing
has failed, a visible row that is not settled has an open session, or the recovery
scan finds it, or the reaper or a request is just about to fail or delete it. The
step that needs `LossInv` is the closing of a session by the confirm that has
recorded the sha: another confirm may have purged the row meanwhile, but never
taken its sha alone. Both were checked by TLC first, with and without overlaps.

`KeepInv` assumes `~Overlapping` and gives `UploadConfirmedIsKept` and
`UploadDuplicateHasTwin`. Two steps could break these: `PurgeRow`, which deletes a
row, and `SetUploaded`, which gives a row its sha. Both are safe because

- `ShaIsSent`: a row with a sha has no staging object, and as browsers PUT once it
  never gets one again; so a later confirm of it ends at the Stat of the staging
  object;
- `NotYetUploaded`: a request past that Stat, or withdrawing a duplicate, is about
  a row without a sha. So `PurgeRow` deletes nobody's twin and no acknowledged
  row. `SetUploaded` preserves it only because nobody else is at work on the
  photo (`OneRequest`), and this is where `upload_twice` breaks it;
- `TakenIsUploaded`, `SeenIsUploaded`: what is queued, developed, or seen so by a
  request has a sha, so that the idempotent "ok" is backed too;
- `AnswersBacked`, `TwinFound`: what has been answered, or is about to be, is so.

`VerdictInv`, on top of both, gives `UploadSameVerdict`. It speaks of the photos
whose session has not run out, while nothing has failed: an open session means
that nothing has been answered; a rejection is in the row, with its reason,
before it is answered (`UnderWay`); and once it is answered the row stands, the
session is closed, and a request under way has read that row (`RejectedAs`). The
pool does not touch such a row, which has no sha, and the reaper only looks at
sessions that have run out (`ReapsLate`).

`Import_proofs`, on the bucket: both promises are about what the bucket holds now, not
about the tokens it held when it was last looked at. The invariant has `Budget`,
what has passed in the interval and what could pass at once is covered by burst
and refill, and `AdviceCovered`, what was in the bucket and what is refilled until
the moment advised make a token. They give `BucketWindowBound` and
`BucketAdviceSuffices`.

`Library_proofs`, on statistics: `HoldsAnnounced`, cache and pending fill have all that was
announced, rests on the mutex: no write can announce itself between a query and
its fill. `MissesRecent`, what a cache misses was committed no longer ago than the
cache is old, gives `StatsMinuteOld`, and the first gives `StatsReadsWrites`.

`Timeline_proofs`: a page is closed upwards (`FirstClosed`), and a query that
brings no more than a page has brought everything (`FirstAll`). The strengthening is
`CursorBelow`, nothing shown is below the cursor, `NothingYet`, and for the
third theorem `CurrentIsRead`, a request nobody overtook holds the row's date.
`TimelinePagesDescend`, `TimelineSteadyShown`, `TimelineMovedByName`.

The same module proves the order of photos. `AlbumInv` adds to the two
promises `UploadsApart`, no two requests insert one row; `BaseThere`, the photos an
upload has to come after are there; `TodoAsked`, a patch that is to move has its
number still before it, since a move gives the photo a number of its own; and
`PatchSoFar`, what a patch nobody disturbed has done still stands. A request that
writes rows disturbs the others only through the photos it names
(`WritesKeepInv`), which leaves one short step per statement.
`AlbumShowsLast`, `AlbumPatchedAsAsked`.

`AlbumReorderIsWhole` compares the page of a node, sorted, with the order the request
named. What the sort yields cannot be computed by induction here; it is enough
that a finite set has at most one enumeration in increasing order (`SortedOnce`, by
the least index at which two of them would differ) and that the request's order,
with the numbers the reorder has just given, is one (`ReorderShows`). The rows of a
node stay finite since only an upload adds one (`RowsStayFinite`).

`Library_proofs`, on letters: `PromiseHolds`, a row has the date promised unless
that was overwritten, `EditIsCurrent` and `AskedBefore` give `LettersNoneEarly`
and `LettersFirstReadStays`.

`Import_proofs`, on the importer: `ShapeInv` ties workers to the
group in hand, their rows to what is stored and their errors to what really
happened, and gives `ImporterTypeCorrect`, `ImporterCountedIsStored` and
`ImporterFailsForCause`; `NodeCount` counts, for every kept key, nodes made and still
to be made exactly against answers lost, for `ImporterNodes`: `OneMoreNode` is where
`Kept` is needed, since nothing else that the server trims may become the key. A run's
node has the key of its group or what is made of it (`RunNode`); `RerunInv` shows that
a counted file of a kept key is in a node of that key, and found there where no answer
was lost, for `ImporterRerun`. Nothing is assumed of `Trimmed` but its domain. On planning: `SettledHolds`, a settled file has its
node still, and either its group is that of its own day or its sheet gives the
date. A new file can move the earliest day of a group only, so it changes neither;
`PlanningEmittedStay`. On the export: everything before the photo in hand is
laid (`ExportInv`), because numbers keep names apart. `ExportIsFaithful` has two
hypotheses that the instance also meets: `SizesDiffer`, since a file is reused by
its size, and `NoTextCaptions`, since a caption that ends in `.txt` would make a
photo and its text one file (see the limits below).

`ExportTypeCorrect` needs neither: a list is no longer than there are photos, as it
names each once (`ListsFit`), so each name that a run writes is one of the
directory's names (`NamesIn`).

What is proved of the parts of `MCLibrary` and `MCImport` holds of the whole:
`LibraryComposes` and `ToolComposes` show that each behaviour of the composition is,
seen from each part, a behaviour of that part alone (a step of another part is a
stutter), so `LibrarySafe`, `ToolSafe` and, under its hypotheses,
`ToolExportsFaithfully` have the safety properties of the two runs, and
`LibraryTypeCorrect` and `ToolTypeCorrect` their types.

The assumptions are those named `...Assumption` in the modules: the bounds are natural numbers, the
scanner is a caller, the GC a request, `None` is no photo, node or content,
photos are uploaded to nodes with contents, sniffed and measured as such.

Only model-checked: all liveness (`EveryPhotoSettles`, `ReservationsEnd`,
`EveryUploadSettles`, `TrashEmptied`, `OrphansGo`). Every safety property of the passing
runs is proved. Liveness under fairness and ENABLED are out of the prover's reach,
and so are induction over data and recursive operators; the modules have none of the
latter.

## Findings

1. **Overlapping confirms lose a photo** (`service/upload.go:289`). Both read
   the session as issued; the first promotes and answers; the second's
   `FindDuplicate`, which does not exclude the photo itself, finds the first
   one's work and deletes the row as a duplicate. `upload_twice`.
2. **A confirm repeated early is told "expired"** (`service/upload.go:230`). The
   idempotent branch knows `processing` and `ready`, not the `pending` the row
   stays in until a worker claims it. `upload_again`.
3. **A restore during a purge is undone** (`service/maintenance.go:185`): the
   delete goes by id and does not look at `deleted_at` again. `trash_restore`.
4. **An upload during a purge loses its original** (`service/maintenance.go:115`
   and `:194`): references are counted and objects deleted in two steps, while
   the upload skips its Put because it still finds the original. `trash_upload`.

## Known limits of the code

Met while modelling. The models contain these behaviours or exclude them by a
stated assumption; the properties are worded to hold in their presence.

- Lost updates: `PatchNode` and `PatchLetter` write back what they read, so the
  later of two overlapping requests undoes the other (`stale` in `Timeline` and
  `Letters`).
- `PatchPhoto` applies its fields one by one; an error half way leaves those
  before it. When the target node has the picture already, the answer names the
  photo to be moved itself as the duplicate (`timeline.go:533`).
- PATCH takes any order number; close to the largest integer the next upload's
  number wraps around and it shows first (`store/photos.go:86`).
- A stale mark of the S3 orphan sweep (`maintenance.go:290`): marks go only when
  a sweep sees the key referenced or deletes it. A key marked one night, purged
  by other means and stored again days later is swept without its 48 hours.
- The importer takes any 409 for "the photo is there already" (`client.go:38`).
- Its limit on waiting is per call, not per photo (`client.go:301`).
- After a lost answer to CreateNode two nodes may share date and title.
- A title with a blank at either end, from a directory name (`scan.go:221`, `:227`)
  or `--title`, makes every import create a node anew and upload everything again:
  the server stores the title trimmed (`timeline.go:309`), the importer looks for it
  untrimmed (`run.go:84`, `:105`). This is at odds with `run.go:50-51`, where a rerun
  may be repeated at will, and with `run.go:77`, where nodes are found again so
  that reruns do not pile them up. `Importer` has this behaviour (key `k2`).
- Direct uploads drop the captions of a manifest (`run.go:190-202`).
- Without an emitted sheet, a file older than its group changes the date of the
  group, and the next import makes another node (`scan.go:236-249`).
- One line of more than 1 MiB in a manifest makes all of it ignored; a manifest
  of nothing but a place is not warned about (`manifest.go:266`); a directory named
  `__root__` is merged with loose files.
- An export reuses a file of its name and size: photos of equal size that change
  places stay where they were (`export.go:105-108`); a caption that ends in `.txt`
  makes the text overwrite the photo (`export.go:180-189`).

## Not modelled

- Signed links (cryptography and I/O), image processing (numeric and third party;
  one outcome per content here), browser code except as the environment of
  `DirectUpload`, replication and containers, reading configuration, printing,
  and the flags of the command line tool: no state that several steps share.
- The HTTP layer beyond the token bucket: routing, authentication, the mapping of
  errors to codes and the streaming of files carry no state of their own; the
  verdicts they transport are in `DirectUpload` and `Importer`.
- Of browsing: previews, counts, places and "on this day", which are single
  queries.
- Of the blob stores: keys, presigning, temporary files. Put is atomic; the S3
  Rename is in its two halves in `DirectUpload`; the marks of the S3 sweep are
  left out (see above).
- Of planning: reading images and sheets, the lines of a sheet. Of the export:
  the directories above the photos and the clean-up of captions.
