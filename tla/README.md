# A verification project for ddrive

ddrive stores the chunks of a user's files as encrypted blobs at providers it
does not control: a local disk, Discord channels, Telegram channels.  A Node API
keeps the book-keeping in PostgreSQL through Prisma; a browser client cuts files
into chunks and uploads them; a replication worker copies blobs to further
provider accounts.  This directory holds TLA+ models of that system, the TLC
instances that check them and TLAPS proofs about them.  Source paths below are
relative to the repository.

## 1. Inventory

| Component | State it keeps | Operations | What makes it correct | Module |
|---|---|---|---|---|
| Upload and read handlers, `apps/api/src/handlers/blob.ts` | `BlobTransport` and `BlobPlacement` rows | `PUT /api/blob` (encrypt, pool put, one transaction, write-through), failover reads by owner, share or API key | acknowledged bytes stay readable; a read never damages the book-keeping | `BlobReplication`, `DurableBlob` |
| Replication worker, `storage/replication-worker.ts` | placement rows as a durable queue; the in-memory set `inFlight` | timer sweep, write-through, `processPlacement` | one job per row; only bytes with the recorded hash; no orphans; the queue drains; a purge is not undone | `BlobReplication` |
| Provider pools, `storage/provider.ts`, `replica-pools.ts`, `local-blobs.ts` | messages and files at the providers | put, get, delete; choice of pool; read order | read order prefers good primary copies; striping sheds load | `BlobReplication`, `SenderPools` |
| Sender selection, `storage/discord-blobs.ts`, `telegram-blobs.ts`, `packages/discord-client`, `packages/telegram-client` | rate-limit buckets, in-flight reservations, active uploads per sender | select, reserve, record response or throttle, release | never more in flight than budget and caps; reservations are returned on every path | `SenderPools` |
| File resolvers, `resolvers/files.ts` | `File` rows (UPLOADING, READY), `deletedAt` | initUpload, commitManifest, trash, restore, extension of a TTL, purge, sweeps of stale uploads, old trash and expired files and folders, health check | READY only once, with its manifest; nothing in use is swept; a purge leaves nothing behind | `FileLifecycle`, `Library` (expired folders) |
| Thumbnails, `storage/thumbnail.ts` | `thumbnailBlobId`, a thumbnail blob | generate after commit, store | no thumbnail without its blob | `FileLifecycle` |
| Accounts, sessions, keys and the rate limit, `resolvers/auth.ts`, `middleware/auth.ts`, `middleware/rate-limit.ts` | the user row, session and key rows, mailed links, two caches, a counter per window | register, verify, log in, change and reset passwords, refresh, revoke, delete the account | what is revoked stops working; a link works once; the password is the one set last | `Accounts` |
| Folders, `resolvers/folders.ts` | the folder tree | create, rename, move, delete | the tree stays acyclic, a delete is deep | `Library` |
| Sharing, `resolvers/sharing.ts` and the share branch of `blob.ts` | share rows with a view count | create, access, claim, revoke | at most `maxViews` views; a share leads to a file | `Library`, `FileLifecycle` |
| Share pages, `handlers/share-page.ts`, the pump of `index.ts`, `SharedFile.tsx`, the zips of `lib/download.ts` | one body and one pump per response | page, media, poster, download; put files and zips together | the bytes asked for; reads wait for the visitor; what is saved is whole | `SharePages` |
| Streaming, `handlers/stream.ts` | none | answer a byte range from the chunks it touches | exactly the bytes of the range | `Downloads` |
| Upload client, `frontend/src/lib/upload.ts`, `anonUpload.ts`, `stores/upload.ts` | one upload, its store entry | chunk retries, resume passes, commit with recovery, cancel | commits only complete uploads; a cancelled upload stays cancelled; it ends | `UploadSession` |
| Download client, `lib/download.ts`, `stores/download.ts` | a pool of workers, a store entry, an abort controller | fetch with retries, cancel, save, dismiss | saves whole files; the entry tells the truth; it ends | `Downloads` |
| Pages, `frontend/src/pages`, `components` | the query cache, component state | load, poll, refetch, invalidate after a change | a change made here appears here | `DriveView` |
| Chunker and client crypto, `packages/processing` | none | cut into chunks, hash, encrypt | chunks cover the file exactly | the iterator in `UploadSession` |
| Mailer, stream engine, configuration, Redis, plugin SDK, scripts, docs | none of their own | | | not modelled (section 13) |

Timers in `apps/api/src/index.ts` drive background work: the replication sweep
every 10 s, and the trash, stale-upload and anonymous-TTL sweeps.  Components
meet in the database (rows read before an await and used after it), in the
in-memory sets of the one API process (`inFlight`, rate limiters, caches), at the
providers (messages with fresh ids; local files at one path per blob) and in the
stores and the query cache of one browser tab.  The hard behaviour is there:
handlers interleave at every `await`, provider calls fail or time out after
having succeeded, clients repeat requests, the process may die between any two
steps, operators purge files under running jobs, and answers reach a page after
the user has moved on.  `PROJECT.json` lists each such hazard at its line with
the properties that cover it.

## 2. Modules and plan

| Module | Models | Composes / refines | State |
|---|---|---|---|
| `DurableBlob` | what a blob store promises to those who do not look inside | abstract | done |
| `BlobReplication` | one chunk blob: upload, replication, reads, health check, purge | implements `DurableBlob` (`ImplementsDurableBlob`) | done |
| `BlobReplicationProofs` | types, one writer per row, placements, hash discipline, durability, the refinement, no orphans | extends it | done |
| `FileLifecycle` | File rows, commit, trash, restore, purges, sweeps, thumbnails, shares and claims of a file | | done |
| `FileLifecycleProofs` | types; complete files, shares, due files, leftovers | extends it | done |
| `UploadSession` | a browser upload and what the server does with its requests | pipeline, store and File row together | done; `UploadSessionProofs` |
| `SenderPools` | pool choice, sender selection, limiters, retries | the pools' choice with both clients' limiters | done; `SenderPoolsProofs` |
| `Library` | folder tree, a file in it, a share into it | resolvers of three files on shared rows | done; `LibraryProofs` |
| `Accounts` | an account, its sessions, keys, links, caches | resolvers, middleware and rate limit on shared rows | done; `AccountsProofs` |
| `Downloads` | download client, its store, range requests | client and server while the file goes away | done; `DownloadsProofs`, first part |
| `DriveView` | the lists one tab shows and what refreshes them | pages, query cache and server | done; `DriveViewProofs` |
| `SharePages` | share handlers, pump, visitors' downloads | handlers, HTTP pump and browser while the file goes away | done; `DownloadsProofs`, second part |

Each proof module has the same shape: an inductive invariant `Inv` (in
`BlobReplicationProofs`, `FileLifecycleProofs` and `DownloadsProofs` several, most
on top of the type invariant), a lemma per action or group of actions that the action keeps
it, `InvNext` and `InvAlways` from those, and short theorems at the end.  Every
theorem holds for every value of the constants that the named assumption of its
module allows: any number of files, folders, requests, workers, senders, retries
and faults.  TLC checks the invariants of those theorems, and has checked the
inductive ones, on the instances below.

What stays with TLC, and why:

| Property | Why it is not proved |
|---|---|
| `QueueDrains`, `DueFilesReclaimed`, `Terminates`, `UploadsEnd`, `DownloadsEnd`, `ChangesAppear`, `TilesFillIn`, `NeverStalls` | liveness under fairness: needs `ENABLED`, which TLAPS does not reason about |

They are properties of infinite behaviours; every invariant and every action
property that a run checks is proved.  The offsets of chunks are sums over any
number of chunks; what is needed of them is proved by induction in its set form
(`SetInduction` in `DownloadsProofs`: a set of naturals with 0 and every successor
has all of them), so that sums are recursive functions in the modules, not
recursive operators.

What is left to do: safety lemmas under `ChangesAppear` in `DriveView`.

The `TypeOK` of every module holds in TLC for its instance; in the runs it is
listed where it is also proved.  Section 12 collects the documented statements
that do not hold.

## 3. `BlobReplication`

One chunk blob and everything that touches it.

| Variable | Code |
|---|---|
| `blob` | its `BlobTransport` row: content hash, `storageKind`, Discord message id (`mloc`) |
| `rows` | its `BlobPlacement` rows, one per (role, provider): status, coordinates, attempts; `by` tells one row from a later one with the same key, as the cuid does |
| `store`, `used` | what each pool holds at each message id; ids are never reused; location 0 is the one path of a LOCAL pool and the null message id elsewhere |
| `up` | the PUT requests, each with its own ciphertext |
| `queue`, `task`, `inFlight` | rows read by a sweep or a write-through, the `processPlacement` call each worker is in, the in-memory claims |
| `reader` | placements a read has still to try |
| `manifest`, `probe`, `purge` | commitManifest done; one health-check visit; one `purgeFileRecord` call |
| `faults`, `lost` | how many faults happened; which pools lost a copy on their own |

Actions follow the awaits: a Prisma transaction or `updateMany` is one step, and
so is each provider call.

* `UploadPut`, `UploadPutFails`, `UploadCommit`, `WriteThroughFind` -
  `handleBlobUploadAs` and the fire-and-forget `writeThroughReplication`.
* `CommitManifest` - the placement rows `commitManifest` adds.
* `SweepFind` - `runReplicationSweep`; `Claim`, `FetchSource`, `FetchFails`,
  `DropOld`, `PutCopy`, `PutCopyFails`, `Activate`, `ActivateMisses`, `Cleanup`,
  `RefreshMirror` - `processPlacement` step by step, with its catch and finally.
* `ReadStart`, `ReadHit`, `ReadMiss`, `ReadError` - `readBlobBytes`.
* `ProbeList`, `ProbeCheck`, `ProbeSkip`, `ProbeFlush` - `runHealthCheck` and
  `updateChunkHealthBatch`.
* `PurgeStart`, `PurgeDelete`, `PurgeCommit` - `purgeFileRecord`.
* `LoseCopy`, `Crash` - the environment.

Abstractions.  Ciphertexts are named by the request that made them
(`encryptServerSide` draws a fresh IV), and SHA-256 is taken to be injective.
Database calls do not fail.  A provider call starts and takes effect in one
step, but it may fail having taken effect.  `readSourceBytes` lists the rows and
gets the bytes in one step.  Marking a row MISSING is one step with the read
that failed.  The attempt counter saturates at `MaxAttempts` (it is only
compared with it).  Backoff times are replaced by a free choice of the batch, so
any row may wait for a later sweep.  `nextAttemptAt`, `healthStatus`, timestamps
and rows without a content hash (written before hashes were) are left out.  When
`commitManifest` runs the blob row exists: the acknowledged upload wrote it, and
only the purge removes it, together with the file.

### Properties

* `TypeOK` - the type invariant.
* `OneWriterPerRow` - the `inFlight` claims are exactly the rows of the running
  jobs, and no two jobs share one.
* `PlacementsMatchBlob` - a stored blob has one row per replica pool and one
  PRIMARY row (more only after `commitManifest`); without a blob row there are
  no placements.
* `AckedUploadDurable` - until a purge starts, and while the primary pools keep
  what they were given, the blob can be read from a serving PRIMARY placement
  and has the recorded hash there.
* `ImplementsDurableBlob` - the refinement below.
* `NoReplicaLeak` - without faults, with one upload and until the purge, each
  message in a replica pool is named by its row or in the hands of a job (a purge
  removes what it has read and then the rows, see section 12).
* `HealedCopyMatchesHash` - action property: a job whose snapshot is current
  activates only bytes with the recorded hash.
* `QueueDrains` - liveness: eventually nothing is queued any more.

### The abstract specification

`DurableBlob` knows an upload the blob stands for, the uploads that have taken
effect, whether primary storage serves the content, and whether anything has
done it harm.  Unharmed, only a write changes anything, each write takes effect
once and as a whole, and the content stays available.  The refinement mapping:

| `DurableBlob` | `BlobReplication` |
|---|---|
| `content` | `blob.hash`, the upload whose ciphertext is on record |
| `written` | the requests whose transaction has committed |
| `available` | there is a blob and `PrimaryServes`: a serving PRIMARY row points at the recorded bytes (at a LOCAL primary: at bytes) |
| `harmed` | a purge has begun, or a primary pool has lost a copy |

Placements, replicas, jobs, reads and the health check are stuttering steps, or
steps of `LoseOrHeal` once harm is done.

### Runs

`MCBlobReplication` instantiates the module; requests, sweep workers and reads
are symmetric where no liveness is checked.

| Run | Instance | Shows |
|---|---|---|
| `ReplFaults` | 2 uploads, 1 sweep worker, 1 read, Discord to Telegram, 2 faults of any kind | one writer per row, hash discipline, the refinement |
| `ReplPurge` | 2 uploads striped over LOCAL and Discord, Telegram replica, purge, commit, health check, 1 fault | types, placements, durability |
| `ReplDrain` | 2 uploads, 2 sweep workers, 1 fault, `MaxAttempts` 4, fair | racing jobs leave no orphan; the queue drains |

Bounds.  Two uploads are what a client retry produces, and make every pair of
write and commit orders happen.  One sweep worker races with the write-throughs,
which are workers of their own; two race with each other as well.  `MaxPuts`
bounds messages per pool: at least one per upload, and repeated puts.
`MaxAttempts` in `ReplDrain` exceeds what the one fault and the hash mismatches of
a superseded write-through can use up: a row that is PENDING when a re-upload
comes keeps its attempts (`blob.ts:409`), so with too small a bound it gives up,
as the code does after `MAX_ATTEMPTS = 8`; in `ReplPurge` it gives up after the
first failure.  The runs set `CHECK_DEADLOCK FALSE` because the system may really
stop: all requests served, queue empty.

Fairness (`FairSpec`).  Weak fairness of the steps that run by themselves: an
upload whose put returned commits and starts its write-through, a job runs on
from each await, the timer starts a sweep when rows are due, a started purge
goes on.  New requests, reads, faults and crashes get none.

### Proofs

`BlobReplicationProofs` proves, for every value of the constants allowed by
`ConstantsAssumption`:

* `TypeCorrect` - TypeOK is not inductive: a snapshot copies the hash of the blob
  row, so placements must exist only beside a blob row (`RowsNeedBlob`), which
  `CommitManifest` keeps because an acknowledged upload has a blob row until the
  purge is done (`AckedHasBlob`); `KindKnown` and `MirrorTask` say which provider
  an upload and a healing job are at.  `TypeInv` is their conjunction.
* `OneWriter` - inductive given `TypeOK`: lemmas for the steps that keep, take
  and release a claim.
* `Placements` - inductive given `TypeInv`.
* `HealedMatches` (action property) - needs that ids not handed out yet hold
  nothing (`Fresh`), that what was put at an id is never replaced
  (`NeverReplacedNext`), and that a job past its hash check carries bytes of the
  hash in its snapshot, and past its put has left them at its id (`JobsBytes`).
* `Durability` - from `DurableInv`, whose part `Safe` holds while no harm is done: an
  upload past its put is held by its pool (`UploadsHeld`); no job and no purge
  reference touches a primary copy (`NoPrimaryJobs`), because every PRIMARY row
  serves and points at a copy (`PrimaryRowsServe`, `PrimaryRefsHeld`); the health
  check has no bad verdict to write (`ProbeSafe`); hence some PRIMARY row serves
  the recorded bytes (`PrimaryServes`).
* `Implements` - step by step: each action is a `Write`, `Harm`, `LoseOrHeal` or
  `Delete` of `DurableBlob` or leaves its variables alone; the content stays
  available by `Durability`.
* `NoLeak` - from `CalmFacts`, which say while nothing has failed who owns a
  message: a row PENDING or DELETING names none, two jobs hold different ids, a
  snapshot taken before an activation can no longer activate (`CalmJobs`,
  `CalmTask`), and reads never park a live copy (`CalmRef`).

`QueueDrains` is liveness and stays with TLC.

## 4. `FileLifecycle`

File rows from `initUpload` until they are gone, and everything that reads one
before an await and acts on it afterwards.

| Variable | Code |
|---|---|
| `file` | the File rows: status, owner, `deletedAt` (`trash`: out, recent, or older than 30 days), `isAnonymous` with `expiresAt` (`ttl`), `thumbnailBlobId`; "gone" once deleted |
| `row` | owner of each `BlobTransport` row of a file, by part: its chunks and `thumb` |
| `quiet` | files without a new File or blob row for an hour, what `findStaleUploads` computes from `createdAt` |
| `shares` | owners of the Share rows of a file |
| `op` | requests between two of their statements, and the thumbnail job `commitManifest` starts |
| `purger` | a purge in progress: the files and owners it read, the file it is at, the rows it listed |
| `saved`, `late`, `faults` | history: files committed, restored, claimed or given a new TTL after a purge had looked at them for the last time; rows written after a purge had listed the rows; faults so far |

Each handler is one action per database statement, with the check before and the
write after: `PutCheck`, `PutRecord`; `CommitRead`, `CommitWrite`; `ThumbRead`,
`ThumbRow`, `ThumbFile`; `TrashRead`, `TrashWrite`, `TrashUnshare`;
`RestoreRead`, `RestoreWrite`; `ShareRead`, `ShareWrite`; `ClaimRead`,
`ClaimWrite`; `ExtendRead`, `ExtendWrite` (`extendAnonymousTTL`).  The trash actions
are `deleteFile` and, for a file that is not claimed, `deleteAnonymousFile`, which
removes everybody's shares.  Writing to a File row that is gone throws, as
Prisma's `update` does.  The purges are `trash`, `stale` and `anon` (the sweeps of `index.ts`),
`empty` (`emptyTrash`) and `one` (`purgeFile`): `PurgeSelect` is their query,
`PurgeSkip` the second look only the stale-upload sweep takes, `PurgeList` and
`PurgeCommit` are `purgeFileRecord`, `PurgeGone` is its transaction rolled back.
A sweep goes on after a failure, `emptyTrash` does not.

Abstractions.  A blob row stands for its blob (section 3 has the copies).  One
user account and the system user are the owners; all users act as that one.
Users own their chunks under the blob ids of their own files.  The client
commits after its PUTs returned and uses the last chunk as manifest, as
`upload.ts` and `anonUpload.ts` do.  The second look of the stale-upload sweep
and its listing of the rows are one step; the File row of a purge is read for the
last time there, and elsewhere in the query.  Sharing needs a committed file, and
a claim some share; tokens, expiry, revocation and view counts of shares
are the matter of `Library`, and so are folders with the sweep of expired ones
(here only the trashing of their files).  The preview a client may set
(`setFilePreview`), moves and renames are left out.

### Properties

* `TypeOK` - types; nothing is ever written to a File row that is not there.
* `CommittedFileComplete` - a READY file has all its chunk rows, and the
  thumbnail it names has a row.
* `LeftoversAreLate` - a removed file leaves only rows written behind the back of
  its purge, or rows of the uploader of a claimed file.
* `SharesLeadToFiles` - a share leads to a committed file, although
  `createShare` checks before it writes.
* `OnlyDueFilesPurged` - action property: a removed file was in the trash,
  uncommitted or past its TTL, unless it was committed, restored, claimed or given
  a new TTL after that purge's last look.  For the TTL sweep that is its query, so
  an extension during the sweep may be lost (`ExtendedFilesKept`, section 12).
* `DueFilesReclaimed` - liveness: an abandoned upload, an expired file or old
  trash is removed or stops being due.

### Runs

| Run | Instance | Shows |
|---|---|---|
| `FileAnon` | 1 anonymous file, 2 chunks, 2 requests, the TTL sweep, `purgeFile` and `emptyTrash`, 1 fault | completeness, shares and leftovers under concurrent requests |
| `FileSweeps` | 1 anonymous file, 1 request, the three sweeps, 1 fault, fair | every file due is reclaimed, and only files due |

Bounds.  Two requests give every pair of handlers of one file; the purges of a
run race with each other and with them.  Files interact only through the lists of
the purges; a purge whose list is long is one that stays between its query and
the file, which the interleavings with one file have too.  One fault is one
failed purge or one crash.  An abandoned anonymous upload is due for two sweeps;
in `FileSweeps` only old trash depends on one sweep alone.  `CHECK_DEADLOCK FALSE`
because without users nothing need happen.

Fairness.  `setInterval` starts the sweeps again and again and each goes on to
its end (`WF` of each sweep), hours and months pass.  No request is fair: users
promise nothing.  Every failure counts against `MaxFaults`; a purge that failed
for ever would keep its file, in the code too.

### Proofs

For every value of the constants that satisfies `ConstantsAssumption`:

* `TypeCorrect` - `TypeOK` needs that a running request
  names a file and an owner, and that a row that is there has an owner
  (`TypeInv`).
* `Complete` and `Shares` - from `Fine`: rows are never emptied before the file
  is gone (`Advances`), so what a request checked is still good for a file that
  exists when it writes (`OpFine`).
* `OnlyDue` - from `Hunted`: what a purge has looked at for the last time is due or
  saved; requests spare files (`Spares`), a purge takes up only due ones.
* `Leftovers` - from `Swept`: blob rows keep the uploader as owner, an owner a
  purge read differs from the uploader only after a claim, and every part the
  purge did not list is empty, late, or of a claimed file.

`DueFilesReclaimed` is liveness and stays with TLC.

## 5. `UploadSession`

One call of `uploadFile` (or of its anonymous twin), the row of the upload store
that shows it, and the server as far as that call can see it.  JavaScript runs
one task at a time: a step is the code between two awaits.

| Variable | Code |
|---|---|
| `mode`, `count` | `upload.ts` or `anonUpload.ts`; the chunks of the file |
| `phase`, `pass` | where the function is; which resume pass it runs |
| `row`, `aborted` | status of the store's row; `controller.signal.aborted` |
| `iter` | the shared chunk generator with its hand-made mutex and those who wait for it |
| `worker` | each upload worker: what it awaits, its chunk and its attempt |
| `done`, `serverHas` | `doneChunks`, with and without a blob record; `serverHasChunks` |
| `server` | status of the File row and the chunks that have a row |
| `ghosts`, `commit` | PUTs the browser has given up on and that may still arrive; the commit request, with its own ghost |
| `cancelled`, `faults` | history |

`Loop`, `Woken`, `Read`, `ReadFails` are `nextChunk`; `PutLands`, `Ack`, `PutFails`,
`PutRefused`, `BackoffOver`, `SignalStops`, `GhostLands` are `uploadChunk` with its
retries; `PassEnds` (`allSettled`) and `AnonPassEnds` (`Promise.all`), `Query`,
`Resume` the passes; `CommitLands`, `CommitOk`, `CommitFails`, `CommitAgain`,
`GhostCommits`, `Recover` the commit; `Cancel`, `CancelPlaceholder`, `RemoveRow` the
store and its component.  Contents, sizes and encryption are left out; the
server refuses a commit without a record of the last chunk and does not count
the others, as `commitManifest` does.

* `ReadyIsComplete` - a READY file has a row for every chunk.
* `DoneIsReady` - the browser reports an upload as done only if the file is READY.
* `OneSenderPerChunk` - no two workers send one chunk at the same time.
* `CancelIsFinal` - action property: a cancelled row stays cancelled while the
  pipeline unwinds, and once the signal is aborted no worker starts a PUT.
* `Terminates` - liveness: the call returns or throws and every worker ends.

Run `Uploads`: up to 3 chunks, 2 workers, 2 attempts, 2 passes, 3 faults.  Three
chunks let one worker overtake the other at the generator; two attempts and
passes are the least that repeat; three faults fail a chunk for good in the
first pass and one more request.  The user's clicks, and requests nobody waits
for, are not fair; every request is answered or breaks, and every delay ends (the
fetches carry a signal, and a broken connection rejects them).

### Proofs

`UploadSessionProofs`, from `UploadAssumption` (sizes are numbers, a pool has at
least one worker and one attempt); one inductive invariant, `Inv`:

* `Complete` (`ReadyIsComplete`) - the server commits without counting, so the
  argument is the browser's: a chunk the iterator has given out is done with or in
  a worker's hands unless some worker failed (`Covered`), a worker ends well only
  when the iterator is at the end (`Exhausted`), and outside a pass no worker is
  under way (`Quiet`); hence a commit, or the ghost of one, is sent only when all
  chunks are done with (`CommitsAreWhole`), and what counts as done is stored,
  also what a resume skipped (`SkippedStored`).
* `OneSender` - a chunk in hand lies behind the iterator (`Behind`), and those who
  wait for the lock wait once each (`Queue`), so that one hand-over wakes one.
* `DoneMeansReady` - a positive answer means READY (`AnswerKnown`), and the
  recovery asks the server.
* `CancelStays` (action property) - a cancelled row belongs to a signed-in upload
  whose signal is aborted (`Aborted`).
* `TypeCorrect` - needs that attempts and passes are counted before they are
  begun (`Bounds`).

`Terminates` is liveness.

## 6. `SenderPools`

The senders behind the storage pools - webhooks, directly or through the relay,
bots, replica accounts, Telegram bots - and the limiters every call keeps.

| Variable | Code |
|---|---|
| `remaining`, `closed` | `remaining` of a bucket and whether its `resetAt` lies in the future (`rate-limiter.ts`) |
| `inFlight` | reservations, of both clients' limiters |
| `claims` | `senderActiveUploads` of `discord-blobs.ts` |
| `barred` | Telegram bots within their interval or a `retry_after` |
| `blocked` | the Cloudflare block the Discord client has noticed |
| `upload`, `call` | uploads, and reads or deletes, between two awaits |
| `faults` | history |

`ChoosePool` is `getPrimaryPool`, `Select` the selection with its claim or
reservation; `Post`, `PostBreaks`, `DiscordAnswers`, `TelegramAnswers`,
`TelegramParsed`, `BackoffOver` the upload loops with their `finally`; `StartCall` to
`CdnAgain` reads and deletes, which record what they learn and wait for nobody.
Time is reduced to windows, intervals and blocks that are on until they end
(`WindowResets`, `BlockLifts`); within a tier the cursors are replaced by a free
choice; headers may bring any budget, in any order of answers.

* `SendersAccounted` - the counters are exactly what is going on: a claim per
  upload at a primary Discord sender, never above the cap; a reservation per
  request, and per upload at a Telegram bot.
* `TelegramSerial` - a Telegram bot works on one upload at a time.
* `UploadsEnd` - liveness: no upload waits for a sender for ever.

Run `Senders`: one relayed webhook, one bot, one replica account, one Telegram bot,
2 uploads, one other call, caps, budget and retries of 1, 2 faults.  With caps of
1, two uploads compete for each sender; one retry is enough to go from a relay to
the direct way and to give up.  Windows end, requests end within their timeout,
an upload polls until it has a sender; with a finite number of uploads weak
fairness of each is enough.

### Proofs

`SenderPoolsProofs`, from `SenderAssumption` (the kinds of senders are disjoint, the
uploads finitely many, the bounds natural numbers).  `SendersAccounted`
and `TelegramSerial` are inductive together with `TypeOK` and `SendersKnown` (an
upload or call under way has a sender of the right service); the rest is counting:
moving one upload changes the number of those a sender holds by one or not at
all (`FiniteSetTheorems`), and each action adjusts the counters by the same.

* `Accounted` - claims and reservations are never leaked nor returned twice.
* `OneUploadPerBot` - a Telegram bot has at most one reservation.
* `TypeCorrect`.

`UploadsEnd` is liveness.

## 7. `Library`

The folder tree of one library, an account's or an anonymous session's, a file in
it and a share of the file or of a folder.

| Variable | Code |
|---|---|
| `anonymous` | which resolvers: `folders.ts`, `files.ts` or their anonymous twins |
| `parent` | `parentFolderId`; no row before creation and after deletion |
| `file` | its folder and whether it is in the trash |
| `share` | the Share row: active, revoked, expired or gone; what it shares; `viewCount` |
| `req` | requests between two queries; `agenda` is the call stack of a recursive delete |
| `raced` | history: a move was written on a walk another move had overtaken |

A step is one query.  `CreateFolder`; `MoveFind`, `MoveParent`, `MoveWalk`,
`MoveUpdate`; `DeleteFolder`, `DeleteFind`, `DeleteMark`, `DeleteKids`, `DeleteList`,
`DeleteDrop`; `FindFile`, `FileParent`, `FileUpdate`, `TrashUnshares` (move, trash and
restore a file); `VisitCheck`, `VisitCount`, `VisitContents`, `FetchChecks`,
`FetchScope`, `FetchBytes` (`accessShare` and the share branch of a blob fetch);
`Revoke`, `Expire`.  `SweepList`, `SweepMark`, `SweepDrop` are the folder half of
`purgeExpiredAnonymousFiles`, for each expired folder of its list one request:
its files go to the trash, then its row is deleted.  A request may begin it for
any folder of an anonymous drive at any time, since time passes when it likes; the
list may be as old as it likes by the time of the folder's turn.  Deleting a folder
lifts to the root what still points at it
and takes its links along, as the foreign keys say.  Names are left out, and with
them the renames.

* `TreeRooted` - every folder and the file can be reached from the root, unless a
  move was written on a walk another had overtaken (then a cycle is possible: the
  code has no transaction there).
* `DeleteIsDeep` - a delete that succeeds has trashed what was below the folder
  when it began, except what was taken out or restored meanwhile.  Being lifted
  out, by the sweep too, counts as taken out, see below.
* `ViewsWithinLimit` - `viewCount` exceeds `maxViews` only by visits whose check
  another visit's count had overtaken.

Run `Library`: 3 folders, 2 requests of any kind, at most 2 views; `MaxAgenda` 6
bounds the call stack, which grows without bound only in a tree that two moves
have tied into a cycle.  Three folders make the smallest cycle with a folder
below it; every pair of requests interleaves query by query.

### Proofs

`LibraryProofs`, from `LibraryAssumption` (finitely many folders, distinct from the
markers for no row).  `PathIn` is defined by closed sets instead of recursion: the
folders from `f` upwards are those in every set around `f` that holds the parents of
its members.  That makes the way up something the provers can reason about, also
in a tree that two moves have tied into a cycle.

* `TreeStaysRooted` - the invariant is `Loopless`: every set of folders has a
  member whose parent is outside.  A move keeps it because its walk has climbed
  from the goal past a set of folders free of the one to move, up to the root
  (`Walk`, `Climbed`); what other requests write either leaves those parents alone,
  lifts them to the root, or marks the walk as overtaken (`stale`).  From
  `Loopless`, every path ends at the root (`RootedLoopless`).
* `DeletesAreDeep` - a delete that owes the file has a query on its agenda that
  puts it in the trash or leads to one that does, and no folder around the file is
  deleted before that query (`Pending`).  Lemmas say how a step of the recursion
  rewrites the agenda (`ProceedStep`, `CallsFit`) and how the path of the file changes
  when other requests move, create or delete folders (`PathSame`, `DeepKept`).
* `ViewsLimited` - a visitor whose check nobody overtook still finds a view left
  when it counts (`View`).
* `TypeCorrect` - a folder's row goes in two places, a delete and the sweep;
  `DropFits` and `DropStep` say once what that does to the rows and to the tree.

The proof of `DeletesAreDeep` found a case that two requests do not show.  With
three - two overlapping deletes and a move - a file is moved into a folder that
one delete, already past its files, is about to drop; the foreign key lifts it to
the root, and the other delete, which began around it, misses it.  The file is
outside the deleted tree then, as if it had been taken out, and `DeleteIsDeep`
counts it so: dropping or moving a folder around the file disowns the
other deletes (`Disowned`).

## 8. `Accounts`

One account, its device sessions and API keys, the links mailed to it, and the two
caches of the API process.

| Variable | Code |
|---|---|
| `user` | the User row: password (named by the request that set it), old or new hash form, verified, its one reset link |
| `row` | session and key rows: active, expired, revoked, gone |
| `link` | verification and deletion links |
| `cache` | `sessionCache` and `apiKeyCache`: empty, yes, no |
| `rate` | calls counted in the window of `checkRateLimit` |
| `req` | requests between two queries |

Each resolver is a find and a write (`VerifyFind`/`VerifyWrite`, `ChangeFind`/
`ChangeWrite`, `ResetFind`/`ResetWrite`/`ResetList`, `ConfirmFind`/`ConfirmBurn`/
`ConfirmDelete`, ...); `RevokeWrite` and `Forget` are the row and then the cache;
`Use`, `UseLookup`, `UseFill` are `isSessionActive` and `authFromApiKey`; `Refuse` and
`WindowEnds` the rate limit; `Migrate` the silent re-hash of an old password at
login.  Token signatures and hashing are taken as given; `CacheExpires` covers
the minute and a restart.  `stale` in a request is history: what it has read has
been written over.

* `RevokedOnlyByRace` - what is revoked is accepted from the cache only if a lookup
  that read the row before had not yet filled the cache when it was cleared.
* `ResetKillsSessions` - a reset that succeeds has revoked every session there was
  when the password was replaced.
* `LinksWorkOnce` - a link works twice only for two calls that overlapped, the one
  that deletes the account never.
* `MigrationKeepsPassword` - a login leaves the password as it is, unless the
  password was replaced while it was hashing.

Run `Accounts`: 3 requests, one session, key, verification, reset and deletion link,
`MaxRequests` 1.  Each property relates two requests, and a third sets the
stage; one of each row is enough because no operation relates two of a kind
except the list of a reset, which is walked in any order.

### Proofs

`AccountsProofs`, from `AccountsAssumption` (requests, credentials, links and the
marker for no value are distinct).  `Inv` records what each request under way has
read: rows it names exist and are not forgotten (`ReadsExist`), a login past its
check is one of a verified account and rewrites the password it checked
(`LoginKnown`, `LegacyFirst`), a lookup that read a row before its revocation is
marked as overtaken (`LateFill`), what a reset owes is on its list or revoked
(`Owed`), and who read a link before it was used is marked (`UsedLink`).

* `RevokedStaysOut`, `ResetEndsSessions`, `LinkUsedOnce` - for any number of sessions,
  keys, links and requests; the run has one of each.
* `MigrationIsSilent` - action property, from `LoginKnown`.
* `TypeCorrect` - with it, that sessions exist only for a verified account and
  nothing is left of one that is gone.

## 9. `Downloads`

Downloads of one file in the web client, and range requests for it.

| Variable | Code |
|---|---|
| `size`, `server`, `anonymous` | plaintext sizes of the chunks; whether the file is ready, trashed or purged; whose it is |
| `call` | `downloadFile` calls: the pool's cursor, each worker with its chunk and attempt, what has arrived |
| `entry`, `controller`, `dismissing` | the entry of the download store, its `AbortController`, the timer that drops it |
| `stream` | `handleStreamRequest` calls: the form of the range header, range, chunks, body |

`Start`, `Listed`, `ListFails`, `Fetched`, `TimesOut`, `FetchFails` are `downloadFile`
and `pool`; `Cancel`, `DismissSoon`, `Dismiss` the store and `DownloadProgress`;
`StreamFind`, `StreamRange`, `StreamPiece`, `StreamFails` the handler; `Trash`,
`Restore`, `Purge` what happens to the file.  Decryption is left out: a byte is its
place in the file.

`Headers` are the forms of a range header the handler tells apart: none, one with
a first byte (`bytes=a-` or `bytes=a-b`, also the first of several), `suffix`
(`bytes=-n`) and any other.  Its pattern takes only the second; the last two are
refused with 416 and no `Content-Range` (`invalid`), after the checks of the file
and its chunks.

* `SavesWholeFiles` - what is saved has every chunk, and nothing is saved after a
  cancellation.
* `EntryTellsTheTruth` - a download that is the only one of its file is shown with
  its own progress, can be cancelled, and is shown as done only if it was saved.
* `StreamsExactly` - a request that succeeds is answered with exactly the bytes of
  its range, or with the whole file if it has no range header; a range with a
  first byte is unsatisfiable only if no byte of the file is in it, and only
  headers of the other forms are refused as invalid.  That a suffix range is
  among those although it selects bytes is `LastBytesServed`, section 12.
* `DownloadsEnd` - liveness: a download and all its workers end.

Run `Downloads`: 2 calls by 2 workers with 1 retry, 1 stream request, files of up to
3 chunks of at most 2 bytes (chunks of no bytes included), every form of header.
Two bytes give every position of a boundary inside and at the ends of a range.  The two parts share
nothing but the file, so a behaviour has downloads or stream requests.  Every
query is answered or fails and every fetch ends within its timeout.

### Proofs

`DownloadsProofs`, from `DownloadsAssumption`.  `Inv` is `PageTypes`, `PoolAccounted`
(while the pool works every chunk has arrived, is being fetched or is still to be
taken; when the file is saved the workers have ended), `AloneIsAlone` (what holds
of store, controller and timer around a download that found nothing of an earlier
one) and `EntryTellsTheTruth`.

* `SavedWhole` - action property: whichever worker is last.
* `TellsTheTruth` - for any number of downloads, workers and retries.
* `PagesTyped` - the types of the download side.
* `StreamedExactly` - a stream request, for any number of chunks of any size, chunks
  of no bytes included.  `StreamsOk` says where the answer is: while the handler
  reads, the body is the run of bytes from the first one asked for to the chunk it
  has reached (`Run`, `Reached`), the last one asked for lies in the chunk where the
  loop will stop and in none before it.  A chunk adds the run from there to its own
  end or to the end of the range (`PieceIsRun`), and runs join (`RunsJoin`).  Below
  it stand the sums: offsets are naturals and grow (`PrefixNat`, `PrefixGrows`,
  `OffsetsGrow`), and there are a first and a last chunk with a byte of the range
  (`FirstFound`, `LastFound`), each by induction over the number of chunks.

`DownloadsEnd` stays with TLC (section 2).

## 10. `DriveView`

What one browser tab shows: the pages, the lists they load through the query
cache (react-query, external) and what each handler refreshes after its change.
Entries of the cache do not influence each other, so a behaviour watches one
(`key`); all of them, of every routed page, are initial states.

| Variable | Code |
|---|---|
| `key`, `page` | the watched query key; the page on screen |
| `entry` | what the tab holds: fresh, stale or invalid, and how it relates to the last change (`current`; `told`: a handler still refreshes it or has marked it; `missed`: nobody will) |
| `fetch` | loads under way (`Slots`): one through the cache; in `ShareModal`, whose list is component state, one for its opening and one for each change, none cancelling another |
| `op` | changes under way: requests left, whether the handler refreshes after each or after the last, whether it owes a refresh, whether the page it began on polls while it runs |
| `tile` | the thumbnail of a new image |

`Change` and the records built from it (`Upload`, `Delete`, `MoveFile`, `CrumbMove`,
`NewFolder`, `DropUpload`, `KeyChange`, `HealthCheck`, `CreateShare`, ...) say for each
handler what it changes and what it refreshes.  `Visit`, `OpenModal`, `CloseModal`,
`Focus`, `Poll`, `Serve`, `Land`, `Age`, `FetchFails` are the cache and its loads;
`Begin`, `Apply`, `Answered`, `Fails` a change; `SwitchUser` signs somebody else in.

What becomes of a handler whose component has gone depends on where its list
is.  A page's handler goes on through the query cache; only the polling of the
health page ends with its state (`Leave`).  A handler of a `ShareModal` refreshes
the list of that modal and no other: closed, it changes what it changes and
refreshes nothing on screen, however often the modal is opened again (`Detach`).
In an open modal creating and revoking keep separate state and may overlap;
one health check at a time runs from a page that stays.

* `NoChangeForgotten` - a list that predates a change its handler answers for is
  marked or about to be, never left looking fresh.  A handler answers while it can
  still refresh the list on screen.  What is in nobody's charge - the refresh
  failed, an older load was overtaken, the modal of the change was closed - is
  `missed`; the lists that then look fresh and are not are those of
  `NewLinkListed` and `FreshIsCurrent`, section 12.
* `ChangesAppear` - liveness: a list on screen catches up with such a change.
* `TilesFillIn` - liveness: a tile shown as pending is filled while the page stays.

Run `Views`: 2 changes at a time, 2 in all, 1 fault.  Two changes are what it takes
for the refresh of one to meet the load of the other.  Requests are answered or
fail and the page's poll timer runs; the user need not do anything.

### Proofs

`DriveViewProofs`, from `DriveViewAssumption` and `NoneAssumption`.  `NothingForgotten`
is inductive with three facts: a handler that owes a change refreshes the
list (`HandlersRefresh`), an answer under way that predates a change lands only
while a handler is still to refresh (`LoadsTold`), and a closed `ShareModal` holds no
list, no load and no handler that would refresh one (`ClosedIsEmpty`), which is
what `Detach` leaves.  The tables of pages, lists and handlers are unfolded once,
in `ListsOf` and `OffersFit`, and the actions use what those say.  With it:
`TypeCorrect`.  `ChangesAppear` and `TilesFillIn` are liveness.

## 11. `SharePages`

What the visitors of a link get.

| Variable | Code |
|---|---|
| `live`, `allow` | the share is neither revoked, expired nor used up (how, is the matter of `Library`); what it allows and whether there is a thumbnail |
| `rows`, `trash`, `copies`, `outage` | rows of the files, the trash, chunks with a readable copy, the provider unreachable |
| `visit` | requests: status, range, the `ReadableStream` with its one place (`body`, `queue`, `pull`), the pump of `index.ts` (`pump`), the socket (`sock`), what the visitor has (`got`) |
| `tab` | downloads a browser puts together, `SharedFile`, the visitor's and the owner's zips: the files listed, those left, of the file under way the chunks that have come and its buffers, the files put together |

`Resolve`, `List`, `Probed` are the handlers up to the response; `PullEnds`,
`PumpTakes`, `Drain`, `HangUp`, `PumpEnds` the body and the pump; `Visit`, `Arrived`,
`FetchRefused`, `Save` the browser; `ShareDies`, `TrashFile`, `LoseCopy`, `PurgeRows`,
`Outage` the world.  A purge deletes copies first and rows last.  The three forms
of a byte range and their errors are enumerated; bytes are places in the file.
`Awaited` is what a download waits for: the next chunk, or, in the owner's zip,
which asks for all chunks of a file at once (`Promise.all`), any that has not come;
`Buffered` gives each answer its place.

* `AnswersMatchRequest` - the bytes sent are those asked for, in order, and all of
  them if the response ends as complete; an offered link is refused only for a
  cause that came up later, a range only if it selects nothing.
* `ReadsBounded` - a response holds two chunks at most, and when its visitor has
  gone at most one more read begins.
* `NeverStalls` - liveness: again and again a response is over or waits for its
  visitor.
* `SavedIsWhole` - every file saved has all its chunks in order, and but for the
  owner's zip no listed file is missing.

Run `Shares`: a folder with files of chunk sizes 1, 2, 1 and 1, three sets of
permissions, one request or one download (`MaxVisits`), 1 fault.  Requests do not
influence each other.  The middle chunk has two bytes so that a range can begin
and end inside it.  Reads end and the pump runs; nothing is assumed of the
visitor.  1,005,366 distinct states.

### Proofs

In the second part of `DownloadsProofs`, which extends both modules (their names
are distinct, hence `PagesInit`, `PagesNext`, `PagesSpec`): the lemmas on sums and runs
of bytes serve both.  From `SharePagesAssumption` (a folder
of at least one file, files of at least one chunk, chunks of at least one byte), for
any files, permissions, visitors, downloads and faults.  The client computes the
number of chunks as `ceil(size / chunk size)` (`upload.ts:148`) and the commit needs
the record of a last chunk, so a file that can be shared has chunks and none is
empty.

`VisitsOk` is inductive for the requests.  `Unsent`: before the response there is no
body.  `Flowing`: a chunk is in the body or being read for it, never both; the
pump waits for the socket exactly while the socket holds a piece; and no read has
begun for a visitor who has gone as long as the pump can still read on.  `Sending`:
the response has a range the request asks for, and what the visitor has, what the
socket and what the body hold are three runs of bytes one behind the other
(`Follow`), up to where the chunk is taken up that is read or is next (`Edge`).
`Refused`: an error status has its cause.  `TabsOk` is inductive for the downloads:
the buffers of the file under way are exactly the chunks that have come, in the
order of the file, and the files put together are whole and, but for the owner's
zip, all those dealt with.

* `ReadsAreBounded` - from `Flowing`: at most two chunks, at most one late read.
* `AnswersAreRight` - from `Follow`: the bytes asked for, in order.  `WantedIs`
  shows that the range of the code (`First`, `LastByte`, `Satisfiable`) selects
  exactly the bytes of the request in the words of HTTP, for all forms of a range.
* `SavesAreWhole` - from `TabsOk`, in whatever order the answers to the owner's zip
  come.

`NeverStalls` stays with TLC (section 2).

## 12. Where code and text disagree

These definitions state what a comment, a page, a test or the README says, and
TLC finds a behaviour of the model that violates them.  They have no run; each
can be added to a configuration of its module, to see the behaviour or to try a
fix.  Most are violated in the instance of a run of the module; a few need another:
`CleanupRemovesOwnCopy` a LOCAL replica pool, `OtherLinksUsed` two verification
links, `NoDialWhileBlocked` two calls, and `TrashSweepTakesTrash` means something only
with the trash sweep as the one purge.

| Definition | What is said, and what happens |
|---|---|
| `BlobReplication!ActiveReplicaIsCurrent` | a re-queued row is not resurrected as ACTIVE (`replication-worker.ts:128`); a job begun before a re-upload activates the old bytes, since the recheck accepts the PENDING the re-upload set |
| `BlobReplication!PurgeReachesEveryCopy` | deletes reach every copy (README); one recorded while the purge deletes what it had read stays |
| `BlobReplication!OnlyDeadCopiesParkedMissing` | a bad copy is parked MISSING (README); a 404 for replaced coordinates parks the live one |
| `BlobReplication!OnePrimaryAfterManifest` | one PRIMARY row (README); under striping `commitManifest` adds a second |
| `BlobReplication!CleanupRemovesOwnCopy` | the cleanup removes "the copy we just wrote" (`replication-worker.ts:145`); at a LOCAL path it may be an upload's bytes |
| `FileLifecycle!InProgressUntouched` | the stale-upload sweep spares transfers in progress; it looks at `createdAt` only once |
| `FileLifecycle!TrashSweepTakesTrash` | the sweep takes what is in the trash (`index.ts:195`); a file restored while it works through its list is removed |
| `FileLifecycle!ClaimedFilesKept` | a claimed drop is kept (`landing.ts`); the TTL sweep does not look again |
| `FileLifecycle!ExtendedFilesKept` | "TTL extended" (`Drop.tsx:239`), `extendAnonymousTTL` pushes `expiresAt` forward (`docs/hermes/plan.md:400`); the TTL sweep trusts its list (`files.ts:128`) and removes a file extended while it works through it |
| `FileLifecycle!PurgeRemovesRows` | a purge removes the blob rows (`files-lifecycle.test.ts:273`); those of a claimed file belong to the system user |
| `FileLifecycle!DeleteRemovesShares` | deleting works unmodified after a claim (`files.ts`); the shares of a claimed file stay |
| `UploadSession!ResumedUploadCommits` | a resume completes the upload; if the answer to the last chunk's PUT was lost, its record is missing and the commit is refused (`upload.ts:361`, `:366`, `:385`) |
| `SenderPools!NoDialWhileBlocked` | an IP that Cloudflare blocks is not dialled (`downloader.ts:75`); the retry loop does not ask again |
| `Library!LastViewerServed` | a share admits `maxViews` visitors; the last one is let in and his chunks are refused, the limit being reached |
| `Accounts!OtherLinksUsed` | "all outstanding" verification links are marked used in one transaction (`auth.ts:227`); only the one followed is |
| `Accounts!MigrationTransparent` | the migration of an old hash is transparent; it may write back a password replaced meanwhile |
| `Downloads!LastBytesServed` | the endpoint maps the requested byte range to chunks (`docs/hermes/plan.md:132`); `bytes=-n`, the last n bytes, is answered 416 (`stream.ts:128`) |
| `DriveView!NewLinkListed` | a new link appears at once (`ShareModal.tsx:216`); an older load may overwrite the list, and a modal closed and opened again is not told of a change begun before |
| `DriveView!FreshIsCurrent` | a fresh list shows what the server has; several handlers refresh less than they change, and a new user sees the old cache |
| `DriveView!DriveShowsItsRows` | the drive shows rows of its own query; the health page loads other fields under the same key |
| `SharePages!RangeStartsReadable` | the first chunk of the range is probed (`share-page.ts:378`); the handlers pass 0 (`:400`, `:441`), so it is that of the file |
| `SharePages!GoneIsReleased` | a visitor who hangs up releases the reader (`index.ts:312`); one who does so while the pump awaits the body is missed, and the next write waits for good |
| `SharePages!ZipHasEveryFile` | a zip has the files of its folder; a file that fails is skipped (`download.ts:213`) |

## 13. Not modelled

* The mailer (its failure is part of `Accounts`), configuration, Redis connection,
  plugin SDK and type declarations: no state worth checking.
* `packages/stream-engine`: no program but a benchmark calls it; the upload and
  download code that replaced it is modelled.
* Scripts, benchmarks, examples and documents.  One of them,
  `scripts/healthcheck.ts:115`, asks for `encryptedHash`, which the schema does not
  have.
* `AnonymousDrive.tsx` and `AnonymousUpload.tsx`, which no route shows; forms, drag
  and drop, previews, players and the command palette; HTML pages other than the
  share page.
* Content reports (`reportShare`), the request that creates the link of an
  anonymous folder (`createAnonymousFolderShare`; `Library` starts with its result),
  the preview a client may set, and names: renames
  and the collisions of names in a zip.
* Multipart parsing, HTTP details, response formats; cryptography and token
  signatures, which are taken as given.
* Several API processes: `inFlight`, limiters and caches are those of one.

## 14. Checking

`tlc -config <Run>.cfg <MC module>` checks a run and `tlapm <Proofs>.tla` the proofs
of a module; `PROJECT.json` names the runs, their modules and their properties, the
mutated definitions that show each property can fail, the source lines of every
definition, the hazards and the theorems.
