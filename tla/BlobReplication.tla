-------------------------- MODULE BlobReplication --------------------------
(***************************************************************************)
(* One chunk blob of a ddrive file: its BlobTransport row, its             *)
(* BlobPlacement rows, the physical copies in the provider pools, and the  *)
(* handlers of the API process that change them: the PUT /api/blob upload, *)
(* commitManifest, the write-through and swept replication jobs            *)
(* (processPlacement), the read path with failover, the health check, the  *)
(* purge of the owning file, and a process crash.                          *)
(*                                                                         *)
(* The API is one Node process: code between two awaits is atomic, and     *)
(* anything may run at an await.  Every await that matters is a step of    *)
(* its own here; a Prisma $transaction or updateMany is one step.          *)
(*                                                                         *)
(* Ciphertexts are identified with the upload request that produced them:  *)
(* encryptServerSide draws a fresh IV, so every request has bytes, and a   *)
(* content hash, of its own.  The SHA-256 hash of a ciphertext is taken to *)
(* be injective, so a hash is represented by the ciphertext it names.      *)
(***************************************************************************)
EXTENDS Naturals

CONSTANTS
    Requests,      \* upload requests (PUTs) for this blob
    Sweepers,      \* the concurrent workers of one replication sweep
    Readers,       \* concurrent reads of the blob
    PrimaryKinds,  \* providers new uploads may go to (striping: several)
    ReplicaKinds,  \* STORAGE_REPLICA_PROVIDERS with configured senders
    MaxAttempts,   \* MAX_ATTEMPTS of the replication queue
    MaxPuts,       \* bound: messages posted per pool
    Events,        \* the faults and operator actions that may happen
    MaxFaults,     \* bound: how many faults may happen
    None           \* no value

Kinds == {"LOCAL", "DISCORD", "TELEGRAM"}
Faults == {"get", "put", "delete", "lose", "crash"}

ASSUME ConstantsAssumption ==
    /\ PrimaryKinds \subseteq Kinds /\ PrimaryKinds # {}
    /\ ReplicaKinds \subseteq Kinds
    /\ Requests \cap Sweepers = {}
    /\ "sweep" \notin Requests /\ "manifest" \notin Requests
    /\ None \notin Requests \cup Kinds
    /\ MaxAttempts \in Nat \ {0} /\ MaxPuts \in Nat /\ MaxFaults \in Nat
    /\ Events \subseteq Faults \cup {"purge", "commit", "probe"}

PrimarySlots == {"PRIMARY"} \X PrimaryKinds
ReplicaSlots == {"REPLICA"} \X ReplicaKinds

(* A blob has at most one placement row per pool, and a pool is a role and *)
(* a provider: @@unique([blobId, provider, poolRole]).                     *)
Slots == PrimarySlots \cup ReplicaSlots

(* Message ids of a pool.  0 stands for a null messageId; it is also where *)
(* a LOCAL pool keeps the bytes, at one path per blob.                     *)
Locs == 0 .. MaxPuts

Workers == Sweepers \cup Requests
Queues == Requests \cup {"sweep"}
Bytes == Requests \cup {None}
Creators == Requests \cup {"manifest"}
Statuses == {"ACTIVE", "PENDING", "MISSING", "MODIFIED"}

VARIABLES
    blob,     \* the BlobTransport row: content hash and legacy mirror
    rows,     \* the BlobPlacement row of each pool
    store,    \* the bytes each pool holds at each location
    used,     \* messages posted to each pool so far
    up,       \* the upload requests
    queue,    \* placement rows read by findMany and not yet processed
    task,     \* the processPlacement call each worker is in
    inFlight, \* ids of the rows being processed (in memory)
    reader,   \* placements each read has still to try
    manifest, \* commitManifest has made the file READY
    probe,    \* the health check's visit to this blob
    purge,    \* the purge of the owning file
    faults,   \* faults so far
    lost      \* history: pools that lost a copy on their own

vars == <<blob, rows, store, used, up, queue, task, inFlight, reader, manifest,
          probe, purge, faults, lost>>
dbVars == <<blob, rows, manifest>>
poolVars == <<store, used, lost>>
workVars == <<queue, task, inFlight>>

-----------------------------------------------------------------------------
(* Rows and the records handlers copy out of them.                         *)

NoBlob == [hash |-> None, kind |-> None, mloc |-> 0]
NoRow == [by |-> None, status |-> "ABSENT", loc |-> 0, attempts |-> 0]
IdleTask == [pc |-> "idle", snap |-> None, bytes |-> None, loc |-> 0]
IdleProbe == [pc |-> "idle", kind |-> None, mloc |-> 0, hash |-> None,
              verdict |-> None]

(* A row is created by the transaction of one request or by that of        *)
(* commitManifest, each of which runs once, so the pool and the creator    *)
(* identify a row as its cuid does.                                        *)
Present(s) == rows[s].status # "ABSENT"
RowId(ref) == <<ref.slot, ref.by>>
IsRow(s, ref) == s = ref.slot /\ Present(s) /\ rows[s].by = ref.by

Ref(s) == [slot |-> s, by |-> rows[s].by, loc |-> rows[s].loc,
           status |-> rows[s].status]
Snapshot(s) == [slot |-> s, by |-> rows[s].by, loc |-> rows[s].loc,
                hash |-> blob.hash, kind |-> blob.kind, mloc |-> blob.mloc]

Refs == [slot: Slots, by: Creators, loc: Locs, status: Statuses]
Snapshots == [slot: Slots, by: Creators, loc: Locs, hash: Requests,
              kind: PrimaryKinds, mloc: Locs]

TypeOK ==
    /\ blob \in [hash: Requests, kind: PrimaryKinds, mloc: Locs] \cup {NoBlob}
    /\ rows \in [Slots -> [by: Creators, status: Statuses, loc: Locs,
                           attempts: 0 .. MaxAttempts] \cup {NoRow}]
    /\ store \in [Slots -> [Locs -> Bytes]]
    /\ used \in [Slots -> Locs]
    /\ up \in [Requests -> [pc: {"idle", "stored", "committed", "done", "failed"},
                            kind: PrimaryKinds \cup {None}, loc: Locs]]
    /\ queue \in [Queues -> SUBSET Snapshots]
    /\ task \in [Workers -> [pc: {"source", "drop", "put", "activate", "cleanup",
                                  "mirror"},
                             snap: Snapshots, bytes: Bytes, loc: Locs]
                            \cup {IdleTask}]
    /\ inFlight \subseteq Slots \X Creators
    /\ reader \in [Readers -> SUBSET Refs]
    /\ manifest \in BOOLEAN
    /\ probe \in [pc: {"listed"}, kind: PrimaryKinds, mloc: Locs, hash: Requests,
                  verdict: {None}]
                 \cup [pc: {"checked"}, kind: PrimaryKinds, mloc: Locs, hash: Requests,
                       verdict: {"ACTIVE", "MISSING", "MODIFIED"}]
                 \cup {IdleProbe}
    /\ purge \in [pc: {"idle", "deleting", "interrupted", "done"},
                  refs: SUBSET Refs, found: BOOLEAN]
    /\ faults \in 0 .. MaxFaults
    /\ lost \subseteq Slots

Init ==
    /\ blob = NoBlob
    /\ rows = [s \in Slots |-> NoRow]
    /\ store = [s \in Slots |-> [l \in Locs |-> None]]
    /\ used = [s \in Slots |-> 0]
    /\ up = [r \in Requests |-> [pc |-> "idle", kind |-> None, loc |-> 0]]
    /\ queue = [q \in Queues |-> {}]
    /\ task = [w \in Workers |-> IdleTask]
    /\ inFlight = {}
    /\ reader = [x \in Readers |-> {}]
    /\ manifest = FALSE
    /\ probe = IdleProbe
    /\ purge = [pc |-> "idle", refs |-> {}, found |-> FALSE]
    /\ faults = 0
    /\ lost = {}

Fault(kind) ==
    /\ kind \in Events
    /\ faults < MaxFaults
    /\ faults' = faults + 1

-----------------------------------------------------------------------------
(* The pools.                                                              *)

(* A put to LOCAL overwrites the blob's path; elsewhere it posts a message *)
(* with an id never used before.                                           *)
PutLoc(s) == IF s[2] = "LOCAL" THEN 0 ELSE used[s] + 1

Put(s, bytes) ==
    /\ PutLoc(s) \in Locs
    /\ store' = [store EXCEPT ![s][PutLoc(s)] = bytes]
    /\ used' = [used EXCEPT ![s] = IF PutLoc(s) = 0 THEN @ ELSE PutLoc(s)]
    /\ UNCHANGED lost

(* A delete whose failure the caller swallows.                             *)
DeleteBestEffort(s, l) ==
    \/ /\ store' = [store EXCEPT ![s][l] = None]
       /\ UNCHANGED faults
    \/ /\ Fault("delete")
       /\ UNCHANGED store

(* A put that throws: the provider may have kept the bytes all the same    *)
(* (a timeout or a lost response).                                         *)
PutFails(s, bytes) ==
    /\ Fault("put")
    /\ \/ UNCHANGED poolVars
       \/ Put(s, bytes)

(* orderPlacementsForRead: ACTIVE before MODIFIED, PRIMARY before REPLICA; *)
(* PENDING and MISSING placements never serve.                             *)
Serves(status) == status \in {"ACTIVE", "MODIFIED"}
Score(ref) == (IF ref.status = "ACTIVE" THEN 0 ELSE 4)
              + (IF ref.slot[1] = "PRIMARY" THEN 0 ELSE 1)
ReadFirst(refs) == {c \in refs : \A d \in refs : Score(c) <= Score(d)}

Copy(ref) == store[ref.slot][ref.loc]

(* Reading through the legacy mirror columns: LOCAL rebuilds its path, the *)
(* message id columns are Discord's, so a TELEGRAM mirror cannot be read.  *)
MirrorBytes(kind, mloc) ==
    IF kind = "LOCAL" THEN store[<<"PRIMARY", "LOCAL">>][0]
    ELSE IF kind = "DISCORD" THEN store[<<"PRIMARY", "DISCORD">>][mloc]
    ELSE None

-----------------------------------------------------------------------------
(* PUT /api/blob/:blobId                                                   *)

UploadPut(r) ==
    /\ up[r].pc = "idle"
    /\ \E kind \in PrimaryKinds :
          /\ Put(<<"PRIMARY", kind>>, r)
          /\ up' = [up EXCEPT ![r] = [pc |-> "stored", kind |-> kind,
                                      loc |-> PutLoc(<<"PRIMARY", kind>>)]]
    /\ UNCHANGED <<dbVars, workVars, reader, probe, purge, faults>>

(* pool.put throws: the client gets a 500.                                 *)
UploadPutFails(r) ==
    /\ up[r].pc = "idle"
    /\ \E kind \in PrimaryKinds : PutFails(<<"PRIMARY", kind>>, r)
    /\ up' = [up EXCEPT ![r].pc = "failed"]
    /\ UNCHANGED <<dbVars, workVars, reader, probe, purge>>

(* The rows after the upload transaction of r.                             *)
Requeued(row) ==
    IF row.status = "PENDING" THEN row
    ELSE [row EXCEPT !.status = "PENDING", !.attempts = 0]

(* Mutant: the update of an existing row forgets the new coordinates.      *)
RowAfterUploadOldLoc(r, s) ==
    IF s = <<"PRIMARY", up[r].kind>>
      THEN [by |-> IF Present(s) THEN rows[s].by ELSE r, status |-> "ACTIVE",
            loc |-> IF Present(s) THEN rows[s].loc ELSE up[r].loc, attempts |-> 0]
    ELSE IF s[1] = "PRIMARY" THEN NoRow
    ELSE IF Present(s) THEN Requeued(rows[s])
    ELSE [by |-> r, status |-> "PENDING", loc |-> 0, attempts |-> 0]

RowAfterUpload(r, s) ==
    IF s = <<"PRIMARY", up[r].kind>>
      THEN [by |-> IF Present(s) THEN rows[s].by ELSE r,
            status |-> "ACTIVE", loc |-> up[r].loc, attempts |-> 0]
    ELSE IF s[1] = "PRIMARY" THEN NoRow
    ELSE IF Present(s) THEN Requeued(rows[s])
    ELSE [by |-> r, status |-> "PENDING", loc |-> 0, attempts |-> 0]

(* One transaction: upsert the blob, drop the PRIMARY placement of any     *)
(* other provider, upsert this one as ACTIVE, re-queue every replica.  The *)
(* response follows.                                                       *)
UploadCommit(r) ==
    /\ up[r].pc = "stored"
    /\ blob' = [hash |-> r, kind |-> up[r].kind,
                mloc |-> IF up[r].kind = "DISCORD" THEN up[r].loc ELSE blob.mloc]
    /\ rows' = [s \in Slots |-> RowAfterUpload(r, s)]
    /\ up' = [up EXCEPT ![r].pc = "committed"]
    /\ UNCHANGED <<manifest, poolVars, workVars, reader, probe, purge, faults>>

(* writeThroughReplication: the replica rows to copy to, read after the    *)
(* commit.                                                                 *)
WriteThroughFind(r) ==
    /\ up[r].pc = "committed"
    /\ up' = [up EXCEPT ![r].pc = "done"]
    /\ queue' = [queue EXCEPT ![r] =
                   {Snapshot(s) : s \in {t \in ReplicaSlots : rows[t].status = "PENDING"}}]
    /\ UNCHANGED <<dbVars, poolVars, task, inFlight, reader, probe, purge, faults>>

(* commitManifest lists the blob with the coordinates some acknowledged    *)
(* request r got in its response.  The blob row itself exists: r wrote it, *)
(* and only the purge transaction, which also deletes the file, removes it.*)
RowAfterManifest(r, s) ==
    IF Present(s) THEN rows[s]
    ELSE IF s = <<"PRIMARY", up[r].kind>>
      THEN [by |-> "manifest", status |-> "ACTIVE", loc |-> up[r].loc, attempts |-> 0]
    ELSE IF s[1] = "PRIMARY" THEN NoRow
    ELSE [by |-> "manifest", status |-> "PENDING", loc |-> 0, attempts |-> 0]

CommitManifest(r) ==
    /\ "commit" \in Events
    /\ ~manifest
    /\ purge.pc # "done"
    /\ up[r].pc \in {"committed", "done"}
    /\ manifest' = TRUE
    /\ rows' = [s \in Slots |-> RowAfterManifest(r, s)]
    /\ UNCHANGED <<blob, poolVars, up, workVars, reader, probe, purge, faults>>

-----------------------------------------------------------------------------
(* The replication worker.                                                 *)

(* runReplicationSweep reads a batch of due rows once the previous sweep   *)
(* is over.  A row that failed is due again only after its backoff, and a  *)
(* batch holds at most 50 rows of all blobs, so any of this blob's queued  *)
(* rows may be left for a later sweep.                                     *)
Due == {s \in Slots : rows[s].status \in {"PENDING", "MISSING"}
                      /\ rows[s].attempts < MaxAttempts}

SweepFind ==
    /\ queue["sweep"] = {}
    /\ \A w \in Sweepers : task[w].pc = "idle"
    /\ \E batch \in SUBSET Due \ {{}} :
          queue' = [queue EXCEPT !["sweep"] = {Snapshot(s) : s \in batch}]
    /\ UNCHANGED <<dbVars, poolVars, up, task, inFlight, reader, probe, purge, faults>>

QueueOf(w) == IF w \in Requests THEN w ELSE "sweep"

(* Mutant: no inFlight.has check.                                          *)
ClaimUnguarded(w) ==
    /\ task[w].pc = "idle"
    /\ \E snap \in queue[QueueOf(w)] :
          /\ queue' = [queue EXCEPT ![QueueOf(w)] = @ \ {snap}]
          /\ inFlight' = inFlight \cup {RowId(snap)}
          /\ task' = [task EXCEPT ![w] = [pc |-> "source", snap |-> snap,
                                          bytes |-> None, loc |-> 0]]
    /\ UNCHANGED <<dbVars, poolVars, up, reader, probe, purge, faults>>

(* processPlacement: skip a row that is being processed, else claim it.    *)
Claim(w) ==
    /\ task[w].pc = "idle"
    /\ \E snap \in queue[QueueOf(w)] :
          /\ queue' = [queue EXCEPT ![QueueOf(w)] = @ \ {snap}]
          /\ IF RowId(snap) \in inFlight
               THEN UNCHANGED <<task, inFlight>>
               ELSE /\ inFlight' = inFlight \cup {RowId(snap)}
                    /\ task' = [task EXCEPT ![w] = [pc |-> "source", snap |-> snap,
                                                    bytes |-> None, loc |-> 0]]
    /\ UNCHANGED <<dbVars, poolVars, up, reader, probe, purge, faults>>

Release(w) ==
    /\ task' = [task EXCEPT ![w] = IdleTask]
    /\ inFlight' = inFlight \ {RowId(task[w].snap)}

(* Mutant: the claim is not released on the error path.                    *)
GiveUpKeepsClaim(w) ==
    /\ rows' = [s \in Slots |->
                  IF IsRow(s, task[w].snap) /\ rows[s].attempts < MaxAttempts
                    THEN [rows[s] EXCEPT !.attempts = @ + 1] ELSE rows[s]]
    /\ task' = [task EXCEPT ![w] = IdleTask]
    /\ UNCHANGED inFlight
    /\ UNCHANGED <<blob, manifest, up, queue, reader, probe, purge>>

(* The catch block; attemptCount is only ever compared with MAX_ATTEMPTS,  *)
(* so it may saturate there.                                               *)
GiveUp(w) ==
    /\ rows' = [s \in Slots |->
                  IF IsRow(s, task[w].snap) /\ rows[s].attempts < MaxAttempts
                    THEN [rows[s] EXCEPT !.attempts = @ + 1] ELSE rows[s]]
    /\ Release(w)
    /\ UNCHANGED <<blob, manifest, up, queue, reader, probe, purge>>

(* readSourceBytes: the first copy that can be read among the other rows   *)
(* of the blob, else the legacy mirror as the snapshot has it.             *)
Siblings(snap) ==
    {Ref(s) : s \in {t \in Slots : Serves(rows[t].status) /\ ~IsRow(t, snap)}}
Readable(snap) == {c \in Siblings(snap) : Copy(c) # None}

SourceBytes(snap) ==
    IF Readable(snap) # {} THEN {Copy(c) : c \in ReadFirst(Readable(snap))}
    ELSE {MirrorBytes(snap.kind, snap.mloc)} \ {None}

(* What may be read instead when some read fails on the way.               *)
FallbackBytes(snap) ==
    {Copy(c) : c \in Readable(snap)}
      \cup ({MirrorBytes(snap.kind, snap.mloc)} \ {None})

HasSource(w, bytes) ==
    IF w \in Requests THEN bytes = w /\ UNCHANGED faults
    ELSE \/ bytes \in SourceBytes(task[w].snap) /\ UNCHANGED faults
         \/ bytes \in FallbackBytes(task[w].snap) /\ Fault("get")

(* Mutant: no hash check of the bytes read.                                *)
FetchSourceUnchecked(w) ==
    /\ task[w].pc = "source"
    /\ \E bytes \in Requests :
          /\ HasSource(w, bytes)
          /\ task' = [task EXCEPT ![w].bytes = bytes,
                                  ![w].pc = IF task[w].snap.loc # 0 THEN "drop" ELSE "put"]
    /\ UNCHANGED <<dbVars, poolVars, up, queue, inFlight, reader, probe, purge>>

FetchSource(w) ==
    /\ task[w].pc = "source"
    /\ HasSource(w, task[w].snap.hash)
    /\ task' = [task EXCEPT ![w].bytes = task[w].snap.hash,
                            ![w].pc = IF task[w].snap.loc # 0 THEN "drop" ELSE "put"]
    /\ UNCHANGED <<dbVars, poolVars, up, queue, inFlight, reader, probe, purge>>

(* No copy can be read, or the bytes do not have the hash of the snapshot. *)
FetchFails(w) ==
    /\ task[w].pc = "source"
    /\ \/ /\ w \notin Requests
          /\ \/ SourceBytes(task[w].snap) = {} /\ UNCHANGED faults
             \/ Fault("get")
       \/ \E bytes \in Requests \ {task[w].snap.hash} : HasSource(w, bytes)
    /\ GiveUp(w)
    /\ UNCHANGED poolVars

(* Delete the copy the snapshot names before writing the new one.          *)
DropOld(w) ==
    /\ task[w].pc = "drop"
    /\ DeleteBestEffort(task[w].snap.slot, task[w].snap.loc)
    /\ task' = [task EXCEPT ![w].pc = "put"]
    /\ UNCHANGED <<dbVars, used, lost, up, queue, inFlight, reader, probe, purge>>

PutCopy(w) ==
    /\ task[w].pc = "put"
    /\ Put(task[w].snap.slot, task[w].bytes)
    /\ task' = [task EXCEPT ![w].pc = "activate", ![w].loc = PutLoc(task[w].snap.slot)]
    /\ UNCHANGED <<dbVars, up, queue, inFlight, reader, probe, purge, faults>>

PutCopyFails(w) ==
    /\ task[w].pc = "put"
    /\ PutFails(task[w].snap.slot, task[w].bytes)
    /\ GiveUp(w)

(* updateMany where id is the row and status is still PENDING or MISSING.  *)
Activatable(snap) ==
    {s \in Slots : IsRow(s, snap) /\ rows[s].status \in {"PENDING", "MISSING"}}

Activate(w) ==
    /\ task[w].pc = "activate"
    /\ Activatable(task[w].snap) # {}
    /\ rows' = [s \in Slots |->
                  IF s \in Activatable(task[w].snap)
                    THEN [rows[s] EXCEPT !.status = "ACTIVE", !.loc = task[w].loc,
                                         !.attempts = 0]
                    ELSE rows[s]]
    /\ IF task[w].snap.slot[1] = "PRIMARY"
         THEN task' = [task EXCEPT ![w].pc = "mirror"] /\ UNCHANGED inFlight
         ELSE Release(w)
    /\ UNCHANGED <<blob, manifest, poolVars, up, queue, reader, probe, purge, faults>>

(* updateMany touched no row: the copy just written is to be removed.      *)
ActivateMisses(w) ==
    /\ task[w].pc = "activate"
    /\ Activatable(task[w].snap) = {}
    /\ task' = [task EXCEPT ![w].pc = "cleanup"]
    /\ UNCHANGED <<dbVars, poolVars, up, queue, inFlight, reader, probe, purge, faults>>

(* Mutant: the copy nobody recorded stays.                                 *)
CleanupNothing(w) ==
    /\ task[w].pc = "cleanup"
    /\ Release(w)
    /\ UNCHANGED <<dbVars, poolVars, up, queue, reader, probe, purge, faults>>

Cleanup(w) ==
    /\ task[w].pc = "cleanup"
    /\ DeleteBestEffort(task[w].snap.slot, task[w].loc)
    /\ Release(w)
    /\ UNCHANGED <<dbVars, used, lost, up, queue, reader, probe, purge>>

(* Mutant: an upsert of the blob row instead of an update.                 *)
RefreshMirrorUpserts(w) ==
    /\ task[w].pc = "mirror"
    /\ blob' = [hash |-> blob.hash, kind |-> task[w].snap.slot[2],
                mloc |-> IF task[w].snap.slot[2] = "DISCORD" THEN task[w].loc ELSE 0]
    /\ Release(w)
    /\ UNCHANGED <<rows, manifest, poolVars, up, queue, reader, probe, purge, faults>>

(* Mutant: the hash of the snapshot is written along with the mirror.      *)
RefreshMirrorWithHash(w) ==
    /\ task[w].pc = "mirror"
    /\ blob' = IF blob = NoBlob THEN NoBlob
               ELSE [hash |-> task[w].snap.hash, kind |-> task[w].snap.slot[2],
                     mloc |-> IF task[w].snap.slot[2] = "DISCORD" THEN task[w].loc ELSE 0]
    /\ Release(w)
    /\ UNCHANGED <<rows, manifest, poolVars, up, queue, reader, probe, purge, faults>>

(* A healed PRIMARY refreshes the legacy mirror, if the blob is there.     *)
RefreshMirror(w) ==
    /\ task[w].pc = "mirror"
    /\ blob' = IF blob = NoBlob THEN NoBlob
               ELSE [hash |-> blob.hash, kind |-> task[w].snap.slot[2],
                     mloc |-> IF task[w].snap.slot[2] = "DISCORD" THEN task[w].loc ELSE 0]
    /\ Release(w)
    /\ UNCHANGED <<rows, manifest, poolVars, up, queue, reader, probe, purge, faults>>

ReplicationStep(w) ==
    \/ Claim(w) \/ FetchSource(w) \/ FetchFails(w) \/ DropOld(w) \/ PutCopy(w)
    \/ PutCopyFails(w) \/ Activate(w) \/ ActivateMisses(w) \/ Cleanup(w)
    \/ RefreshMirror(w)

-----------------------------------------------------------------------------
(* GET /api/blob/:blobId: readBlobBytes tries the placements it has read.  *)

ReadStart(x) ==
    /\ reader[x] = {}
    /\ \E s \in Slots : Serves(rows[s].status)
    /\ reader' = [reader EXCEPT ![x] =
                    {Ref(s) : s \in {t \in Slots : Serves(rows[t].status)}}]
    /\ UNCHANGED <<dbVars, poolVars, up, workVars, probe, purge, faults>>

ReadHit(x) ==
    /\ \E c \in ReadFirst(reader[x]) : Copy(c) # None
    /\ reader' = [reader EXCEPT ![x] = {}]
    /\ UNCHANGED <<dbVars, poolVars, up, workVars, probe, purge, faults>>

(* The provider answers 404: park the row as MISSING, by its id, and go on *)
(* with the next candidate.                                                *)
ReadMiss(x) ==
    /\ \E c \in ReadFirst(reader[x]) :
          /\ Copy(c) = None
          /\ reader' = [reader EXCEPT ![x] = @ \ {c}]
          /\ rows' = [s \in Slots |->
                        IF IsRow(s, c) /\ Serves(rows[s].status)
                          THEN [rows[s] EXCEPT !.status = "MISSING", !.attempts = 0]
                          ELSE rows[s]]
    /\ UNCHANGED <<blob, manifest, poolVars, up, workVars, probe, purge, faults>>

(* Any other error: go on with the next candidate.                         *)
ReadError(x) ==
    /\ Fault("get")
    /\ \E c \in ReadFirst(reader[x]) : reader' = [reader EXCEPT ![x] = @ \ {c}]
    /\ UNCHANGED <<dbVars, poolVars, up, workVars, probe, purge>>

-----------------------------------------------------------------------------
(* runHealthCheck: list the chunks of READY files by their mirror columns, *)
(* check each, then flush the verdicts onto the PRIMARY placements.        *)

ProbeList ==
    /\ "probe" \in Events
    /\ probe = IdleProbe
    /\ manifest /\ purge.pc \in {"idle", "interrupted"}
    /\ blob # NoBlob
    /\ probe' = [pc |-> "listed", kind |-> blob.kind, mloc |-> blob.mloc,
                 hash |-> blob.hash, verdict |-> None]
    /\ UNCHANGED <<dbVars, poolVars, up, workVars, reader, purge, faults>>

(* Anything but LOCAL is looked up in Discord by the message id columns;   *)
(* without one the chunk is skipped, and so is a LOCAL chunk whose file is *)
(* gone (ENOENT is not one of the "not found" messages).                   *)
ProbeFinds ==
    IF probe.kind = "LOCAL" THEN store[<<"PRIMARY", "LOCAL">>][0]
    ELSE store[<<"PRIMARY", "DISCORD">>][probe.mloc]

ProbeCannotTell ==
    IF probe.kind = "LOCAL" THEN ProbeFinds = None ELSE probe.mloc = 0

ProbeVerdict(mode) ==
    IF ProbeFinds = None THEN "MISSING"
    ELSE IF mode = "exists" \/ ProbeFinds = probe.hash THEN "ACTIVE"
    ELSE "MODIFIED"

ProbeCheck ==
    /\ probe.pc = "listed"
    /\ ~ProbeCannotTell
    /\ \E mode \in {"exists", "integrity"} :
          probe' = [probe EXCEPT !.pc = "checked", !.verdict = ProbeVerdict(mode)]
    /\ UNCHANGED <<dbVars, poolVars, up, workVars, reader, purge, faults>>

(* SKIPPED: nothing to look up, or the lookup failed in some other way.    *)
ProbeSkip ==
    /\ probe.pc = "listed"
    /\ probe' = IdleProbe
    /\ \/ ProbeCannotTell /\ UNCHANGED faults
       \/ Fault("get")
    /\ UNCHANGED <<dbVars, poolVars, up, workVars, reader, purge>>

(* updateChunkHealthBatch                                                  *)
ProbeFlush ==
    /\ probe.pc = "checked"
    /\ rows' = [s \in Slots |->
                  IF s \in PrimarySlots
                     /\ rows[s].status \in {"ACTIVE", "MISSING", "MODIFIED"}
                    THEN [rows[s] EXCEPT !.status = probe.verdict]
                    ELSE rows[s]]
    /\ probe' = IdleProbe
    /\ UNCHANGED <<blob, manifest, poolVars, up, workVars, reader, purge, faults>>

-----------------------------------------------------------------------------
(* purgeFileRecord: read the blob and its placements, delete every copy    *)
(* (PENDING rows without a message id have none), then delete the rows and *)
(* the file in one transaction.                                            *)

PurgeStart ==
    /\ "purge" \in Events
    /\ purge.pc \in {"idle", "interrupted"}
    /\ purge' = [pc |-> "deleting", found |-> blob # NoBlob,
                 refs |-> {Ref(s) : s \in {t \in Slots : Present(t) /\
                             ~(rows[t].status = "PENDING" /\ rows[t].loc = 0)}}]
    /\ UNCHANGED <<dbVars, poolVars, up, workVars, reader, probe, faults>>

PurgeDelete ==
    /\ purge.pc = "deleting"
    /\ \E c \in purge.refs :
          /\ DeleteBestEffort(c.slot, c.loc)
          /\ purge' = [purge EXCEPT !.refs = @ \ {c}]
    /\ UNCHANGED <<dbVars, used, lost, up, workVars, reader, probe>>

(* Mutant: the foreign key does not cascade.                               *)
PurgeCommitNoCascade ==
    /\ purge.pc = "deleting"
    /\ purge.refs = {}
    /\ blob' = IF purge.found THEN NoBlob ELSE blob
    /\ purge' = [purge EXCEPT !.pc = "done"]
    /\ UNCHANGED <<rows, manifest, poolVars, up, workVars, reader, probe, faults>>

(* blobTransport.deleteMany cascades to the placements; it names only the  *)
(* blobs read at the start.                                                *)
PurgeCommit ==
    /\ purge.pc = "deleting"
    /\ purge.refs = {}
    /\ blob' = IF purge.found THEN NoBlob ELSE blob
    /\ rows' = IF purge.found THEN [s \in Slots |-> NoRow] ELSE rows
    /\ purge' = [purge EXCEPT !.pc = "done"]
    /\ UNCHANGED <<manifest, poolVars, up, workVars, reader, probe, faults>>

-----------------------------------------------------------------------------
(* A pool loses a copy on its own: a message deleted by hand, an account   *)
(* closed, a disk file removed.                                            *)
LoseCopy(s, l) ==
    /\ store[s][l] # None
    /\ Fault("lose")
    /\ store' = [store EXCEPT ![s][l] = None]
    /\ lost' = lost \cup {s}
    /\ UNCHANGED <<dbVars, used, up, workVars, reader, probe, purge>>

(* The process dies and restarts: what was in memory is gone, the database *)
(* and the pools stay.  The queue lives on in the PENDING rows.            *)
Crash ==
    /\ Fault("crash")
    /\ up' = [r \in Requests |->
                CASE up[r].pc = "stored" -> [up[r] EXCEPT !.pc = "failed"]
                  [] up[r].pc = "committed" -> [up[r] EXCEPT !.pc = "done"]
                  [] OTHER -> up[r]]
    /\ queue' = [q \in Queues |-> {}]
    /\ task' = [w \in Workers |-> IdleTask]
    /\ inFlight' = {}
    /\ reader' = [x \in Readers |-> {}]
    /\ probe' = IdleProbe
    /\ purge' = IF purge.pc = "deleting"
                  THEN [pc |-> "interrupted", refs |-> {}, found |-> FALSE] ELSE purge
    /\ UNCHANGED <<dbVars, poolVars>>

Next ==
    \/ \E r \in Requests : \/ UploadPut(r) \/ UploadPutFails(r) \/ UploadCommit(r)
                           \/ WriteThroughFind(r) \/ CommitManifest(r)
    \/ SweepFind
    \/ \E w \in Workers : ReplicationStep(w)
    \/ \E x \in Readers : ReadStart(x) \/ ReadHit(x) \/ ReadMiss(x) \/ ReadError(x)
    \/ ProbeList \/ ProbeCheck \/ ProbeSkip \/ ProbeFlush
    \/ PurgeStart \/ PurgeDelete \/ PurgeCommit
    \/ \E s \in Slots, l \in Locs : LoseCopy(s, l)
    \/ Crash

Spec == Init /\ [][Next]_vars

-----------------------------------------------------------------------------
(* Properties.                                                             *)

PrimaryServes ==
    \E s \in PrimarySlots :
       /\ Serves(rows[s].status)
       /\ store[s][rows[s].loc] # None
       /\ s[2] # "LOCAL" => store[s][rows[s].loc] = blob.hash

Busy(w) == task[w].pc # "idle"
Unharmed == purge.pc = "idle" /\ lost \cap PrimarySlots = {}
Quiet ==
    /\ \A r \in Requests : up[r].pc \notin {"stored", "committed"}
    /\ \A w \in Workers : ~Busy(w)
    /\ \A q \in Queues : queue[q] = {}

(* The inFlight guard: the sweep and the write-throughs never process one  *)
(* row at the same time, and a claim never outlives its processPlacement   *)
(* call (a leaked claim would keep the row out of every later sweep).      *)
OneWriterPerRow ==
    /\ \A v, w \in Workers : v # w /\ Busy(v) /\ Busy(w)
                               => RowId(task[v].snap) # RowId(task[w].snap)
    /\ inFlight = {RowId(task[w].snap) : w \in {v \in Workers : Busy(v)}}

(* The layout table of the README: a stored blob has a row for every       *)
(* replica pool and one PRIMARY row, whichever providers its uploads went  *)
(* to and in whatever order they ended; without its BlobTransport row it   *)
(* has no placement at all.  (commitManifest may add a second PRIMARY row  *)
(* under striping: see OnePrimaryAfterManifest.)                           *)
PlacementsMatchBlob ==
    IF blob = NoBlob THEN \A s \in Slots : ~Present(s)
    ELSE /\ \A s \in ReplicaSlots : Present(s)
         /\ \E s \in PrimarySlots : Present(s)
         /\ ~manifest => \A s, t \in PrimarySlots : Present(s) /\ Present(t) => s = t

(* Durability of acknowledged uploads: until a purge starts, and as long   *)
(* as the primary pools keep what they were given, the blob can be read    *)
(* from a PRIMARY placement and its bytes are the ones whose hash is on    *)
(* record - whatever crashes, provider errors, duplicate uploads, reads,   *)
(* health checks and replication jobs run in between.  (A LOCAL path may   *)
(* meanwhile hold the bytes of another, duplicate upload.)                 *)
AckedUploadDurable == Unharmed /\ blob # NoBlob => PrimaryServes

(* What all this is for: seen from outside, the blob is a DurableBlob.     *)
(* Crashes, failing providers, replication jobs with stale snapshots,      *)
(* reads that park placements and a lost copy's repair never make it stand *)
(* for anything but its last upload, nor keep that from being read as long *)
(* as the primary pools keep what they were given.                         *)
Durable == INSTANCE DurableBlob WITH
    Uploads <- Requests,
    content <- blob.hash,
    written <- {r \in Requests : up[r].pc \in {"committed", "done"}},
    available <- blob # NoBlob /\ PrimaryServes,
    harmed <- purge.pc # "idle" \/ lost \cap PrimarySlots # {}

ImplementsDurableBlob == Durable!Spec

(* In the absence of faults and of a second upload, and until the file is  *)
(* purged, a message in a replica pool is always the one its row names or  *)
(* in the hands of a job that will remove or record it: the sweep and the  *)
(* write-through of one row leave no orphans ("so providers don't          *)
(* accumulate orphaned messages").                                         *)
Calm ==
    /\ faults = 0 /\ purge.pc = "idle"
    /\ \A q, r \in Requests : up[q].pc # "idle" /\ up[r].pc # "idle" => q = r

NoReplicaLeak ==
    Calm =>
      \A s \in ReplicaSlots, l \in Locs :
         store[s][l] # None =>
            \/ Present(s) /\ rows[s].loc = l
            \/ \E w \in Workers : /\ task[w].pc \in {"activate", "cleanup"}
                                  /\ task[w].snap.slot = s
                                  /\ task[w].loc = l

(* A job whose snapshot still describes the blob activates only bytes that *)
(* have the recorded hash, even when a stale replica is the only source    *)
(* left.                                                                   *)
HealedCopyMatchesHash ==
    [][\A w \in Workers :
          LET snap == task[w].snap IN
          /\ task[w].pc = "activate"
          /\ task'[w].pc # "activate"
          /\ snap.slot \in Slots
          /\ rows[snap.slot].status # "ACTIVE" /\ rows'[snap.slot].status = "ACTIVE"
          /\ snap.slot[2] # "LOCAL"
          /\ snap.hash = blob.hash
          => store[snap.slot][rows'[snap.slot].loc] \in {blob.hash, None}]_vars

(* The queue drains: with finitely many faults, fewer than MAX_ATTEMPTS,   *)
(* every placement that is queued ends up ACTIVE (or deleted with its      *)
(* blob), although crashes throw away every write-through and every claim. *)
QueueDrains == <>[](\A s \in Slots : rows[s].status \notin {"PENDING", "MISSING"})

(* Comment at replication-worker.ts:128: a row "re-queued meanwhile" is    *)
(* not resurrected as ACTIVE.  An upload re-queues every replica when it   *)
(* replaces the content, so an ACTIVE replica should hold current bytes.   *)
ActiveReplicaIsCurrent ==
    \A s \in ReplicaSlots :
       rows[s].status = "ACTIVE" => store[s][rows[s].loc] \in {blob.hash, None}

(* README: "Deletes propagate to every copy - including PENDING ones, so a *)
(* purge can't be resurrected by the replication queue."                   *)
PurgeReachesEveryCopy ==
    purge.pc = "done" /\ blob = NoBlob /\ Quiet /\ faults = 0 =>
      \A s \in ReplicaSlots, l \in Locs : store[s][l] = None

(* README: on a failed read "the bad copy is parked MISSING": a read never *)
(* parks a placement whose copy is there.                                  *)
OnlyDeadCopiesParkedMissing ==
    [][\A s \in Slots :
          Serves(rows[s].status) /\ rows'[s].status = "MISSING"
            => store[s][rows[s].loc] = None]_vars

(* README: every layout has "1 x PRIMARY", after commitManifest too.       *)
OnePrimaryAfterManifest ==
    \A s, t \in PrimarySlots : Present(s) /\ Present(t) => s = t

(* Comment at replication-worker.ts:145: what a job removes after its      *)
(* update touched no row is "the copy we just wrote", never other bytes.   *)
CleanupRemovesOwnCopy ==
    [][\A w \in Workers :
          task[w].pc = "cleanup" /\ task'[w].pc = "idle" /\ faults' = faults
            => store[task[w].snap.slot][task[w].loc] \in {task[w].bytes, None}]_vars

(* The steps that run by themselves once their await is over: a committed  *)
(* upload starts its write-through, a claimed job runs on, a queued one is *)
(* claimed, and the timer starts the next sweep.                           *)
Fairness ==
    /\ \A r \in Requests : WF_vars(UploadCommit(r)) /\ WF_vars(WriteThroughFind(r))
    /\ WF_vars(SweepFind)
    /\ \A w \in Workers : WF_vars(ReplicationStep(w))
    /\ WF_vars(PurgeDelete \/ PurgeCommit)

FairSpec == Spec /\ Fairness
=============================================================================
