--------------------------- MODULE FileLifecycle ---------------------------
(***************************************************************************)
(* File rows from initUpload to their removal: chunk PUTs, commitManifest  *)
(* and the thumbnail job it starts, the trash, shares, claims and TTL      *)
(* extensions, the two purges a user asks for and the three sweeps         *)
(* index.ts schedules.                                                     *)
(*                                                                         *)
(* Every request and every sweep is a sequence of database statements in   *)
(* one Node process, and any other may run between two of them.  What a    *)
(* statement read is kept in the record of the request (op) or of the      *)
(* purge (purger); a Prisma $transaction is one step.  A BlobTransport row *)
(* stands for the blob it describes: the copies behind a row are the       *)
(* subject of BlobReplication.                                             *)
(***************************************************************************)
EXTENDS Naturals

CONSTANTS
    Files,      \* ids of the files that may be uploaded
    AnonFiles,  \* those of them uploaded without an account
    Chunks,     \* the chunks of a file
    Ops,        \* requests the API serves at the same time
    Purgers,    \* the purges that run: sweeps and requests
    MaxFaults,  \* bound: how many purge failures and crashes may happen
    None        \* no value

Owners == {"user", "system"}
Sweeps == {"trash", "stale", "anon"}
Parts == Chunks \cup {"thumb"}

ASSUME ConstantsAssumption ==
    /\ AnonFiles \subseteq Files
    /\ Chunks # {} /\ "thumb" \notin Chunks
    /\ Purgers \subseteq Sweeps \cup {"empty", "one"}
    /\ MaxFaults \in Nat
    /\ None \notin Owners \cup Parts \cup Files

VARIABLES
    file,    \* the File rows
    row,     \* owner of every BlobTransport row of a file
    quiet,   \* files that saw no new File or BlobTransport row for an hour
    shares,  \* owners of the Share rows of a file
    op,      \* requests in progress, and thumbnail jobs
    purger,  \* purges in progress
    saved,   \* history: files committed, restored, claimed or extended too late
    late,    \* history: rows written after a purge had listed the rows
    faults   \* history: faults so far

vars == <<file, row, quiet, shares, op, purger, saved, late, faults>>

(* trash is deletedAt: null, set, or set more than 30 days ago.  ttl is    *)
(* isAnonymous and expiresAt: not anonymous, anonymous, or anonymous and   *)
(* past expiresAt.  (An extension may write the expiresAt of a file that   *)
(* was claimed meanwhile; of a file not anonymous nothing reads it.)       *)
Absent == [status |-> "none", owner |-> None, trash |-> "out",
           ttl |-> "none", thumb |-> None]
Idle == [pc |-> "idle", file |-> None, part |-> None, owner |-> None]
Resting == [pc |-> "idle", queue |-> {}, file |-> None, list |-> {}]
Queued(Q) == [pc |-> "next", queue |-> Q, file |-> None, list |-> {}]

Uploader(f) == IF f \in AnonFiles THEN "system" ELSE "user"
NewFile(f) == [status |-> "uploading", owner |-> Uploader(f), trash |-> "out",
               ttl |-> IF f \in AnonFiles THEN "running" ELSE "none",
               thumb |-> None]
Removed(f) == [status |-> "gone", owner |-> file[f].owner, trash |-> "out",
               ttl |-> "none", thumb |-> None]
Exists(f) == file[f].status \in {"uploading", "ready"}
Trashed(f) == file[f].trash # "out"
Anonymous(f) == file[f].owner = "system" /\ file[f].ttl # "none" /\ ~Trashed(f)

TypeOK ==
    /\ file \in [Files -> [status : {"none", "uploading", "ready", "gone"},
                           owner : Owners \cup {None},
                           trash : {"out", "recent", "old"},
                           ttl : {"none", "running", "over"},
                           thumb : {None, "thumb"}]]
    /\ \A f \in Files : ~Exists(f) =>   \* nothing is written to a row not there
         file[f].trash = "out" /\ file[f].ttl = "none" /\ file[f].thumb = None
    /\ row \in [Files -> [Parts -> Owners \cup {None}]]
    /\ quiet \subseteq Files
    /\ shares \in [Files -> SUBSET Owners]
    /\ op \in [Ops -> [pc : {"idle", "put", "commit", "generate", "thumbRow",
                             "thumbFile", "trash", "unshare", "restore",
                             "share", "claim", "extend"},
                       file : Files \cup {None}, part : Parts \cup {None},
                       owner : Owners \cup {None}]]
    /\ purger \in [Purgers -> [pc : {"idle", "next", "delete"},
                               queue : SUBSET (Files \X Owners),
                               file : Files \cup {None},
                               list : SUBSET Parts]]
    /\ saved \subseteq Files
    /\ late \subseteq Files \X Parts
    /\ faults \in 0 .. MaxFaults

Init ==
    /\ file = [f \in Files |-> Absent]
    /\ row = [f \in Files |-> [p \in Parts |-> None]]
    /\ quiet = {}
    /\ shares = [f \in Files |-> {}]
    /\ op = [o \in Ops |-> Idle]
    /\ purger = [p \in Purgers |-> Resting]
    /\ saved = {} /\ late = {} /\ faults = 0

-----------------------------------------------------------------------------
(* What a purge may still take, and what a purge has already listed.       *)

(* A sweep of abandoned uploads looks at the file again when its turn      *)
(* comes; the other purges trust the rows they read at the start.          *)
Doomed(f) == \E p \in Purgers :
    \/ purger[p].file = f
    \/ p # "stale" /\ \E e \in purger[p].queue : e[1] = f

Listed(f) == \/ file[f].status = "gone"
             \/ \E p \in Purgers : purger[p].file = f

Keep(f) == saved' = IF Doomed(f) THEN saved \cup {f} ELSE saved

(* Rows of f are created or updated to have the given owner. *)
Write(f, parts, owner) ==
    /\ row' = [row EXCEPT ![f] =
                 [p \in Parts |-> IF p \in parts THEN owner[p] ELSE @[p]]]
    /\ quiet' = IF \E p \in parts : row[f][p] = None THEN quiet \ {f} ELSE quiet
    /\ late' = IF Listed(f) THEN late \cup ({f} \X {p \in parts : row[f][p] # owner[p]})
                            ELSE late

Set(o, pc, f, part, owner) ==
    op' = [op EXCEPT ![o] = [pc |-> pc, file |-> f, part |-> part, owner |-> owner]]
Goto(o, pc) == Set(o, pc, op[o].file, op[o].part, op[o].owner)
Done(o) == op' = [op EXCEPT ![o] = Idle]
At(o, pc) == op[o].pc = pc

-----------------------------------------------------------------------------
(* Uploading                                                               *)

InitUpload(f) ==
    /\ file[f].status = "none"
    /\ file' = [file EXCEPT ![f] = NewFile(f)]
    /\ UNCHANGED <<row, quiet, shares, op, purger, saved, late, faults>>

(* handleBlobUpload takes any blob id whose row, if any, is the caller's;  *)
(* it does not look at the file.  handleAnonymousBlobUpload does.          *)
PutCheck(o, f, part) ==
    /\ At(o, "idle") /\ file[f].status # "none" /\ part \in Chunks
    /\ f \in AnonFiles =>
         file[f].status = "uploading" /\ file[f].ttl = "running"
    /\ row[f][part] \in {None, Uploader(f)}
    /\ Set(o, "put", f, part, Uploader(f))
    /\ UNCHANGED <<file, row, quiet, shares, purger, saved, late, faults>>

PutRecord(o) ==
    /\ At(o, "put")
    /\ Write(op[o].file, {op[o].part}, [p \in Parts |-> op[o].owner])
    /\ Done(o)
    /\ UNCHANGED <<file, shares, purger, saved, faults>>

(* A client commits when every PUT has returned, and names the last chunk  *)
(* as the manifest.                                                        *)
CommitRead(o, f) ==
    /\ At(o, "idle") /\ file[f].status = "uploading"
    /\ file[f].owner = Uploader(f)
    /\ \A p \in Chunks : row[f][p] # None
    /\ Set(o, "commit", f, None, Uploader(f))
    /\ UNCHANGED <<file, row, quiet, shares, purger, saved, late, faults>>

(* One transaction: rows that are missing are created, others skipped, and *)
(* the update of a file row that is gone rolls everything back.  The       *)
(* thumbnail job starts where the request ends.                            *)
CommitWrite(o) == LET f == op[o].file IN
    /\ At(o, "commit")
    /\ IF Exists(f)
       THEN /\ Write(f, Chunks, [p \in Parts |-> IF row[f][p] = None
                                        THEN op[o].owner ELSE row[f][p]])
            /\ file' = [file EXCEPT ![f].status = "ready"]
            /\ Keep(f)
            /\ Goto(o, "generate")
       ELSE Done(o) /\ UNCHANGED <<file, row, quiet, late, saved>>
    /\ UNCHANGED <<shares, purger, faults>>

(* generateThumbnailForFile: reassembleFile needs every chunk row of the   *)
(* owner the file had when it was read, and ffmpeg needs bytes.            *)
ThumbRead(o) == LET f == op[o].file IN
    /\ At(o, "generate")
    /\ IF /\ file[f].status = "ready"
          /\ \A c \in Chunks : row[f][c] = file[f].owner
       THEN Set(o, "thumbRow", f, "thumb", file[f].owner)
       ELSE Done(o)
    /\ UNCHANGED <<file, row, quiet, shares, purger, saved, late, faults>>

(* The job creates the File row when it is gone. *)
ThumbFileUpserts(o) ==
    /\ At(o, "thumbFile")
    /\ file' = [file EXCEPT ![op[o].file].thumb = "thumb"]
    /\ Done(o)
    /\ UNCHANGED <<row, quiet, shares, purger, saved, late, faults>>

(* storeThumbnailBlob: the update of an existing row leaves its owner. *)
ThumbRow(o) == LET f == op[o].file IN
    /\ At(o, "thumbRow")
    /\ Write(f, {"thumb"}, [p \in Parts |->
            IF row[f]["thumb"] = None THEN op[o].owner ELSE row[f]["thumb"]])
    /\ Goto(o, "thumbFile")
    /\ UNCHANGED <<file, shares, purger, saved, faults>>

ThumbFile(o) == LET f == op[o].file IN
    /\ At(o, "thumbFile")
    /\ file' = IF Exists(f) THEN [file EXCEPT ![f].thumb = "thumb"] ELSE file
    /\ Done(o)
    /\ UNCHANGED <<row, quiet, shares, purger, saved, late, faults>>

-----------------------------------------------------------------------------
(* The trash                                                               *)

(* deleteFile by the owner, deleteAnonymousFile by the session.            *)
TrashRead(o, f) ==
    /\ At(o, "idle") /\ Exists(f)
    /\ file[f].owner = "user" \/ Anonymous(f)
    /\ Set(o, "trash", f, None, file[f].owner)
    /\ UNCHANGED <<file, row, quiet, shares, purger, saved, late, faults>>

(* db.file.update throws when the row is gone. *)
TrashWrite(o) == LET f == op[o].file IN
    /\ At(o, "trash")
    /\ IF Exists(f)
       THEN /\ file' = [file EXCEPT ![f].trash = "recent"]
            /\ Goto(o, "unshare")
       ELSE Done(o) /\ UNCHANGED file
    /\ UNCHANGED <<row, quiet, shares, purger, saved, late, faults>>

(* The owner's shares go; deleteAnonymousFile removes everybody's.         *)
TrashUnshare(o) == LET f == op[o].file IN
    /\ At(o, "unshare")
    /\ shares' = [shares EXCEPT ![f] =
                     IF op[o].owner = "user" THEN @ \ {"user"} ELSE {}]
    /\ Done(o)
    /\ UNCHANGED <<file, row, quiet, purger, saved, late, faults>>

(* Deleting a folder, or the TTL of an anonymous one, trashes its files in *)
(* one updateMany, which skips those in the trash already.                 *)
TrashWithFolder(f) ==
    /\ Exists(f) /\ ~Trashed(f)
    /\ file' = [file EXCEPT ![f].trash = "recent"]
    /\ UNCHANGED <<row, quiet, shares, op, purger, saved, late, faults>>

RestoreRead(o, f) ==
    /\ At(o, "idle") /\ Exists(f) /\ file[f].owner = "user" /\ Trashed(f)
    /\ Set(o, "restore", f, None, "user")
    /\ UNCHANGED <<file, row, quiet, shares, purger, saved, late, faults>>

RestoreWrite(o) == LET f == op[o].file IN
    /\ At(o, "restore")
    /\ IF Exists(f)
       THEN /\ file' = [file EXCEPT ![f].trash = "out"]
            /\ Keep(f)
       ELSE UNCHANGED <<file, saved>>
    /\ Done(o)
    /\ UNCHANGED <<row, quiet, shares, purger, late, faults>>

-----------------------------------------------------------------------------
(* Shares, claims and extensions                                           *)

(* createShare by the owner, createAnonymousShare by anyone. *)
ShareRead(o, f) ==
    /\ At(o, "idle") /\ file[f].status = "ready" /\ ~Trashed(f)
    /\ file[f].owner = "user" \/ file[f].ttl # "none"
    /\ Set(o, "share", f, None, file[f].owner)
    /\ UNCHANGED <<file, row, quiet, shares, purger, saved, late, faults>>

(* Without the foreign key. *)
ShareWriteUnchecked(o) ==
    /\ At(o, "share")
    /\ shares' = [shares EXCEPT ![op[o].file] = @ \cup {op[o].owner}]
    /\ Done(o)
    /\ UNCHANGED <<file, row, quiet, purger, saved, late, faults>>

(* The foreign key refuses a share of a file that is gone. *)
ShareWrite(o) == LET f == op[o].file IN
    /\ At(o, "share")
    /\ shares' = IF Exists(f) THEN [shares EXCEPT ![f] = @ \cup {op[o].owner}]
                              ELSE shares
    /\ Done(o)
    /\ UNCHANGED <<file, row, quiet, purger, saved, late, faults>>

ClaimRead(o, f) ==
    /\ At(o, "idle") /\ Exists(f) /\ shares[f] # {}
    /\ Set(o, "claim", f, None, "user")
    /\ UNCHANGED <<file, row, quiet, shares, purger, saved, late, faults>>

(* The File row changes hands; its blob rows and its shares do not. *)
ClaimWrite(o) == LET f == op[o].file IN
    /\ At(o, "claim")
    /\ IF Exists(f)
       THEN /\ file' = [file EXCEPT ![f] =
                  [[@ EXCEPT !.owner = "user"] EXCEPT !.ttl = "none"]]
            /\ Keep(f)
       ELSE UNCHANGED <<file, saved>>
    /\ Done(o)
    /\ UNCHANGED <<row, quiet, shares, purger, late, faults>>

(* extendAnonymousTTL, by the session of a file that has not been claimed. *)
ExtendRead(o, f) ==
    /\ At(o, "idle") /\ Exists(f) /\ Anonymous(f)
    /\ Set(o, "extend", f, None, "system")
    /\ UNCHANGED <<file, row, quiet, shares, purger, saved, late, faults>>

(* A new expiresAt, thirty days from now.  On a file claimed meanwhile it   *)
(* counts for nothing: the sweep asks for isAnonymous.                     *)
ExtendWrite(o) == LET f == op[o].file IN
    /\ At(o, "extend")
    /\ IF Exists(f) /\ file[f].ttl # "none"
       THEN /\ file' = [file EXCEPT ![f].ttl = "running"]
            /\ Keep(f)
       ELSE UNCHANGED <<file, saved>>
    /\ Done(o)
    /\ UNCHANGED <<row, quiet, shares, purger, late, faults>>

-----------------------------------------------------------------------------
(* Purges                                                                  *)

Stale(f) == file[f].status = "uploading" /\ ~Trashed(f) /\ f \in quiet

Expired(f) == Exists(f) /\ file[f].ttl = "over" /\ ~Trashed(f)

InTrash(f) == Exists(f) /\ file[f].owner = "user" /\ Trashed(f)

(* Only committed files, as getFiles lists them. *)
OldTrashReady(f) == file[f].status = "ready" /\ file[f].trash = "old"

OldTrash(f) == Exists(f) /\ file[f].trash = "old"

(* What the query of each purge selects; "one" is purgeFile. *)
Selects(p, S) ==
    CASE p = "trash" -> S = {f \in Files : OldTrash(f)}
      [] p = "stale" -> S = {f \in Files : Stale(f)}
      [] p = "anon"  -> S = {f \in Files : Expired(f)}
      [] p = "empty" -> S = {f \in Files : InTrash(f)}
      [] p = "one"   -> \E f \in Files : InTrash(f) /\ S = {f}

PurgeSelect(p) ==
    /\ purger[p].pc = "idle"
    /\ \E S \in SUBSET Files \ {{}} :
         /\ Selects(p, S)
         /\ purger' = [purger EXCEPT ![p] =
                         Queued({<<f, file[f].owner>> : f \in S})]
    /\ UNCHANGED <<file, row, quiet, shares, op, saved, late, faults>>

SkipsNothing(p, f) == FALSE

(* purgeStaleUploads reads the file again and skips it if it moved on. *)
Skips(p, f) == p = "stale" /\ (file[f].status # "uploading" \/ Trashed(f))

PurgeSkip(p) ==
    /\ purger[p].pc = "next"
    /\ \E e \in purger[p].queue :
         /\ Skips(p, e[1])
         /\ purger' = [purger EXCEPT ![p] = Queued(@.queue \ {e})]
    /\ UNCHANGED <<file, row, quiet, shares, op, saved, late, faults>>

(* Only the chunks are looked for, by their prefix. *)
PurgeListChunks(p) ==
    /\ purger[p].pc = "next"
    /\ \E e \in purger[p].queue : LET f == e[1] IN
         /\ ~Skips(p, f)
         /\ purger' = [purger EXCEPT ![p] =
              [pc |-> "delete", queue |-> @.queue \ {e}, file |-> f,
               list |-> {part \in Chunks : row[f][part] = e[2]}]]
    /\ UNCHANGED <<file, row, quiet, shares, op, saved, late, faults>>

(* purgeFileRecord reads the rows the file's owner has for it ... *)
PurgeList(p) ==
    /\ purger[p].pc = "next"
    /\ \E e \in purger[p].queue : LET f == e[1] IN
         /\ ~Skips(p, f)
         /\ purger' = [purger EXCEPT ![p] =
              [pc |-> "delete", queue |-> @.queue \ {e}, file |-> f,
               list |-> {part \in Parts : row[f][part] = e[2]}]]
    /\ UNCHANGED <<file, row, quiet, shares, op, saved, late, faults>>

PurgeNext(p) == purger' = [purger EXCEPT ![p] = Queued(@.queue)]

(* A file committed or restored by now is kept, but loses its rows. *)
PurgeCommitSparing(p) == LET f == purger[p].file IN
    /\ purger[p].pc = "delete" /\ Exists(f)
    /\ row' = [row EXCEPT ![f] = [part \in Parts |->
                 IF part \in purger[p].list THEN None ELSE @[part]]]
    /\ late' = late \ ({f} \X purger[p].list)
    /\ IF f \in saved
       THEN UNCHANGED <<shares, file, quiet, saved>>
       ELSE /\ shares' = [shares EXCEPT ![f] = {}]
            /\ quiet' = quiet \ {f}
            /\ file' = [file EXCEPT ![f] = Removed(f)]
            /\ saved' = saved \ {f}
    /\ PurgeNext(p)
    /\ UNCHANGED <<op, faults>>

(* ... deletes their copies, awaiting each, and removes the rows, the      *)
(* shares and the file in one transaction.  Deleting a file that is gone   *)
(* throws, rolls the transaction back, and ends emptyTrash; the sweeps     *)
(* catch it and go on.                                                     *)
PurgeCommit(p) == LET f == purger[p].file IN
    /\ purger[p].pc = "delete" /\ Exists(f)
    /\ row' = [row EXCEPT ![f] = [part \in Parts |->
                 IF part \in purger[p].list THEN None ELSE @[part]]]
    /\ late' = late \ ({f} \X purger[p].list)
    /\ shares' = [shares EXCEPT ![f] = {}]
    /\ quiet' = quiet \ {f}
    /\ file' = [file EXCEPT ![f] = Removed(f)]
    /\ PurgeNext(p)
    /\ saved' = saved \ {f}
    /\ UNCHANGED <<op, faults>>

PurgeThrows(p) ==
    IF p \in Sweeps THEN PurgeNext(p)
    ELSE purger' = [purger EXCEPT ![p] = Resting]

PurgeGone(p) ==
    /\ purger[p].pc = "delete" /\ ~Exists(purger[p].file)
    /\ PurgeThrows(p)
    /\ UNCHANGED <<file, row, quiet, shares, op, saved, late, faults>>

PurgeEnd(p) ==
    /\ purger[p].pc = "next" /\ purger[p].queue = {}
    /\ purger' = [purger EXCEPT ![p] = Resting]
    /\ UNCHANGED <<file, row, quiet, shares, op, saved, late, faults>>

-----------------------------------------------------------------------------
(* Time and faults                                                         *)

HourPasses ==
    /\ quiet' = {f \in Files : Exists(f)}
    /\ UNCHANGED <<file, row, shares, op, purger, saved, late, faults>>

(* Thirty days: TRASH_RETENTION_DAYS, and the default of anonymousTTLDays. *)
Older(r) == [[r EXCEPT !.trash = IF @ = "recent" THEN "old" ELSE @]
               EXCEPT !.ttl = IF @ = "running" THEN "over" ELSE @]

MonthPasses ==
    /\ quiet' = {f \in Files : Exists(f)}
    /\ file' = [f \in Files |-> Older(file[f])]
    /\ UNCHANGED <<row, shares, op, purger, saved, late, faults>>

(* A request or a job may fail at any of its steps. *)
OpFails(o) ==
    /\ ~At(o, "idle") /\ Done(o)
    /\ UNCHANGED <<file, row, quiet, shares, purger, saved, late, faults>>

PurgeFails(p) ==
    /\ purger[p].pc = "delete" /\ faults < MaxFaults
    /\ PurgeThrows(p)
    /\ faults' = faults + 1
    /\ UNCHANGED <<file, row, quiet, shares, op, saved, late>>

Crash ==
    /\ faults < MaxFaults
    /\ op' = [o \in Ops |-> Idle]
    /\ purger' = [p \in Purgers |-> Resting]
    /\ faults' = faults + 1
    /\ UNCHANGED <<file, row, quiet, shares, saved, late>>

-----------------------------------------------------------------------------
Request(o) ==
    \/ \E f \in Files : \/ \E part \in Chunks : PutCheck(o, f, part)
                        \/ CommitRead(o, f) \/ TrashRead(o, f)
                        \/ RestoreRead(o, f) \/ ShareRead(o, f)
                        \/ ClaimRead(o, f) \/ ExtendRead(o, f)
    \/ PutRecord(o) \/ CommitWrite(o)
    \/ ThumbRead(o) \/ ThumbRow(o) \/ ThumbFile(o)
    \/ TrashWrite(o) \/ TrashUnshare(o) \/ RestoreWrite(o)
    \/ ShareWrite(o) \/ ClaimWrite(o) \/ ExtendWrite(o) \/ OpFails(o)

Purge(p) ==
    \/ PurgeSelect(p) \/ PurgeSkip(p) \/ PurgeList(p)
    \/ PurgeCommit(p) \/ PurgeGone(p) \/ PurgeEnd(p)

Next ==
    \/ \E f \in Files : InitUpload(f) \/ TrashWithFolder(f)
    \/ \E o \in Ops : Request(o)
    \/ \E p \in Purgers : Purge(p) \/ PurgeFails(p)
    \/ HourPasses \/ MonthPasses \/ Crash

Spec == Init /\ [][Next]_vars

(* setInterval runs the sweeps for as long as the process lives, a sweep   *)
(* goes on to its end, and time passes.  Users promise nothing.            *)
FairSpec ==
    /\ Spec
    /\ \A p \in Purgers \cap Sweeps : WF_vars(Purge(p))
    /\ WF_vars(HourPasses) /\ WF_vars(MonthPasses)

-----------------------------------------------------------------------------
(* Properties                                                              *)

(* A READY file has every chunk row, and a thumbnail it names has a row:   *)
(* commit and purge move the rows and the file row together, so no         *)
(* interleaving of late PUTs, commits, thumbnail jobs, restores, claims    *)
(* and purges leaves a file that opens with a hole.                        *)
CommittedFileComplete ==
    \A f \in Files :
        /\ file[f].status = "ready" => \A p \in Chunks : row[f][p] # None
        /\ Exists(f) /\ file[f].thumb # None => row[f]["thumb"] # None

(* What a purge leaves behind for good is only what was written after it   *)
(* had listed the file's rows (a PUT or a thumbnail job in flight), or the *)
(* rows of a claimed file, which belong to the system user.                *)
LeftoversAreLate ==
    \A f \in Files : file[f].status = "gone" =>
        \A p \in Parts : row[f][p] \in {None} \cup (Owners \ {file[f].owner})
                         \/ <<f, p>> \in late

(* A share always leads to a committed file: the check of createShare is   *)
(* stale when it writes, and the foreign key and its cascade make up for   *)
(* it.                                                                     *)
SharesLeadToFiles ==
    \A f \in Files : shares[f] # {} => file[f].status = "ready"

(* No purge removes a file that is neither in the trash, nor uncommitted,  *)
(* nor past its TTL, unless a restore, commit, claim or extension of the   *)
(* TTL came after the last time that purge looks at the File row.          *)
OnlyDueFilesPurged ==
    [][\A f \in Files : Exists(f) /\ file'[f].status = "gone" =>
          \/ Trashed(f) \/ file[f].status = "uploading" \/ file[f].ttl = "over"
          \/ f \in saved]_vars

(* Whatever the sweeps are for is reclaimed, or stops being due: abandoned *)
(* uploads, expired anonymous files, old trash.  One purge that fails, or  *)
(* a crash in the middle of a sweep, does not keep a file alive.           *)
Due(f) ==
    \/ file[f].status = "uploading" /\ ~Trashed(f) /\ f \in quiet
    \/ Exists(f) /\ file[f].ttl = "over" /\ ~Trashed(f)
    \/ Exists(f) /\ file[f].trash = "old"
DueFilesReclaimed == \A f \in Files : Due(f) ~> ~Due(f)

-----------------------------------------------------------------------------
(* What comments, pages and tests say, and the code does not do            *)

(* index.ts: the stale-upload sweep never touches transfers in progress.   *)
InProgressUntouched ==
    [][\A f \in Files :
          file[f].status = "uploading" /\ ~Trashed(f) /\ f \notin quiet =>
            file'[f].status # "gone"]_vars

(* index.ts: the trash sweep removes files that sat in the trash for more  *)
(* than thirty days, so never one that is no longer there.                 *)
TrashSweepTakesTrash ==
    [][\A f \in Files : Exists(f) /\ file'[f].status = "gone" =>
          Trashed(f)]_vars

(* landing.ts: a drop claimed into an account is kept indefinitely.        *)
ClaimedFilesKept ==
    [][\A f \in AnonFiles :
          Exists(f) /\ file[f].owner = "user" /\ ~Trashed(f) =>
            file'[f].status # "gone"]_vars

(* Drop.tsx tells the user "TTL extended", and plan.md that the extension  *)
(* pushes expiresAt forward: a file within its TTL is not taken.           *)
ExtendedFilesKept ==
    [][\A f \in AnonFiles :
          file[f].status = "ready" /\ file[f].ttl = "running" /\ ~Trashed(f) =>
            file'[f].status # "gone"]_vars

(* files-lifecycle.test.ts: purgeFile removes the file record and its blob *)
(* transport rows.                                                         *)
PurgeRemovesRows ==
    \A f \in Files : file[f].status = "gone" =>
        \A p \in Parts : row[f][p] = None \/ <<f, p>> \in late

(* files.ts: deleteFile works unmodified once a file is claimed.  It then  *)
(* removes the shares of the file.                                         *)
DeleteRemovesShares ==
    [][\A o \in Ops : TrashUnshare(o) => shares'[op[o].file] = {}]_vars

=============================================================================
