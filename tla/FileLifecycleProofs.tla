----------------------- MODULE FileLifecycleProofs -----------------------
(* Proofs about FileLifecycle, for every value of its constants.           *)
EXTENDS FileLifecycle, TLAPS

-----------------------------------------------------------------------------
(* Type correctness.  A request in progress names a file and an owner, and *)
(* so does a File row that is there; TypeOK needs both.                    *)

Statuses == {"none", "uploading", "ready", "gone"}
FileRows == [status : Statuses, owner : Owners \cup {None},
             trash : {"out", "recent", "old"},
             ttl : {"none", "running", "over"}, thumb : {None, "thumb"}]

FileOK(r) ==
    /\ r \in FileRows
    /\ r.status \in {"uploading", "ready"} => r.owner \in Owners
    /\ r.status \notin {"uploading", "ready"} =>
         r.trash = "out" /\ r.ttl = "none" /\ r.thumb = None

Steps == {"put", "commit", "generate", "thumbRow", "thumbFile", "trash",
          "unshare", "restore", "share", "claim", "extend"}
Running == [pc : Steps, file : Files, part : Parts \cup {None}, owner : Owners]

OpOK(r) == r = Idle \/ (r \in Running /\ (r.pc = "put" => r.part \in Chunks))

Purging == [pc : {"delete"}, queue : SUBSET (Files \X Owners),
            file : Files, list : SUBSET Parts]
Waiting == [pc : {"idle", "next"}, queue : SUBSET (Files \X Owners),
            file : {None}, list : {{}}]

FilesOK == file \in [Files -> FileRows] /\ \A f \in Files : FileOK(file[f])
OpsOK == op = [o \in Ops |-> op[o]] /\ \A o \in Ops : OpOK(op[o])
PurgersOK == purger \in [Purgers -> Purging \cup Waiting]
BlobsOK == /\ row \in [Files -> [Parts -> Owners \cup {None}]]
           /\ late \subseteq Files \X Parts
           /\ quiet \subseteq Files
SharesOK == shares \in [Files -> SUBSET Owners]
HistoryOK == saved \subseteq Files /\ faults \in 0 .. MaxFaults

TypeInv == FilesOK /\ OpsOK /\ PurgersOK /\ BlobsOK /\ SharesOK /\ HistoryOK

LEMMA TypeInvIsTypeOK == TypeInv => TypeOK
<1> SUFFICES ASSUME TypeInv PROVE TypeOK
  OBVIOUS
<1>1. \A f \in Files : ~Exists(f) =>
         file[f].trash = "out" /\ file[f].ttl = "none" /\ file[f].thumb = None
  BY DEF TypeInv, FilesOK, FileOK, Exists, FileRows, Statuses
<1>2. file \in [Files -> [status : {"none", "uploading", "ready", "gone"},
                           owner : Owners \cup {None},
                           trash : {"out", "recent", "old"},
                           ttl : {"none", "running", "over"},
                           thumb : {None, "thumb"}]]
  BY DEF TypeInv, FilesOK, FileRows, Statuses
<1>3. op \in [Ops -> [pc : {"idle", "put", "commit", "generate", "thumbRow",
                             "thumbFile", "trash", "unshare", "restore",
                             "share", "claim", "extend"},
                       file : Files \cup {None}, part : Parts \cup {None},
                       owner : Owners \cup {None}]]
  BY DEF TypeInv, OpsOK, OpOK, Idle, Running, Steps
<1>4. purger \in [Purgers -> [pc : {"idle", "next", "delete"},
                               queue : SUBSET (Files \X Owners),
                               file : Files \cup {None},
                               list : SUBSET Parts]]
  BY DEF TypeInv, PurgersOK, Purging, Waiting
<1> QED
  BY <1>1, <1>2, <1>3, <1>4 DEF TypeInv, BlobsOK, SharesOK, HistoryOK, TypeOK

LEMMA UploaderKnown ==
    ASSUME NEW f \in Files
    PROVE  Uploader(f) \in Owners
BY DEF Uploader, Owners

(* A request that is not idle names a file and an owner.                   *)
LEMMA OpRuns ==
    ASSUME TypeInv, NEW o \in Ops, op[o].pc # "idle"
    PROVE  op[o] \in Running /\ (op[o].pc = "put" => op[o].part \in Chunks)
BY DEF TypeInv, OpsOK, OpOK, Idle

(* The three ways a step moves a request.                                  *)
LEMMA OpMoves ==
    ASSUME TypeInv, NEW o \in Ops, NEW r, OpOK(r), op' = [op EXCEPT ![o] = r]
    PROVE  /\ OpsOK'
           /\ \A q \in Ops : op'[q] = IF q = o THEN r ELSE op[q]
<1>1. \A q \in Ops : op'[q] = IF q = o THEN r ELSE op[q]
  BY DEF TypeInv, OpsOK
<1>2. op' = [q \in Ops |-> op'[q]]
  BY DEF TypeInv, OpsOK
<1> QED
  BY <1>1, <1>2 DEF TypeInv, OpsOK

(* A step that writes one File row.                                        *)
LEMMA FileMoves ==
    ASSUME TypeInv, NEW f \in Files, NEW r, FileOK(r), file' = [file EXCEPT ![f] = r]
    PROVE  /\ FilesOK'
           /\ \A g \in Files : file'[g] = IF g = f THEN r ELSE file[g]
BY DEF TypeInv, FilesOK, FileOK

(* A step that moves one purge.                                            *)
LEMMA PurgerMoves ==
    ASSUME TypeInv, NEW p \in Purgers, NEW r \in Purging \cup Waiting,
           purger' = [purger EXCEPT ![p] = r]
    PROVE  /\ PurgersOK'
           /\ \A q \in Purgers : purger'[q] = IF q = p THEN r ELSE purger[q]
BY DEF TypeInv, PurgersOK

(* Write changes the named rows of one file, and records those it changes  *)
(* behind the back of a purge.                                             *)
LEMMA WriteRows ==
    ASSUME TypeInv, NEW f \in Files, NEW parts \in SUBSET Parts,
           NEW owner \in [Parts -> Owners \cup {None}], Write(f, parts, owner)
    PROVE  /\ BlobsOK' /\ late \subseteq late'
           /\ \A g \in Files, p \in Parts : row'[g][p] =
                 IF g = f /\ p \in parts THEN owner[p] ELSE row[g][p]
           /\ Listed(f) => \A p \in Parts : row'[f][p] = row[f][p] \/ <<f, p>> \in late'
<1>1. /\ row' \in [Files -> [Parts -> Owners \cup {None}]]
      /\ \A g \in Files, p \in Parts : row'[g][p] =
            IF g = f /\ p \in parts THEN owner[p] ELSE row[g][p]
  BY DEF TypeInv, BlobsOK, Write
<1>2. quiet' \subseteq Files
  BY DEF TypeInv, BlobsOK, Write
<1>3. late' \subseteq Files \X Parts /\ late \subseteq late'
  BY DEF TypeInv, BlobsOK, Write
<1>4. ASSUME Listed(f), NEW p \in Parts, row'[f][p] # row[f][p]
      PROVE  <<f, p>> \in late'
  BY <1>1, <1>4 DEF Write
<1> QED
  BY <1>1, <1>2, <1>3, <1>4 DEF BlobsOK


(* Steps that only move a request.                                         *)
LEMMA SetMoves ==
    ASSUME TypeInv, NEW o \in Ops, NEW pc \in Steps, NEW f \in Files,
           NEW part \in Parts \cup {None}, NEW owner \in Owners,
           pc = "put" => part \in Chunks, Set(o, pc, f, part, owner)
    PROVE  /\ OpsOK'
           /\ \A q \in Ops : op'[q] = IF q = o
                 THEN [pc |-> pc, file |-> f, part |-> part, owner |-> owner] ELSE op[q]
BY OpMoves DEF Set, OpOK, Running

LEMMA DoneMoves ==
    ASSUME TypeInv, NEW o \in Ops, Done(o)
    PROVE  OpsOK' /\ \A q \in Ops : op'[q] = IF q = o THEN Idle ELSE op[q]
BY OpMoves DEF Done, OpOK

LEMMA GotoMoves ==
    ASSUME TypeInv, NEW o \in Ops, op[o].pc # "idle", NEW pc \in Steps \ {"put"},
           Goto(o, pc)
    PROVE  /\ OpsOK'
           /\ \A q \in Ops : op'[q] = IF q = o
                 THEN [pc |-> pc, file |-> op[o].file, part |-> op[o].part,
                       owner |-> op[o].owner] ELSE op[q]
BY OpRuns, SetMoves DEF Goto, Running

LEMMA KeepHistory ==
    ASSUME TypeInv, NEW f \in Files, Keep(f)
    PROVE  saved' \subseteq Files /\ saved \subseteq saved'
BY DEF Keep, TypeInv, HistoryOK

LEMMA Stays ==
    ASSUME TypeInv
    PROVE  /\ file' = file => FilesOK'
           /\ op' = op => OpsOK'
           /\ purger' = purger => PurgersOK'
           /\ row' = row /\ quiet' = quiet /\ late' = late => BlobsOK'
           /\ shares' = shares => SharesOK'
           /\ saved' = saved /\ faults' = faults => HistoryOK'
BY DEF TypeInv, FilesOK, OpsOK, PurgersOK, BlobsOK, SharesOK, HistoryOK

LEMMA TypeInvInit == Init => TypeInv
<1> SUFFICES ASSUME Init PROVE TypeInv
  OBVIOUS
<1>1. FilesOK
  BY DEF Init, FilesOK, FileOK, FileRows, Statuses, Absent
<1>2. OpsOK
  BY DEF Init, OpsOK, OpOK
<1>3. PurgersOK
  BY DEF Init, PurgersOK, Waiting, Resting
<1> QED
  BY <1>1, <1>2, <1>3, ConstantsAssumption
     DEF Init, TypeInv, BlobsOK, SharesOK, HistoryOK

(* What requests write to a File row that is there.                        *)
LEMMA RowEdits ==
    ASSUME TypeInv, NEW f \in Files, Exists(f)
    PROVE  /\ FileOK([file[f] EXCEPT !.status = "ready"])
           /\ FileOK([file[f] EXCEPT !.thumb = "thumb"])
           /\ FileOK([file[f] EXCEPT !.trash = "recent"])
           /\ FileOK([file[f] EXCEPT !.trash = "out"])
           /\ FileOK([[file[f] EXCEPT !.owner = "user"] EXCEPT !.ttl = "none"])
           /\ FileOK([file[f] EXCEPT !.ttl = "running"])
<1>1. PICK s \in Statuses, w \in Owners \cup {None}, t \in {"out", "recent", "old"},
           l \in {"none", "running", "over"}, b \in {None, "thumb"} :
         file[f] = [status |-> s, owner |-> w, trash |-> t, ttl |-> l, thumb |-> b]
  BY DEF TypeInv, FilesOK, FileRows
<1>2. s \in {"uploading", "ready"} /\ w \in Owners
  BY <1>1 DEF TypeInv, FilesOK, FileOK, Exists
<1>3. FileOK([[file[f] EXCEPT !.owner = "user"] EXCEPT !.ttl = "none"])
  <2> DEFINE r == [file[f] EXCEPT !.owner = "user"]
  <2>1. r = [status |-> s, owner |-> "user", trash |-> t, ttl |-> l, thumb |-> b]
    BY <1>1
  <2> HIDE DEF r
  <2>2. [r EXCEPT !.ttl = "none"] =
           [status |-> s, owner |-> "user", trash |-> t, ttl |-> "none", thumb |-> b]
    BY <2>1
  <2> QED
    BY <1>2, <2>2 DEF FileOK, FileRows, Owners, r
<1>4. FileOK([file[f] EXCEPT !.thumb = "thumb"])
  <2>1. [file[f] EXCEPT !.thumb = "thumb"] =
           [status |-> s, owner |-> w, trash |-> t, ttl |-> l, thumb |-> "thumb"]
    BY <1>1
  <2> QED
    BY <1>2, <2>1 DEF FileOK, FileRows
<1>5. FileOK([file[f] EXCEPT !.ttl = "running"])
  <2>1. [file[f] EXCEPT !.ttl = "running"] =
           [status |-> s, owner |-> w, trash |-> t, ttl |-> "running", thumb |-> b]
    BY <1>1
  <2> QED
    BY <1>2, <2>1 DEF FileOK, FileRows
<1> QED
  BY <1>1, <1>2, <1>3, <1>4, <1>5 DEF FileOK, FileRows, Statuses

(* The steps of a request, and of the thumbnail job it may end in.         *)
LEMMA RequestTypes ==
    ASSUME TypeInv, NEW o \in Ops, Request(o)
    PROVE  TypeInv'
<1>1. ASSUME NEW f \in Files, NEW part \in Chunks, PutCheck(o, f, part)
      PROVE  TypeInv'
  BY <1>1, SetMoves, UploaderKnown, Stays DEF PutCheck, TypeInv, Steps, Parts
<1>2. ASSUME NEW f \in Files, CommitRead(o, f) PROVE TypeInv'
  BY <1>2, SetMoves, UploaderKnown, Stays DEF CommitRead, TypeInv, Steps
<1>3. ASSUME NEW f \in Files, TrashRead(o, f) PROVE TypeInv'
  <2>1. file[f].owner \in Owners
    BY <1>3 DEF TrashRead, Exists, TypeInv, FilesOK, FileOK
  <2> QED
    BY <1>3, <2>1, SetMoves, Stays DEF TrashRead, TypeInv, Steps
<1>4. ASSUME NEW f \in Files, RestoreRead(o, f) PROVE TypeInv'
  BY <1>4, SetMoves, Stays DEF RestoreRead, TypeInv, Steps, Owners
<1>5. ASSUME NEW f \in Files, ShareRead(o, f) PROVE TypeInv'
  <2>1. file[f].owner \in Owners
    BY <1>5 DEF ShareRead, TypeInv, FilesOK, FileOK
  <2> QED
    BY <1>5, <2>1, SetMoves, Stays DEF ShareRead, TypeInv, Steps
<1>6. ASSUME NEW f \in Files, ClaimRead(o, f) PROVE TypeInv'
  BY <1>6, SetMoves, Stays DEF ClaimRead, TypeInv, Steps, Owners
<1>7. ASSUME PutRecord(o) PROVE TypeInv'
  <2>1. op[o] \in Running /\ op[o].part \in Chunks
    BY <1>7, OpRuns DEF PutRecord, At
  <2>2. BlobsOK'
    BY <1>7, <2>1, WriteRows DEF PutRecord, Running, Parts
  <2> QED
    BY <1>7, <2>2, DoneMoves, Stays DEF PutRecord, TypeInv
<1>8. ASSUME CommitWrite(o) PROVE TypeInv'
  <2> DEFINE f == op[o].file
             r == [file[f] EXCEPT !.status = "ready"]
  <2>1. op[o] \in Running
    BY <1>8, OpRuns DEF CommitWrite, At
  <2>2. CASE ~Exists(f)
    BY <1>8, <2>2, DoneMoves, Stays DEF CommitWrite, TypeInv
  <2>3. CASE Exists(f)
    <3>1. FileOK(r)
      BY <2>1, <2>3, RowEdits DEF Running
    <3>2. FilesOK'
      BY <1>8, <2>1, <2>3, <3>1, FileMoves DEF CommitWrite, Running
    <3>3. BlobsOK'
      <4> DEFINE w == [p \in Parts |-> IF row[f][p] = None THEN op[o].owner ELSE row[f][p]]
      <4>1. w \in [Parts -> Owners \cup {None}] /\ Chunks \in SUBSET Parts
        BY <2>1 DEF TypeInv, BlobsOK, Running, Parts
      <4>2. Write(f, Chunks, w)
        BY <1>8, <2>3 DEF CommitWrite
      <4> HIDE DEF w
      <4> QED
        BY <2>1, <4>1, <4>2, WriteRows DEF Running
    <3>4. OpsOK'
      BY <1>8, <2>3, GotoMoves DEF CommitWrite, At, Steps
    <3>5. HistoryOK'
      BY <1>8, <2>1, <2>3, KeepHistory DEF CommitWrite, Running, TypeInv, HistoryOK
    <3> QED
      BY <1>8, <3>2, <3>3, <3>4, <3>5, Stays DEF CommitWrite, TypeInv
  <2> QED
    BY <2>2, <2>3
<1>9. ASSUME ThumbRead(o) PROVE TypeInv'
  <2> DEFINE f == op[o].file
  <2>1. op[o] \in Running
    BY <1>9, OpRuns DEF ThumbRead, At
  <2>2. f \in Files /\ (file[f].status = "ready" => file[f].owner \in Owners)
    BY <2>1 DEF TypeInv, FilesOK, FileOK, Running
  <2>3. OpsOK'
    BY <1>9, <2>2, SetMoves, DoneMoves DEF ThumbRead, Steps, Parts
  <2> QED
    BY <1>9, <2>3, Stays DEF ThumbRead, TypeInv
<1>10. ASSUME ThumbRow(o) PROVE TypeInv'
  <2> DEFINE f == op[o].file
             w == [p \in Parts |-> IF row[f]["thumb"] = None THEN op[o].owner
                                   ELSE row[f]["thumb"]]
  <2>1. op[o] \in Running
    BY <1>10, OpRuns DEF ThumbRow, At
  <2>2. w \in [Parts -> Owners \cup {None}] /\ {"thumb"} \in SUBSET Parts
    BY <2>1 DEF TypeInv, BlobsOK, Running, Parts
  <2>3. Write(f, {"thumb"}, w)
    BY <1>10 DEF ThumbRow
  <2> HIDE DEF w
  <2>4. BlobsOK'
    BY <2>1, <2>2, <2>3, WriteRows DEF Running
  <2>5. OpsOK'
    BY <1>10, GotoMoves DEF ThumbRow, At, Steps
  <2> QED
    BY <1>10, <2>4, <2>5, Stays DEF ThumbRow, TypeInv
<1>11. ASSUME ThumbFile(o) PROVE TypeInv'
  <2> DEFINE f == op[o].file
             r == [file[f] EXCEPT !.thumb = "thumb"]
  <2>1. op[o] \in Running
    BY <1>11, OpRuns DEF ThumbFile, At
  <2>2. Exists(f) => FileOK(r)
    BY <2>1, RowEdits DEF Running
  <2>3. FilesOK'
    BY <1>11, <2>1, <2>2, FileMoves, Stays DEF ThumbFile, Running
  <2> QED
    BY <1>11, <2>3, DoneMoves, Stays DEF ThumbFile, TypeInv
<1>12. ASSUME TrashWrite(o) PROVE TypeInv'
  <2> DEFINE f == op[o].file
             r == [file[f] EXCEPT !.trash = "recent"]
  <2>1. op[o] \in Running
    BY <1>12, OpRuns DEF TrashWrite, At
  <2>2. Exists(f) => FileOK(r)
    BY <2>1, RowEdits DEF Running
  <2>3. FilesOK'
    BY <1>12, <2>1, <2>2, FileMoves, Stays DEF TrashWrite, Running
  <2>4. OpsOK'
    BY <1>12, GotoMoves, DoneMoves DEF TrashWrite, At, Steps
  <2> QED
    BY <1>12, <2>3, <2>4, Stays DEF TrashWrite, TypeInv
<1>13. ASSUME TrashUnshare(o) PROVE TypeInv'
  <2>1. SharesOK'
    BY <1>13 DEF TrashUnshare, TypeInv, SharesOK
  <2> QED
    BY <1>13, <2>1, DoneMoves, Stays DEF TrashUnshare, TypeInv
<1>14. ASSUME RestoreWrite(o) PROVE TypeInv'
  <2> DEFINE f == op[o].file
             r == [file[f] EXCEPT !.trash = "out"]
  <2>1. op[o] \in Running
    BY <1>14, OpRuns DEF RestoreWrite, At
  <2>2. Exists(f) => FileOK(r)
    BY <2>1, RowEdits DEF Running
  <2>3. FilesOK'
    BY <1>14, <2>1, <2>2, FileMoves, Stays DEF RestoreWrite, Running
  <2>4. HistoryOK'
    BY <1>14, <2>1, KeepHistory DEF RestoreWrite, Running, TypeInv, HistoryOK
  <2> QED
    BY <1>14, <2>3, <2>4, DoneMoves, Stays DEF RestoreWrite, TypeInv
<1>15. ASSUME ShareWrite(o) PROVE TypeInv'
  <2>1. op[o] \in Running
    BY <1>15, OpRuns DEF ShareWrite, At
  <2>2. SharesOK'
    BY <1>15, <2>1 DEF ShareWrite, TypeInv, SharesOK, Running
  <2> QED
    BY <1>15, <2>2, DoneMoves, Stays DEF ShareWrite, TypeInv
<1>16. ASSUME ClaimWrite(o) PROVE TypeInv'
  <2> DEFINE f == op[o].file
             r == [[file[f] EXCEPT !.owner = "user"] EXCEPT !.ttl = "none"]
  <2>1. op[o] \in Running
    BY <1>16, OpRuns DEF ClaimWrite, At
  <2>2. Exists(f) => FileOK(r)
    BY <2>1, RowEdits DEF Running
  <2>3. FilesOK'
    BY <1>16, <2>1, <2>2, FileMoves, Stays DEF ClaimWrite, Running
  <2>4. HistoryOK'
    BY <1>16, <2>1, KeepHistory DEF ClaimWrite, Running, TypeInv, HistoryOK
  <2> QED
    BY <1>16, <2>3, <2>4, DoneMoves, Stays DEF ClaimWrite, TypeInv
<1>17. ASSUME OpFails(o) PROVE TypeInv'
  BY <1>17, DoneMoves, Stays DEF OpFails, TypeInv
<1>18. ASSUME NEW f \in Files, ExtendRead(o, f) PROVE TypeInv'
  BY <1>18, SetMoves, Stays DEF ExtendRead, TypeInv, Steps, Owners
<1>19. ASSUME ExtendWrite(o) PROVE TypeInv'
  <2> DEFINE f == op[o].file
             r == [file[f] EXCEPT !.ttl = "running"]
  <2>1. op[o] \in Running
    BY <1>19, OpRuns DEF ExtendWrite, At
  <2>2. Exists(f) => FileOK(r)
    BY <2>1, RowEdits DEF Running
  <2>3. FilesOK'
    BY <1>19, <2>1, <2>2, FileMoves, Stays DEF ExtendWrite, Running
  <2>4. HistoryOK'
    BY <1>19, <2>1, KeepHistory DEF ExtendWrite, Running, TypeInv, HistoryOK
  <2> QED
    BY <1>19, <2>3, <2>4, DoneMoves, Stays DEF ExtendWrite, TypeInv
<1> QED
  BY <1>1, <1>2, <1>3, <1>4, <1>5, <1>6, <1>7, <1>8, <1>9, <1>10, <1>11, <1>12,
     <1>13, <1>14, <1>15, <1>16, <1>17, <1>18, <1>19 DEF Request

(* The records a purge goes through.                                       *)
LEMMA PurgeRecord ==
    ASSUME TypeInv, NEW p \in Purgers
    PROVE  /\ purger[p].queue \subseteq Files \X Owners
           /\ purger[p].pc = "delete" => purger[p] \in Purging
           /\ Resting \in Waiting
           /\ \A Q \in SUBSET (Files \X Owners) : Queued(Q) \in Waiting
<1>1. purger[p] \in Purging \cup Waiting
  BY DEF TypeInv, PurgersOK
<1>2. purger[p] \in Waiting => purger[p].pc # "delete"
  BY DEF Waiting
<1> QED
  BY <1>1, <1>2 DEF Purging, Waiting, Resting, Queued

LEMMA PurgeTypes ==
    ASSUME TypeInv, NEW p \in Purgers, Purge(p) \/ PurgeFails(p)
    PROVE  TypeInv'
<1>1. ASSUME PurgeSelect(p) PROVE TypeInv'
  <2>1. PICK S \in SUBSET Files :
           /\ Selects(p, S)
           /\ purger' = [purger EXCEPT ![p] = Queued({<<f, file[f].owner>> : f \in S})]
    BY <1>1 DEF PurgeSelect
  <2>2. \A f \in S : Exists(f)
    BY <2>1, ConstantsAssumption DEF Selects, Stale, Expired, InTrash, OldTrash, Exists, Sweeps
  <2>3. \A f \in S : file[f].owner \in Owners
    BY <2>2 DEF TypeInv, FilesOK, FileOK, Exists
  <2>4. {<<f, file[f].owner>> : f \in S} \in SUBSET (Files \X Owners)
    BY <2>3
  <2>5. PurgersOK'
    BY <2>1, <2>4, PurgeRecord, PurgerMoves
  <2> QED
    BY <1>1, <2>5, Stays DEF PurgeSelect, TypeInv
<1>2. ASSUME PurgeSkip(p) PROVE TypeInv'
  <2>1. PurgersOK'
    BY <1>2, PurgeRecord, PurgerMoves DEF PurgeSkip
  <2> QED
    BY <1>2, <2>1, Stays DEF PurgeSkip, TypeInv
<1>3. ASSUME PurgeList(p) PROVE TypeInv'
  <2>1. PICK e \in purger[p].queue :
           purger' = [purger EXCEPT ![p] =
              [pc |-> "delete", queue |-> purger[p].queue \ {e}, file |-> e[1],
               list |-> {part \in Parts : row[e[1]][part] = e[2]}]]
    BY <1>3 DEF PurgeList
  <2>2. e[1] \in Files
    BY PurgeRecord
  <2>3. PurgersOK'
    BY <2>1, <2>2, PurgeRecord, PurgerMoves DEF Purging
  <2> QED
    BY <1>3, <2>3, Stays DEF PurgeList, TypeInv
<1>4. ASSUME PurgeCommit(p) PROVE TypeInv'
  <2> DEFINE f == purger[p].file
  <2>1. purger[p] \in Purging /\ f \in Files
    BY <1>4, PurgeRecord DEF PurgeCommit, Purging
  <2>2. FileOK(Removed(f))
    BY <2>1 DEF TypeInv, FilesOK, FileOK, FileRows, Statuses, Removed
  <2>3. FilesOK'
    BY <1>4, <2>1, <2>2, FileMoves DEF PurgeCommit
  <2>4. BlobsOK'
    BY <1>4, <2>1 DEF PurgeCommit, TypeInv, BlobsOK
  <2>5. SharesOK' /\ HistoryOK'
    BY <1>4, <2>1 DEF PurgeCommit, TypeInv, SharesOK, HistoryOK
  <2>6. PurgersOK'
    BY <1>4, PurgeRecord, PurgerMoves DEF PurgeCommit, PurgeNext
  <2> QED
    BY <1>4, <2>3, <2>4, <2>5, <2>6, Stays DEF PurgeCommit, TypeInv
<1>5. PurgeThrows(p) => PurgersOK'
  BY PurgeRecord, PurgerMoves DEF PurgeThrows, PurgeNext
<1>6. ASSUME PurgeGone(p) PROVE TypeInv'
  BY <1>5, <1>6, Stays DEF PurgeGone, TypeInv
<1>7. ASSUME PurgeEnd(p) PROVE TypeInv'
  <2>1. PurgersOK'
    BY <1>7, PurgeRecord, PurgerMoves DEF PurgeEnd
  <2> QED
    BY <1>7, <2>1, Stays DEF PurgeEnd, TypeInv
<1>8. ASSUME PurgeFails(p) PROVE TypeInv'
  <2>1. HistoryOK'
    BY <1>8, ConstantsAssumption DEF PurgeFails, TypeInv, HistoryOK
  <2> QED
    BY <1>5, <1>8, <2>1, Stays DEF PurgeFails, TypeInv
<1> QED
  BY <1>1, <1>2, <1>3, <1>4, <1>6, <1>7, <1>8 DEF Purge

LEMMA OlderRow ==
    ASSUME NEW r, FileOK(r)
    PROVE  /\ FileOK(Older(r))
           /\ Older(r).status = r.status /\ Older(r).owner = r.owner
           /\ Older(r).thumb = r.thumb
           /\ Older(r).trash = "out" <=> r.trash = "out"
           /\ r.ttl = "over" => Older(r).ttl = "over"
<1>1. PICK s \in Statuses, w \in Owners \cup {None}, t \in {"out", "recent", "old"},
           l \in {"none", "running", "over"}, b \in {None, "thumb"} :
         r = [status |-> s, owner |-> w, trash |-> t, ttl |-> l, thumb |-> b]
  BY DEF FileOK, FileRows
<1> DEFINE t2 == IF t = "recent" THEN "old" ELSE t
           l2 == IF l = "running" THEN "over" ELSE l
           q  == [r EXCEPT !.trash = IF @ = "recent" THEN "old" ELSE @]
<1>2. q = [status |-> s, owner |-> w, trash |-> t2, ttl |-> l, thumb |-> b]
  BY <1>1
<1>3. [q EXCEPT !.ttl = IF @ = "running" THEN "over" ELSE @] =
         [status |-> s, owner |-> w, trash |-> t2, ttl |-> l2, thumb |-> b]
  <2> HIDE DEF q, t2
  <2> QED
    BY <1>2
<1>4. Older(r) = [status |-> s, owner |-> w, trash |-> t2, ttl |-> l2, thumb |-> b]
  <2>1. Older(r) = [q EXCEPT !.ttl = IF @ = "running" THEN "over" ELSE @]
    BY DEF Older
  <2> QED
    BY <1>3, <2>1
<1>5. t2 \in {"out", "recent", "old"} /\ l2 \in {"none", "running", "over"}
  OBVIOUS
<1>6. t2 = "out" <=> t = "out"
  OBVIOUS
<1>7. (l = "over" => l2 = "over") /\ (l = "none" => l2 = "none")
  OBVIOUS
<1> HIDE DEF t2, l2, q
<1>8. FileOK(Older(r))
  BY <1>1, <1>4, <1>5, <1>6, <1>7 DEF FileOK, FileRows
<1> QED
  BY <1>1, <1>4, <1>6, <1>7, <1>8

LEMMA MonthRows ==
    ASSUME TypeInv, MonthPasses
    PROVE  FilesOK' /\ \A f \in Files : file'[f] = Older(file[f])
<1>1. \A f \in Files : file'[f] = Older(file[f])
  BY DEF MonthPasses
<1>2. ASSUME NEW f \in Files PROVE FileOK(file'[f])
  <2>1. FileOK(file[f])
    BY DEF TypeInv, FilesOK
  <2>2. FileOK(Older(file[f]))
    BY <2>1, OlderRow
  <2> QED
    BY <1>1, <2>2
<1>3. \A f \in Files : file'[f] \in FileRows
  BY <1>2 DEF FileOK
<1>4. file' = [f \in Files |-> file'[f]]
  BY DEF MonthPasses
<1>5. FilesOK'
  BY <1>2, <1>3, <1>4 DEF FilesOK
<1> QED
  BY <1>1, <1>5

LEMMA TypeInvNext ==
    ASSUME TypeInv, [Next]_vars
    PROVE  TypeInv'
<1>1. ASSUME NEW f \in Files, InitUpload(f) PROVE TypeInv'
  <2>1. FileOK(NewFile(f))
    BY UploaderKnown DEF NewFile, FileOK, FileRows, Statuses
  <2>2. FilesOK'
    BY <1>1, <2>1, FileMoves DEF InitUpload
  <2> QED
    BY <1>1, <2>2, Stays DEF InitUpload, TypeInv
<1>2. ASSUME NEW f \in Files, TrashWithFolder(f) PROVE TypeInv'
  <2>1. FilesOK'
    BY <1>2, RowEdits, FileMoves DEF TrashWithFolder
  <2> QED
    BY <1>2, <2>1, Stays DEF TrashWithFolder, TypeInv
<1>3. ASSUME HourPasses PROVE TypeInv'
  <2>1. BlobsOK'
    BY <1>3 DEF HourPasses, TypeInv, BlobsOK
  <2> QED
    BY <1>3, <2>1, Stays DEF HourPasses, TypeInv
<1>4. ASSUME MonthPasses PROVE TypeInv'
  <2>1. BlobsOK'
    BY <1>4 DEF MonthPasses, TypeInv, BlobsOK
  <2> QED
    BY <1>4, <2>1, MonthRows, Stays DEF MonthPasses, TypeInv
<1>5. ASSUME Crash PROVE TypeInv'
  <2>1. OpsOK'
    BY <1>5 DEF Crash, OpsOK, OpOK
  <2>2. PurgersOK'
    BY <1>5 DEF Crash, PurgersOK, Waiting, Resting
  <2>3. HistoryOK'
    BY <1>5, ConstantsAssumption DEF Crash, TypeInv, HistoryOK
  <2> QED
    BY <1>5, <2>1, <2>2, <2>3, Stays DEF Crash, TypeInv
<1>6. CASE UNCHANGED vars
  BY <1>6, Stays DEF vars, TypeInv
<1> QED
  BY <1>1, <1>2, <1>3, <1>4, <1>5, <1>6, RequestTypes, PurgeTypes DEF Next

(* The state has the types TypeOK names, and nothing is ever written to a  *)
(* File row that is not there.                                             *)
THEOREM TypeCorrect == Spec => []TypeOK
<1>1. Spec => []TypeInv
  BY TypeInvInit, TypeInvNext, PTL DEF Spec
<1> QED
  BY <1>1, TypeInvIsTypeOK, PTL

-----------------------------------------------------------------------------
(* Safety.  Fine, Hunted and Swept are the inductive invariants; each is   *)
(* preserved given the types above.                                        *)

-----------------------------------------------------------------------------
(* Complete files, and shares of files that are there.                     *)

FileFine(f) ==
    /\ file[f].status = "ready" => \A p \in Chunks : row[f][p] # None
    /\ Exists(f) /\ file[f].thumb # None => row[f]["thumb"] # None
    /\ shares[f] # {} => file[f].status = "ready"

(* What the checks of a request are worth by the time it writes.           *)
OpFine(o) ==
    /\ op[o].pc # "idle" => file[op[o].file].status # "none"
    /\ op[o].pc = "share" => file[op[o].file].status \in {"ready", "gone"}
    /\ op[o].pc = "thumbFile" /\ Exists(op[o].file) => row[op[o].file]["thumb"] # None

Fine == (\A f \in Files : FileFine(f)) /\ (\A o \in Ops : OpFine(o))

(* Files move on and keep their rows until they are removed.               *)
Grows(f) == \A p \in Parts : row[f][p] # None => row'[f][p] # None
Advances(f) ==
    \/ file'[f].status = "gone"
    \/ /\ Grows(f)
       /\ \/ file'[f].status = file[f].status
          \/ file[f].status = "none" /\ file'[f].status = "uploading"
          \/ file[f].status = "uploading" /\ file'[f].status = "ready"

LEMMA OpKept ==
    ASSUME TypeInv, NEW o \in Ops, OpFine(o),
           op'[o] = op[o] \/ op'[o] = Idle, \A f \in Files : Advances(f)
    PROVE  OpFine(o)'
<1>1. CASE op'[o] = Idle
  BY <1>1 DEF OpFine, Idle
<1>2. CASE op'[o] = op[o] /\ op[o].pc = "idle"
  BY <1>2 DEF OpFine
<1>3. CASE op'[o] = op[o] /\ op[o].pc # "idle"
  <2>1. op[o].file \in Files /\ Advances(op[o].file)
    BY <1>3, OpRuns DEF Running
  <2>2. "thumb" \in Parts
    BY DEF Parts
  <2> QED
    BY <1>3, <2>1, <2>2 DEF OpFine, Advances, Grows, Exists
<1> QED
  BY <1>1, <1>2, <1>3

LEMMA FileKept ==
    ASSUME NEW f \in Files, FileFine(f), Grows(f), file'[f] = file[f],
           shares'[f] \subseteq shares[f]
    PROVE  FileFine(f)' /\ Advances(f)
BY DEF FileFine, Grows, Exists, Advances, Parts

(* The fields of an edited File row.                                       *)
LEMMA RowFields ==
    ASSUME TypeInv, NEW f \in Files
    PROVE  /\ [file[f] EXCEPT !.status = "ready"].status = "ready"
           /\ [file[f] EXCEPT !.status = "ready"].thumb = file[f].thumb
           /\ [file[f] EXCEPT !.thumb = "thumb"].status = file[f].status
           /\ \A t \in {"recent", "out"} :
                /\ [file[f] EXCEPT !.trash = t].status = file[f].status
                /\ [file[f] EXCEPT !.trash = t].thumb = file[f].thumb
           /\ [[file[f] EXCEPT !.owner = "user"] EXCEPT !.ttl = "none"].status = file[f].status
           /\ [[file[f] EXCEPT !.owner = "user"] EXCEPT !.ttl = "none"].thumb = file[f].thumb
           /\ [file[f] EXCEPT !.ttl = "running"].status = file[f].status
           /\ [file[f] EXCEPT !.ttl = "running"].thumb = file[f].thumb
<1>1. PICK s \in Statuses, w \in Owners \cup {None}, t \in {"out", "recent", "old"},
           l \in {"none", "running", "over"}, b \in {None, "thumb"} :
         file[f] = [status |-> s, owner |-> w, trash |-> t, ttl |-> l, thumb |-> b]
  BY DEF TypeInv, FilesOK, FileRows
<1> DEFINE r == [file[f] EXCEPT !.owner = "user"]
<1>2. r = [status |-> s, owner |-> "user", trash |-> t, ttl |-> l, thumb |-> b]
  BY <1>1
<1> HIDE DEF r
<1>3. [r EXCEPT !.ttl = "none"] =
         [status |-> s, owner |-> "user", trash |-> t, ttl |-> "none", thumb |-> b]
  BY <1>2
<1>4. /\ [r EXCEPT !.ttl = "none"].status = file[f].status
      /\ [r EXCEPT !.ttl = "none"].thumb = file[f].thumb
  BY <1>1, <1>3
<1>5. \A u \in {"recent", "out"} :
        /\ [file[f] EXCEPT !.trash = u].status = file[f].status
        /\ [file[f] EXCEPT !.trash = u].thumb = file[f].thumb
  BY <1>1
<1>6. /\ [file[f] EXCEPT !.status = "ready"].status = "ready"
      /\ [file[f] EXCEPT !.status = "ready"].thumb = file[f].thumb
      /\ [file[f] EXCEPT !.thumb = "thumb"].status = file[f].status
  BY <1>1
<1>7. /\ [file[f] EXCEPT !.ttl = "running"].status = file[f].status
      /\ [file[f] EXCEPT !.ttl = "running"].thumb = file[f].thumb
  BY <1>1
<1> QED
  BY <1>4, <1>5, <1>6, <1>7 DEF r

LEMMA FineInit == Init => Fine
BY DEF Init, Fine, FileFine, OpFine, Absent, Idle, Exists

(* The first statement of a request only looks.                            *)
LEMMA ReadsFine ==
    ASSUME TypeInv, Fine, NEW o \in Ops, NEW f \in Files,
           NEW pc \in Steps \ {"thumbFile"},
           NEW part \in Parts \cup {None}, NEW owner \in Owners,
           pc = "put" => part \in Chunks, Set(o, pc, f, part, owner),
           file[f].status # "none", pc = "share" => file[f].status = "ready",
           UNCHANGED <<file, row, shares>>
    PROVE  Fine'
<1>1. /\ op'[o] = [pc |-> pc, file |-> f, part |-> part, owner |-> owner]
      /\ \A q \in Ops : q # o => op'[q] = op[q]
  BY SetMoves
<1>2. OpFine(o)'
  BY <1>1 DEF OpFine
<1>3. \A g \in Files : FileFine(g)' /\ Advances(g)
  BY FileKept DEF Fine, Grows
<1> QED
  BY <1>1, <1>2, <1>3, OpKept DEF Fine

(* A step that leaves the File rows and the shares alone, and ends a       *)
(* request or moves none.                                                  *)
LEMMA EndFine ==
    ASSUME TypeInv, Fine, \A q \in Ops : op'[q] \in {op[q], Idle},
           \A f \in Files : Grows(f) /\ file'[f] = file[f]
                            /\ shares'[f] \subseteq shares[f]
    PROVE  Fine'
<1>1. \A g \in Files : FileFine(g)' /\ Advances(g)
  BY FileKept DEF Fine
<1> QED
  BY <1>1, OpKept DEF Fine

(* Write leaves no row empty that was not.                                 *)
LEMMA WriteGrows ==
    ASSUME TypeInv, NEW f \in Files, NEW parts \in SUBSET Parts,
           NEW owner \in [Parts -> Owners], Write(f, parts, owner)
    PROVE  /\ \A g \in Files : Grows(g)
           /\ \A p \in parts : row'[f][p] # None
<1>1. owner \in [Parts -> Owners \cup {None}]
  OBVIOUS
<1>2. \A g \in Files, p \in Parts : row'[g][p] =
         IF g = f /\ p \in parts THEN owner[p] ELSE row[g][p]
  BY <1>1, WriteRows
<1>3. \A p \in Parts : owner[p] # None
  BY ConstantsAssumption
<1> QED
  BY <1>2, <1>3 DEF Grows

(* A step that edits one File row of a file that is there, in its trash,   *)
(* owner or ttl field or its thumbnail.                                    *)
LEMMA EditFine ==
    ASSUME TypeInv, Fine, NEW f \in Files, NEW r, Exists(f),
           \A g \in Files : file'[g] = IF g = f THEN r ELSE file[g],
           r.status = file[f].status,
           r.thumb = file[f].thumb \/ row[f]["thumb"] # None,
           UNCHANGED <<row, shares>>
    PROVE  \A g \in Files : FileFine(g)' /\ Advances(g)
<1>1. ASSUME NEW g \in Files, g # f PROVE FileFine(g)' /\ Advances(g)
  BY <1>1, FileKept DEF Fine, Grows
<1>2. FileFine(f)' /\ Advances(f)
  BY DEF Fine, FileFine, Exists, Advances, Grows
<1> QED
  BY <1>1, <1>2

LEMMA RequestFine ==
    ASSUME TypeInv, Fine, NEW o \in Ops, Request(o)
    PROVE  Fine'
<1>1. ASSUME NEW f \in Files, NEW part \in Chunks, PutCheck(o, f, part)
      PROVE  Fine'
  BY <1>1, ReadsFine, UploaderKnown DEF PutCheck, Steps, Parts
<1>2. ASSUME NEW f \in Files, CommitRead(o, f) PROVE Fine'
  BY <1>2, ReadsFine, UploaderKnown DEF CommitRead, Steps
<1>3. ASSUME NEW f \in Files, TrashRead(o, f) PROVE Fine'
  <2>1. file[f].owner \in Owners
    BY <1>3 DEF TrashRead, Exists, TypeInv, FilesOK, FileOK
  <2> QED
    BY <1>3, <2>1, ReadsFine DEF TrashRead, Steps, Exists
<1>4. ASSUME NEW f \in Files, RestoreRead(o, f) PROVE Fine'
  BY <1>4, ReadsFine DEF RestoreRead, Steps, Owners, Exists
<1>5. ASSUME NEW f \in Files, ShareRead(o, f) PROVE Fine'
  <2>1. file[f].owner \in Owners
    BY <1>5 DEF ShareRead, TypeInv, FilesOK, FileOK
  <2> QED
    BY <1>5, <2>1, ReadsFine DEF ShareRead, Steps
<1>6. ASSUME NEW f \in Files, ClaimRead(o, f) PROVE Fine'
  BY <1>6, ReadsFine DEF ClaimRead, Steps, Owners, Exists
<1>7. ASSUME PutRecord(o) PROVE Fine'
  <2>1. op[o] \in Running /\ op[o].part \in Chunks
    BY <1>7, OpRuns DEF PutRecord, At
  <2>2. \A f \in Files : Grows(f)
    BY <1>7, <2>1, WriteGrows DEF PutRecord, Running, Parts
  <2> QED
    BY <1>7, <2>2, DoneMoves, EndFine DEF PutRecord
<1>8. ASSUME CommitWrite(o) PROVE Fine'
  <2> DEFINE f == op[o].file
             r == [file[f] EXCEPT !.status = "ready"]
  <2>1. op[o] \in Running /\ f \in Files
    BY <1>8, OpRuns DEF CommitWrite, At, Running
  <2>2. CASE ~Exists(f)
    BY <1>8, <2>2, DoneMoves, EndFine DEF CommitWrite, Grows
  <2>3. CASE Exists(f)
    <3>1. FileOK(r)
      BY <2>1, <2>3, RowEdits
    <3>2. \A g \in Files : file'[g] = IF g = f THEN r ELSE file[g]
      BY <1>8, <2>1, <2>3, <3>1, FileMoves DEF CommitWrite
    <3>3. r.status = "ready" /\ r.thumb = file[f].thumb
      BY <2>1, RowFields
    <3>4. (\A g \in Files : Grows(g)) /\ \A p \in Chunks : row'[f][p] # None
      <4> DEFINE w == [p \in Parts |-> IF row[f][p] = None THEN op[o].owner ELSE row[f][p]]
      <4>1. w \in [Parts -> Owners] /\ Chunks \in SUBSET Parts
        BY <2>1 DEF TypeInv, BlobsOK, Running, Parts
      <4>2. Write(f, Chunks, w)
        BY <1>8, <2>3 DEF CommitWrite
      <4> HIDE DEF w
      <4> QED
        BY <2>1, <4>1, <4>2, WriteGrows
    <3> HIDE DEF r
    <3>5. row' \in [Files -> [Parts -> Owners \cup {None}]] /\ shares' = shares
      BY <1>8, <2>1, <2>3, RequestTypes DEF CommitWrite, Request, TypeInv, BlobsOK
    <3>6. \A g \in Files : FileFine(g)' /\ Advances(g)
      <4>1. ASSUME NEW g \in Files, g = f PROVE FileFine(g)'
        <5>1. file[g].thumb # None => row'[g]["thumb"] # None
          <6>1. file[g].thumb # None => row[g]["thumb"] # None
            BY <2>3, <4>1 DEF Fine, FileFine
          <6>2. "thumb" \in Parts /\ Grows(g)
            BY <3>4 DEF Parts
          <6> QED
            BY <6>1, <6>2 DEF Grows
        <5> QED
          BY <3>2, <3>3, <3>4, <3>5, <4>1, <5>1 DEF FileFine
      <4>2. Advances(f)
        BY <2>1, <2>3, <3>2, <3>3, <3>4 DEF Advances, Exists
      <4>3. ASSUME NEW g \in Files, g # f PROVE FileFine(g)' /\ Advances(g)
        BY <3>2, <3>4, <3>5, <4>3, FileKept DEF Fine
      <4> QED
        BY <4>1, <4>2, <4>3
    <3>7. /\ op'[o] = [pc |-> "generate", file |-> f, part |-> op[o].part,
                       owner |-> op[o].owner]
          /\ \A q \in Ops : q # o => op'[q] = op[q]
      BY <1>8, <2>3, GotoMoves DEF CommitWrite, At, Steps
    <3>8. OpFine(o)'
      BY <2>1, <3>2, <3>3, <3>7 DEF OpFine
    <3> QED
      BY <3>6, <3>7, <3>8, OpKept DEF Fine
  <2> QED
    BY <2>2, <2>3
<1>9. ASSUME ThumbRead(o) PROVE Fine'
  <2> DEFINE f == op[o].file
  <2>1. op[o] \in Running /\ f \in Files
    BY <1>9, OpRuns DEF ThumbRead, At, Running
  <2>2. CASE Done(o)
    BY <1>9, <2>2, DoneMoves, EndFine DEF ThumbRead, Grows
  <2>3. CASE file[f].status = "ready" /\ Set(o, "thumbRow", f, "thumb", file[f].owner)
    <3>1. file[f].owner \in Owners
      BY <2>1, <2>3 DEF TypeInv, FilesOK, FileOK
    <3> QED
      BY <1>9, <2>1, <2>3, <3>1, ReadsFine DEF ThumbRead, Steps, Parts
  <2> QED
    BY <1>9, <2>2, <2>3 DEF ThumbRead
<1>10. ASSUME ThumbRow(o) PROVE Fine'
  <2> DEFINE f == op[o].file
             w == [p \in Parts |-> IF row[f]["thumb"] = None THEN op[o].owner
                                   ELSE row[f]["thumb"]]
  <2>1. op[o] \in Running /\ f \in Files
    BY <1>10, OpRuns DEF ThumbRow, At, Running
  <2>2. w \in [Parts -> Owners] /\ {"thumb"} \in SUBSET Parts
    BY <2>1 DEF TypeInv, BlobsOK, Running, Parts
  <2>3. Write(f, {"thumb"}, w)
    BY <1>10 DEF ThumbRow
  <2> HIDE DEF w
  <2>4. (\A g \in Files : Grows(g)) /\ row'[f]["thumb"] # None
    BY <2>1, <2>2, <2>3, WriteGrows
  <2>5. /\ op'[o] = [pc |-> "thumbFile", file |-> f, part |-> op[o].part,
                     owner |-> op[o].owner]
        /\ \A q \in Ops : q # o => op'[q] = op[q]
    BY <1>10, GotoMoves DEF ThumbRow, At, Steps
  <2>6. file' = file /\ shares' = shares
    BY <1>10 DEF ThumbRow
  <2>7. \A g \in Files : FileFine(g)' /\ Advances(g)
    BY <2>4, <2>6, FileKept DEF Fine
  <2>8. file[f].status # "none"
    BY <1>10 DEF ThumbRow, At, Fine, OpFine
  <2>9. OpFine(o)'
    BY <2>4, <2>5, <2>6, <2>8 DEF OpFine
  <2> QED
    BY <2>5, <2>7, <2>9, OpKept DEF Fine
<1>11. ASSUME ThumbFile(o) PROVE Fine'
  <2> DEFINE f == op[o].file
             r == [file[f] EXCEPT !.thumb = "thumb"]
  <2>1. op[o] \in Running /\ f \in Files
    BY <1>11, OpRuns DEF ThumbFile, At, Running
  <2>2. CASE ~Exists(f)
    BY <1>11, <2>2, DoneMoves, EndFine DEF ThumbFile, Grows
  <2>3. CASE Exists(f)
    <3>1. row[f]["thumb"] # None
      BY <1>11, <2>3 DEF ThumbFile, At, Fine, OpFine
    <3>2. FileOK(r) /\ r.status = file[f].status
      BY <2>1, <2>3, RowEdits, RowFields
    <3>3. \A g \in Files : file'[g] = IF g = f THEN r ELSE file[g]
      BY <1>11, <2>1, <2>3, <3>2, FileMoves DEF ThumbFile
    <3> HIDE DEF r
    <3>4. \A g \in Files : FileFine(g)' /\ Advances(g)
      BY <1>11, <2>1, <2>3, <3>1, <3>2, <3>3, EditFine DEF ThumbFile
    <3> QED
      BY <1>11, <3>4, DoneMoves, OpKept DEF ThumbFile, Fine
  <2> QED
    BY <2>2, <2>3
<1>12. ASSUME TrashWrite(o) PROVE Fine'
  <2> DEFINE f == op[o].file
             r == [file[f] EXCEPT !.trash = "recent"]
  <2>1. op[o] \in Running /\ f \in Files
    BY <1>12, OpRuns DEF TrashWrite, At, Running
  <2>2. CASE ~Exists(f)
    BY <1>12, <2>2, DoneMoves, EndFine DEF TrashWrite, Grows
  <2>3. CASE Exists(f)
    <3>1. FileOK(r) /\ r.status = file[f].status /\ r.thumb = file[f].thumb
      BY <2>1, <2>3, RowEdits, RowFields
    <3>2. \A g \in Files : file'[g] = IF g = f THEN r ELSE file[g]
      BY <1>12, <2>1, <2>3, <3>1, FileMoves DEF TrashWrite
    <3> HIDE DEF r
    <3>3. \A g \in Files : FileFine(g)' /\ Advances(g)
      BY <1>12, <2>1, <2>3, <3>1, <3>2, EditFine DEF TrashWrite
    <3>4. /\ op'[o] = [pc |-> "unshare", file |-> f, part |-> op[o].part,
                       owner |-> op[o].owner]
          /\ \A q \in Ops : q # o => op'[q] = op[q]
      BY <1>12, <2>3, GotoMoves DEF TrashWrite, At, Steps
    <3>5. OpFine(o)'
      BY <2>1, <2>3, <3>1, <3>2, <3>4 DEF OpFine, Exists
    <3> QED
      BY <3>3, <3>4, <3>5, OpKept DEF Fine
  <2> QED
    BY <2>2, <2>3
<1>13. ASSUME TrashUnshare(o) PROVE Fine'
  <2>1. \A f \in Files : shares'[f] \subseteq shares[f]
    BY <1>13 DEF TrashUnshare, TypeInv, SharesOK
  <2> QED
    BY <1>13, <2>1, DoneMoves, EndFine DEF TrashUnshare, Grows
<1>14. ASSUME RestoreWrite(o) PROVE Fine'
  <2> DEFINE f == op[o].file
             r == [file[f] EXCEPT !.trash = "out"]
  <2>1. op[o] \in Running /\ f \in Files
    BY <1>14, OpRuns DEF RestoreWrite, At, Running
  <2>2. CASE ~Exists(f)
    BY <1>14, <2>2, DoneMoves, EndFine DEF RestoreWrite, Grows
  <2>3. CASE Exists(f)
    <3>1. FileOK(r) /\ r.status = file[f].status /\ r.thumb = file[f].thumb
      BY <2>1, <2>3, RowEdits, RowFields
    <3>2. \A g \in Files : file'[g] = IF g = f THEN r ELSE file[g]
      BY <1>14, <2>1, <2>3, <3>1, FileMoves DEF RestoreWrite
    <3> HIDE DEF r
    <3>3. \A g \in Files : FileFine(g)' /\ Advances(g)
      BY <1>14, <2>1, <2>3, <3>1, <3>2, EditFine DEF RestoreWrite
    <3> QED
      BY <1>14, <3>3, DoneMoves, OpKept DEF RestoreWrite, Fine
  <2> QED
    BY <2>2, <2>3
<1>15. ASSUME ShareWrite(o) PROVE Fine'
  <2> DEFINE f == op[o].file
  <2>1. op[o] \in Running /\ f \in Files
    BY <1>15, OpRuns DEF ShareWrite, At, Running
  <2>2. Exists(f) => file[f].status = "ready"
    BY <1>15 DEF ShareWrite, At, Fine, OpFine, Exists
  <2>3. \A g \in Files : shares'[g] = shares[g] \/ (g = f /\ Exists(f))
    BY <1>15, <2>1 DEF ShareWrite, TypeInv, SharesOK
  <2>4. \A g \in Files : FileFine(g)' /\ Advances(g)
    BY <1>15, <2>2, <2>3 DEF ShareWrite, Fine, FileFine, Advances, Grows, Exists
  <2> QED
    BY <1>15, <2>4, DoneMoves, OpKept DEF ShareWrite, Fine
<1>16. ASSUME ClaimWrite(o) PROVE Fine'
  <2> DEFINE f == op[o].file
             r == [[file[f] EXCEPT !.owner = "user"] EXCEPT !.ttl = "none"]
  <2>1. op[o] \in Running /\ f \in Files
    BY <1>16, OpRuns DEF ClaimWrite, At, Running
  <2>2. CASE ~Exists(f)
    BY <1>16, <2>2, DoneMoves, EndFine DEF ClaimWrite, Grows
  <2>3. CASE Exists(f)
    <3>1. FileOK(r) /\ r.status = file[f].status /\ r.thumb = file[f].thumb
      BY <2>1, <2>3, RowEdits, RowFields
    <3>2. \A g \in Files : file'[g] = IF g = f THEN r ELSE file[g]
      BY <1>16, <2>1, <2>3, <3>1, FileMoves DEF ClaimWrite
    <3> HIDE DEF r
    <3>3. \A g \in Files : FileFine(g)' /\ Advances(g)
      BY <1>16, <2>1, <2>3, <3>1, <3>2, EditFine DEF ClaimWrite
    <3> QED
      BY <1>16, <3>3, DoneMoves, OpKept DEF ClaimWrite, Fine
  <2> QED
    BY <2>2, <2>3
<1>17. ASSUME OpFails(o) PROVE Fine'
  BY <1>17, DoneMoves, EndFine DEF OpFails, Grows
<1>18. ASSUME NEW f \in Files, ExtendRead(o, f) PROVE Fine'
  BY <1>18, ReadsFine DEF ExtendRead, Steps, Owners, Exists
<1>19. ASSUME ExtendWrite(o) PROVE Fine'
  <2> DEFINE f == op[o].file
             r == [file[f] EXCEPT !.ttl = "running"]
  <2>1. op[o] \in Running /\ f \in Files
    BY <1>19, OpRuns DEF ExtendWrite, At, Running
  <2>2. CASE ~(Exists(f) /\ file[f].ttl # "none")
    BY <1>19, <2>2, DoneMoves, EndFine DEF ExtendWrite, Grows
  <2>3. CASE Exists(f) /\ file[f].ttl # "none"
    <3>1. FileOK(r) /\ r.status = file[f].status /\ r.thumb = file[f].thumb
      BY <2>1, <2>3, RowEdits, RowFields
    <3>2. \A g \in Files : file'[g] = IF g = f THEN r ELSE file[g]
      BY <1>19, <2>1, <2>3, <3>1, FileMoves DEF ExtendWrite
    <3> HIDE DEF r
    <3>3. \A g \in Files : FileFine(g)' /\ Advances(g)
      BY <1>19, <2>1, <2>3, <3>1, <3>2, EditFine DEF ExtendWrite
    <3> QED
      BY <1>19, <3>3, DoneMoves, OpKept DEF ExtendWrite, Fine
  <2> QED
    BY <2>2, <2>3
<1> QED
  BY <1>1, <1>2, <1>3, <1>4, <1>5, <1>6, <1>7, <1>8, <1>9, <1>10, <1>11, <1>12,
     <1>13, <1>14, <1>15, <1>16, <1>17, <1>18, <1>19 DEF Request

LEMMA PurgeFine ==
    ASSUME TypeInv, Fine, NEW p \in Purgers, Purge(p) \/ PurgeFails(p)
    PROVE  Fine'
<1>1. CASE PurgeCommit(p)
  <2> DEFINE f == purger[p].file
  <2>1. f \in Files /\ FileOK(Removed(f))
    <3>1. f \in Files
      BY <1>1, PurgeRecord DEF PurgeCommit, Purging
    <3> QED
      BY <3>1 DEF TypeInv, FilesOK, FileOK, FileRows, Statuses, Removed
  <2>2. \A g \in Files : file'[g] = IF g = f THEN Removed(f) ELSE file[g]
    BY <1>1, <2>1, FileMoves, ZenonT(60) DEF PurgeCommit
  <2>3. \A g \in Files : g # f => row'[g] = row[g] /\ shares'[g] = shares[g]
    BY <1>1 DEF PurgeCommit, TypeInv, BlobsOK, SharesOK
  <2>4. \A g \in Files : g = f => file'[g].status = "gone" /\ shares'[g] = {}
    BY <1>1, <2>2 DEF PurgeCommit, TypeInv, SharesOK, Removed
  <2>5. ASSUME NEW g \in Files PROVE FileFine(g)' /\ Advances(g)
    <3>1. CASE g # f
      BY <2>2, <2>3, <3>1, FileKept DEF Fine, Grows
    <3>2. CASE g = f
      BY <2>4, <3>2 DEF FileFine, Exists, Advances
    <3> QED
      BY <3>1, <3>2
  <2>6. op' = op
    BY <1>1 DEF PurgeCommit
  <2> QED
    BY <2>5, <2>6, OpKept DEF Fine
<1>2. CASE UNCHANGED <<file, row, shares, op>>
  BY <1>2, EndFine DEF Grows
<1> QED
  BY <1>1, <1>2 DEF Purge, PurgeSelect, PurgeSkip, PurgeList, PurgeGone, PurgeEnd,
                    PurgeFails

LEMMA FineNext ==
    ASSUME TypeInv, Fine, [Next]_vars
    PROVE  Fine'
<1>1. ASSUME NEW f \in Files, InitUpload(f) PROVE Fine'
  <2>1. FileOK(NewFile(f))
    BY UploaderKnown DEF NewFile, FileOK, FileRows, Statuses
  <2>2. \A g \in Files : file'[g] = IF g = f THEN NewFile(f) ELSE file[g]
    BY <1>1, <2>1, FileMoves DEF InitUpload
  <2>3. FileFine(f)' /\ Advances(f)
    BY <1>1, <2>2 DEF InitUpload, Fine, FileFine, Exists, NewFile, Advances, Grows
  <2>4. \A g \in Files : FileFine(g)' /\ Advances(g)
    BY <1>1, <2>2, <2>3, FileKept DEF InitUpload, Fine, Grows
  <2> QED
    BY <1>1, <2>4, OpKept DEF InitUpload, Fine
<1>2. ASSUME NEW f \in Files, TrashWithFolder(f) PROVE Fine'
  <2> DEFINE r == [file[f] EXCEPT !.trash = "recent"]
  <2>1. FileOK(r) /\ r.status = file[f].status /\ r.thumb = file[f].thumb
    BY <1>2, RowEdits, RowFields DEF TrashWithFolder
  <2>2. \A g \in Files : file'[g] = IF g = f THEN r ELSE file[g]
    BY <1>2, <2>1, FileMoves DEF TrashWithFolder
  <2> HIDE DEF r
  <2>3. \A g \in Files : FileFine(g)' /\ Advances(g)
    BY <1>2, <2>1, <2>2, EditFine DEF TrashWithFolder
  <2> QED
    BY <1>2, <2>3, OpKept DEF TrashWithFolder, Fine
<1>3. CASE HourPasses
  BY <1>3, EndFine DEF HourPasses, Grows
<1>4. CASE MonthPasses
  <2>1. \A f \in Files : /\ file'[f].status = file[f].status
                         /\ file'[f].thumb = file[f].thumb
    BY <1>4, MonthRows, OlderRow DEF TypeInv, FilesOK
  <2>2. \A g \in Files : FileFine(g)' /\ Advances(g)
    BY <1>4, <2>1 DEF MonthPasses, Fine, FileFine, Exists, Advances, Grows
  <2> QED
    BY <1>4, <2>2, OpKept DEF MonthPasses, Fine
<1>5. CASE Crash
  <2>1. \A q \in Ops : op'[q] = Idle
    BY <1>5 DEF Crash
  <2> QED
    BY <1>5, <2>1, EndFine DEF Crash, Grows
<1>6. CASE UNCHANGED vars
  BY <1>6, EndFine DEF vars, Grows
<1> QED
  BY <1>1, <1>2, <1>3, <1>4, <1>5, <1>6, RequestFine, PurgeFine DEF Next

(* A committed file is complete, and a share leads to a committed file.    *)
THEOREM Complete == Spec => []CommittedFileComplete
<1>1. Spec => [](TypeInv /\ Fine)
  BY TypeInvInit, TypeInvNext, FineInit, FineNext, PTL DEF Spec
<1>2. Fine => CommittedFileComplete
  BY DEF Fine, FileFine, CommittedFileComplete
<1> QED
  BY <1>1, <1>2, PTL

THEOREM Shares == Spec => []SharesLeadToFiles
<1>1. Spec => [](TypeInv /\ Fine)
  BY TypeInvInit, TypeInvNext, FineInit, FineNext, PTL DEF Spec
<1>2. Fine => SharesLeadToFiles
  BY DEF Fine, FileFine, SharesLeadToFiles
<1> QED
  BY <1>1, <1>2, PTL

-----------------------------------------------------------------------------
(* Only due files are purged.                                              *)

Prey(f) ==
    ~Exists(f) \/ Trashed(f) \/ file[f].status = "uploading"
    \/ file[f].ttl = "over" \/ f \in saved

Hunted == \A f \in Files : Doomed(f) => Prey(f)

(* What a step other than a purge's must respect.                          *)
Spares(f) ==
    /\ Exists(f) => file'[f].status # "gone"
    /\ Doomed(f) /\ Prey(f) => Prey(f)'

LEMMA SparesSame ==
    ASSUME NEW f \in Files, file'[f] = file[f], saved \subseteq saved'
    PROVE  Spares(f)
BY DEF Spares, Prey, Exists, Trashed

LEMMA SparesKept ==
    ASSUME NEW f \in Files, Exists(f), file'[f].status # "gone",
           \/ Keep(f)
           \/ file'[f].trash # "out"
           \/ /\ file'[f].status = file[f].status
              /\ file'[f].trash = file[f].trash
              /\ file'[f].ttl = file[f].ttl
              /\ saved \subseteq saved'
    PROVE  Spares(f)
BY DEF Spares, Prey, Exists, Trashed, Keep

(* The other fields of an edited File row.                                 *)
LEMMA TrashFields ==
    ASSUME TypeInv, NEW f \in Files
    PROVE  /\ [file[f] EXCEPT !.trash = "recent"].trash = "recent"
           /\ [file[f] EXCEPT !.thumb = "thumb"].trash = file[f].trash
           /\ [file[f] EXCEPT !.thumb = "thumb"].ttl = file[f].ttl
<1>1. PICK s \in Statuses, w \in Owners \cup {None}, t \in {"out", "recent", "old"},
           l \in {"none", "running", "over"}, b \in {None, "thumb"} :
         file[f] = [status |-> s, owner |-> w, trash |-> t, ttl |-> l, thumb |-> b]
  BY DEF TypeInv, FilesOK, FileRows
<1> QED
  BY <1>1

(* A request's step leaves the purges alone and spares every file.         *)
LEMMA RequestSpares ==
    ASSUME TypeInv, NEW o \in Ops, Request(o)
    PROVE  purger' = purger /\ \A f \in Files : Spares(f)
<1> DEFINE Goal == purger' = purger /\ \A f \in Files : Spares(f)
<1>1. CASE UNCHANGED <<file, purger, saved>>
  BY <1>1, SparesSame
<1>2. ASSUME CommitWrite(o) PROVE Goal
  <2> DEFINE f == op[o].file
             r == [file[f] EXCEPT !.status = "ready"]
  <2>1. f \in Files
    BY <1>2, OpRuns DEF CommitWrite, At, Running
  <2>2. CASE ~Exists(f)
    BY <1>2, <2>2, SparesSame DEF CommitWrite
  <2>3. CASE Exists(f)
    <3>1. FileOK(r) /\ r.status = "ready"
      BY <2>1, <2>3, RowEdits, RowFields
    <3>2. \A g \in Files : file'[g] = IF g = f THEN r ELSE file[g]
      BY <1>2, <2>1, <2>3, <3>1, FileMoves DEF CommitWrite
    <3>3. Keep(f) /\ saved \subseteq saved'
      BY <1>2, <2>1, <2>3, KeepHistory DEF CommitWrite
    <3> HIDE DEF r
    <3>4. \A g \in Files : Spares(g)
      BY <2>3, <3>1, <3>2, <3>3, SparesSame, SparesKept
    <3> QED
      BY <1>2, <3>4 DEF CommitWrite
  <2> QED
    BY <2>2, <2>3
<1>3. ASSUME ThumbFile(o) PROVE Goal
  <2> DEFINE f == op[o].file
             r == [file[f] EXCEPT !.thumb = "thumb"]
  <2>1. f \in Files
    BY <1>3, OpRuns DEF ThumbFile, At, Running
  <2>2. CASE ~Exists(f)
    BY <1>3, <2>2, SparesSame DEF ThumbFile
  <2>3. CASE Exists(f)
    <3>1. /\ FileOK(r) /\ r.status = file[f].status
          /\ r.trash = file[f].trash /\ r.ttl = file[f].ttl
      BY <2>1, <2>3, RowEdits, RowFields, TrashFields
    <3>2. \A g \in Files : file'[g] = IF g = f THEN r ELSE file[g]
      BY <1>3, <2>1, <2>3, <3>1, FileMoves, ZenonT(60) DEF ThumbFile
    <3>3. saved' = saved /\ purger' = purger
      BY <1>3 DEF ThumbFile
    <3> HIDE DEF r
    <3>4. \A g \in Files : Spares(g)
      BY <2>3, <3>1, <3>2, <3>3, SparesSame, SparesKept DEF Exists
    <3> QED
      BY <3>3, <3>4
  <2> QED
    BY <2>2, <2>3
<1>4. ASSUME TrashWrite(o) PROVE Goal
  <2> DEFINE f == op[o].file
             r == [file[f] EXCEPT !.trash = "recent"]
  <2>1. f \in Files
    BY <1>4, OpRuns DEF TrashWrite, At, Running
  <2>2. CASE ~Exists(f)
    BY <1>4, <2>2, SparesSame DEF TrashWrite
  <2>3. CASE Exists(f)
    <3>1. FileOK(r) /\ r.status = file[f].status /\ r.trash = "recent"
      BY <2>1, <2>3, RowEdits, RowFields, TrashFields
    <3>2. \A g \in Files : file'[g] = IF g = f THEN r ELSE file[g]
      BY <1>4, <2>1, <2>3, <3>1, FileMoves DEF TrashWrite
    <3>3. saved' = saved /\ purger' = purger
      BY <1>4 DEF TrashWrite
    <3> HIDE DEF r
    <3>4. \A g \in Files : Spares(g)
      BY <2>3, <3>1, <3>2, <3>3, SparesSame, SparesKept DEF Exists
    <3> QED
      BY <3>3, <3>4
  <2> QED
    BY <2>2, <2>3
<1>5. ASSUME RestoreWrite(o) PROVE Goal
  <2> DEFINE f == op[o].file
             r == [file[f] EXCEPT !.trash = "out"]
  <2>1. f \in Files
    BY <1>5, OpRuns DEF RestoreWrite, At, Running
  <2>2. CASE ~Exists(f)
    BY <1>5, <2>2, SparesSame DEF RestoreWrite
  <2>3. CASE Exists(f)
    <3>1. FileOK(r) /\ r.status = file[f].status
      BY <2>1, <2>3, RowEdits, RowFields
    <3>2. \A g \in Files : file'[g] = IF g = f THEN r ELSE file[g]
      BY <1>5, <2>1, <2>3, <3>1, FileMoves DEF RestoreWrite
    <3>3. Keep(f) /\ saved \subseteq saved' /\ purger' = purger
      BY <1>5, <2>1, <2>3, KeepHistory DEF RestoreWrite
    <3> HIDE DEF r
    <3>4. \A g \in Files : Spares(g)
      BY <2>3, <3>1, <3>2, <3>3, SparesSame, SparesKept DEF Exists
    <3> QED
      BY <3>3, <3>4
  <2> QED
    BY <2>2, <2>3
<1>6. ASSUME ClaimWrite(o) PROVE Goal
  <2> DEFINE f == op[o].file
             r == [[file[f] EXCEPT !.owner = "user"] EXCEPT !.ttl = "none"]
  <2>1. f \in Files
    BY <1>6, OpRuns DEF ClaimWrite, At, Running
  <2>2. CASE ~Exists(f)
    BY <1>6, <2>2, SparesSame DEF ClaimWrite
  <2>3. CASE Exists(f)
    <3>1. FileOK(r) /\ r.status = file[f].status
      BY <2>1, <2>3, RowEdits, RowFields
    <3>2. \A g \in Files : file'[g] = IF g = f THEN r ELSE file[g]
      BY <1>6, <2>1, <2>3, <3>1, FileMoves DEF ClaimWrite
    <3>3. Keep(f) /\ saved \subseteq saved' /\ purger' = purger
      BY <1>6, <2>1, <2>3, KeepHistory DEF ClaimWrite
    <3> HIDE DEF r
    <3>4. \A g \in Files : Spares(g)
      BY <2>3, <3>1, <3>2, <3>3, SparesSame, SparesKept DEF Exists
    <3> QED
      BY <3>3, <3>4
  <2> QED
    BY <2>2, <2>3
<1>7. ASSUME ExtendWrite(o) PROVE Goal
  <2> DEFINE f == op[o].file
             r == [file[f] EXCEPT !.ttl = "running"]
  <2>1. f \in Files
    BY <1>7, OpRuns DEF ExtendWrite, At, Running
  <2>2. CASE ~(Exists(f) /\ file[f].ttl # "none")
    BY <1>7, <2>2, SparesSame DEF ExtendWrite
  <2>3. CASE Exists(f) /\ file[f].ttl # "none"
    <3>1. FileOK(r) /\ r.status = file[f].status
      BY <2>1, <2>3, RowEdits, RowFields
    <3>2. \A g \in Files : file'[g] = IF g = f THEN r ELSE file[g]
      BY <1>7, <2>1, <2>3, <3>1, FileMoves DEF ExtendWrite
    <3>3. Keep(f) /\ saved \subseteq saved' /\ purger' = purger
      BY <1>7, <2>1, <2>3, KeepHistory DEF ExtendWrite
    <3> HIDE DEF r
    <3>4. \A g \in Files : Spares(g)
      BY <2>3, <3>1, <3>2, <3>3, SparesSame, SparesKept DEF Exists
    <3> QED
      BY <3>3, <3>4
  <2> QED
    BY <2>2, <2>3
<1> QED
  BY <1>1, <1>2, <1>3, <1>4, <1>5, <1>6, <1>7
     DEF Request, PutCheck, PutRecord, CommitRead, ThumbRead, ThumbRow, TrashRead,
         TrashUnshare, RestoreRead, ShareRead, ShareWrite, ClaimRead, ExtendRead,
         OpFails

(* So does every other step that is not a purge's; a crash ends the purges.*)
LEMMA OtherSpares ==
    ASSUME TypeInv, NEW f \in Files,
           \/ InitUpload(f) \/ TrashWithFolder(f)
           \/ HourPasses \/ MonthPasses \/ Crash \/ UNCHANGED vars
    PROVE  /\ purger' = purger \/ purger' = [p \in Purgers |-> Resting]
           /\ \A g \in Files : Spares(g)
<1>1. CASE UNCHANGED <<file, saved>>
  BY <1>1, SparesSame DEF InitUpload, TrashWithFolder, HourPasses, MonthPasses,
                          Crash, vars
<1>2. ASSUME InitUpload(f) PROVE purger' = purger /\ \A g \in Files : Spares(g)
  <2>1. FileOK(NewFile(f))
    BY UploaderKnown DEF NewFile, FileOK, FileRows, Statuses
  <2>2. \A g \in Files : file'[g] = IF g = f THEN NewFile(f) ELSE file[g]
    BY <1>2, <2>1, FileMoves DEF InitUpload
  <2>3. Spares(f)
    BY <1>2, <2>2 DEF InitUpload, Spares, Prey, Exists, NewFile
  <2> QED
    BY <1>2, <2>2, <2>3, SparesSame DEF InitUpload
<1>3. ASSUME TrashWithFolder(f) PROVE purger' = purger /\ \A g \in Files : Spares(g)
  <2> DEFINE r == [file[f] EXCEPT !.trash = "recent"]
  <2>1. FileOK(r) /\ r.status = file[f].status /\ r.trash = "recent"
    BY <1>3, RowEdits, RowFields, TrashFields DEF TrashWithFolder
  <2>2. \A g \in Files : file'[g] = IF g = f THEN r ELSE file[g]
    BY <1>3, <2>1, FileMoves DEF TrashWithFolder
  <2> HIDE DEF r
  <2> QED
    BY <1>3, <2>1, <2>2, SparesSame, SparesKept DEF TrashWithFolder, Exists
<1>4. ASSUME MonthPasses PROVE purger' = purger /\ \A g \in Files : Spares(g)
  <2>1. \A g \in Files :
           /\ file'[g].status = file[g].status
           /\ file[g].trash # "out" => file'[g].trash # "out"
           /\ file[g].ttl = "over" => file'[g].ttl = "over"
    BY <1>4, MonthRows, OlderRow DEF TypeInv, FilesOK
  <2>2. saved' = saved /\ purger' = purger
    BY <1>4 DEF MonthPasses
  <2> QED
    BY <2>1, <2>2 DEF Spares, Prey, Exists, Trashed
<1> QED
  BY <1>1, <1>2, <1>3, <1>4
     DEF InitUpload, TrashWithFolder, HourPasses, MonthPasses, Crash, vars

(* A purge takes up only what is due ...                                   *)
LEMMA PurgeHunts ==
    ASSUME TypeInv, Hunted, NEW p \in Purgers, Purge(p) \/ PurgeFails(p)
    PROVE  Hunted'
<1>1. CASE PurgeSelect(p)
  <2>1. PICK S \in SUBSET Files :
           /\ Selects(p, S)
           /\ purger' = [purger EXCEPT ![p] = Queued({<<f, file[f].owner>> : f \in S})]
    BY <1>1 DEF PurgeSelect
  <2>2. p # "stale" => \A f \in S : Prey(f)
    BY <2>1, ConstantsAssumption
       DEF Selects, Expired, InTrash, OldTrash, Trashed, Sweeps, Prey
  <2>3. /\ purger'[p] = Queued({<<f, file[f].owner>> : f \in S})
        /\ \A q \in Purgers : q # p => purger'[q] = purger[q]
    BY <2>1 DEF TypeInv, PurgersOK
  <2>4. \A f \in Files : Doomed(f)' => Doomed(f) \/ (p # "stale" /\ f \in S)
    BY <2>3, ConstantsAssumption DEF Doomed, Queued
  <2> QED
    BY <1>1, <2>2, <2>4 DEF PurgeSelect, Hunted, Prey, Exists, Trashed
<1>2. CASE PurgeSkip(p)
  <2>1. PICK e \in purger[p].queue : purger' = [purger EXCEPT ![p] = Queued(@.queue \ {e})]
    BY <1>2 DEF PurgeSkip
  <2>2. /\ purger'[p] = Queued(purger[p].queue \ {e})
        /\ \A q \in Purgers : q # p => purger'[q] = purger[q]
    BY <2>1 DEF TypeInv, PurgersOK
  <2>3. \A f \in Files : Doomed(f)' => Doomed(f)
    BY <2>2, ConstantsAssumption DEF Doomed, Queued
  <2> QED
    BY <1>2, <2>3 DEF PurgeSkip, Hunted, Prey, Exists, Trashed
<1>3. CASE PurgeList(p)
  <2>1. PICK e \in purger[p].queue :
           /\ ~Skips(p, e[1])
           /\ purger' = [purger EXCEPT ![p] =
                [pc |-> "delete", queue |-> @.queue \ {e}, file |-> e[1],
                 list |-> {part \in Parts : row[e[1]][part] = e[2]}]]
    BY <1>3 DEF PurgeList
  <2>2. /\ purger'[p].queue = purger[p].queue \ {e} /\ purger'[p].file = e[1]
        /\ \A q \in Purgers : q # p => purger'[q] = purger[q]
    BY <2>1 DEF TypeInv, PurgersOK
  <2>3. \A f \in Files : Doomed(f)' => Doomed(f) \/ (f = e[1] /\ p = "stale")
    BY <2>2 DEF Doomed
  <2>4. p = "stale" => Prey(e[1])
    BY <2>1 DEF Skips, Prey
  <2> QED
    BY <1>3, <2>3, <2>4 DEF PurgeList, Hunted, Prey, Exists, Trashed
<1>4. ASSUME PurgeNext(p) \/ purger' = [purger EXCEPT ![p] = Resting], NEW f \in Files
      PROVE  Doomed(f)' => Doomed(f)
  <2>1. /\ purger'[p] \in {Queued(purger[p].queue), Resting}
        /\ \A q \in Purgers : q # p => purger'[q] = purger[q]
    BY <1>4 DEF PurgeNext, TypeInv, PurgersOK
  <2> QED
    BY <2>1, ConstantsAssumption DEF Doomed, Queued, Resting
<1>5. CASE PurgeCommit(p)
  <2> DEFINE f == purger[p].file
  <2>1. f \in Files /\ FileOK(Removed(f))
    <3>1. f \in Files
      BY <1>5, PurgeRecord DEF PurgeCommit, Purging
    <3> QED
      BY <3>1 DEF TypeInv, FilesOK, FileOK, FileRows, Statuses, Removed
  <2>2. \A g \in Files : file'[g] = IF g = f THEN Removed(f) ELSE file[g]
    BY <1>5, <2>1, FileMoves, ZenonT(60) DEF PurgeCommit
  <2>3. \A g \in Files : g # f /\ g \in saved => g \in saved'
    BY <1>5 DEF PurgeCommit
  <2>4. ASSUME NEW g \in Files, Doomed(g)' PROVE Prey(g)'
    <3>1. CASE g = f
      BY <2>2, <3>1 DEF Prey, Exists, Removed
    <3>2. CASE g # f
      <4>1. Prey(g)
        BY <1>4, <1>5, <2>4 DEF PurgeCommit, Hunted
      <4> QED
        BY <2>2, <2>3, <3>2, <4>1 DEF Prey, Exists, Trashed
    <3> QED
      BY <3>1, <3>2
  <2> QED
    BY <2>4 DEF Hunted
<1>6. CASE PurgeGone(p) \/ PurgeEnd(p) \/ PurgeFails(p)
  <2>1. \A f \in Files : Doomed(f)' => Doomed(f)
    BY <1>4, <1>6 DEF PurgeGone, PurgeEnd, PurgeFails, PurgeThrows
  <2> QED
    BY <1>6, <2>1 DEF PurgeGone, PurgeEnd, PurgeFails, Hunted, Prey, Exists, Trashed
<1> QED
  BY <1>1, <1>2, <1>3, <1>5, <1>6 DEF Purge

LEMMA HuntedInit == Init => Hunted
BY ConstantsAssumption DEF Init, Hunted, Doomed, Resting

LEMMA HuntedNext ==
    ASSUME TypeInv, Hunted, [Next]_vars
    PROVE  Hunted'
<1>1. ASSUME purger' = purger \/ purger' = [p \in Purgers |-> Resting],
             \A f \in Files : Spares(f)
      PROVE  Hunted'
  <2>1. \A f \in Files : Doomed(f)' => Doomed(f)
    BY <1>1, ConstantsAssumption DEF Doomed, Resting
  <2> QED
    BY <1>1, <2>1 DEF Hunted, Spares
<1>2. ASSUME NEW o \in Ops, Request(o) PROVE Hunted'
  BY <1>1, <1>2, RequestSpares
<1>3. CASE HourPasses \/ MonthPasses \/ Crash \/ UNCHANGED vars
  <2>1. CASE Files = {}
    BY <2>1 DEF Hunted
  <2>2. CASE Files # {}
    BY <1>1, <1>3, <2>2, OtherSpares
  <2> QED
    BY <2>1, <2>2
<1>4. ASSUME NEW f \in Files, InitUpload(f) \/ TrashWithFolder(f) PROVE Hunted'
  BY <1>1, <1>4, OtherSpares
<1> QED
  BY <1>2, <1>3, <1>4, PurgeHunts DEF Next

(* ... and removes nothing else.                                           *)
LEMMA OnlyPurged ==
    ASSUME TypeInv, Hunted, [Next]_vars, NEW f \in Files, Exists(f),
           file'[f].status = "gone"
    PROVE  Prey(f)
<1>1. PICK p \in Purgers : Purge(p) \/ PurgeFails(p)
  <2>1. ASSUME NEW o \in Ops, Request(o) PROVE FALSE
    BY <2>1, RequestSpares DEF Spares
  <2>2. ASSUME NEW g \in Files, InitUpload(g) \/ TrashWithFolder(g) PROVE FALSE
    BY <2>2, OtherSpares DEF Spares
  <2>3. ~(HourPasses \/ MonthPasses \/ Crash \/ UNCHANGED vars)
    BY OtherSpares DEF Spares
  <2> QED
    BY <2>1, <2>2, <2>3 DEF Next
<1>2. CASE PurgeCommit(p)
  <2>1. purger[p].file \in Files
    BY <1>2, PurgeRecord DEF PurgeCommit, Purging
  <2>2. f = purger[p].file
    BY <1>2, <2>1 DEF PurgeCommit, TypeInv, FilesOK, Exists
  <2> QED
    BY <2>2 DEF Hunted, Doomed
<1>3. CASE UNCHANGED file
  BY <1>3 DEF Exists
<1> QED
  BY <1>1, <1>2, <1>3 DEF Purge, PurgeSelect, PurgeSkip, PurgeList, PurgeGone,
                          PurgeEnd, PurgeFails

(* No purge removes a file that is not due, unless it came to be kept      *)
(* after the last time that purge looks at it.                             *)
THEOREM OnlyDue == Spec => OnlyDueFilesPurged
<1> DEFINE Due1 == \A f \in Files : Exists(f) /\ file'[f].status = "gone" =>
          \/ Trashed(f) \/ file[f].status = "uploading" \/ file[f].ttl = "over"
          \/ f \in saved
<1>1. TypeInv /\ Hunted /\ [Next]_vars => [Due1]_vars
  BY OnlyPurged DEF Prey
<1> QED
  BY <1>1, TypeInvInit, TypeInvNext, HuntedInit, HuntedNext, PTL
     DEF Spec, OnlyDueFilesPurged

-----------------------------------------------------------------------------
(* What a purge leaves behind.  Blob rows keep the owner they were written *)
(* with, while a claim changes the owner of the File row.                  *)

(* A part of f that a purge of f by its owner need not take, or no longer  *)
(* can.                                                                    *)
Spared(f, part) ==
    row[f][part] = None \/ <<f, part>> \in late \/ file[f].owner # Uploader(f)

OwnersKnown ==
    \A f \in Files :
        /\ file[f].status # "none" => file[f].owner \in {Uploader(f), "user"}
        /\ \A part \in Parts : row[f][part] \in {None, Uploader(f)}

WritersKnown ==
    \A o \in Ops : op[o].pc \in {"put", "commit", "thumbRow"} =>
        op[o].owner = Uploader(op[o].file)

(* An owner a purge read may be out of date, but only after a claim.       *)
Lines ==
    \A p \in Purgers :
        /\ \A e \in purger[p].queue :
             /\ file[e[1]].status # "none"
             /\ e[2] # Uploader(e[1]) => file[e[1]].owner # Uploader(e[1])
        /\ purger[p].pc = "delete" =>
             /\ file[purger[p].file].status # "none"
             /\ \A part \in Parts \ purger[p].list : Spared(purger[p].file, part)

Buried == \A f \in Files : file[f].status = "gone" =>
             \A part \in Parts : Spared(f, part)

Swept == OwnersKnown /\ WritersKnown /\ Lines /\ Buried

LEMMA SweptInit == Init => Swept
BY ConstantsAssumption
   DEF Init, Swept, OwnersKnown, WritersKnown, Lines, Buried, Absent, Idle, Resting

LEMMA SweptLate == TypeInv /\ Swept => LeftoversAreLate
<1> SUFFICES ASSUME TypeInv, Swept, NEW f \in Files, file[f].status = "gone",
                    NEW part \in Parts
             PROVE  row[f][part] \in {None} \cup (Owners \ {file[f].owner})
                    \/ <<f, part>> \in late
  BY DEF LeftoversAreLate
<1>1. Spared(f, part) /\ row[f][part] \in {None, Uploader(f)}
  BY DEF Swept, Buried, OwnersKnown
<1> QED
  BY <1>1, UploaderKnown DEF Spared

(* How a step that is not a purge's may treat a file.                      *)
Ages(f) ==
    /\ file[f].status # "none" => file'[f].status # "none"
    /\ file'[f].status = "gone" => file[f].status = "gone"
    /\ file[f].status # "none" /\ file[f].owner # Uploader(f) =>
         file'[f].owner # Uploader(f)
    /\ file'[f].status # "none" => file'[f].owner \in {Uploader(f), "user"}
    /\ \A part \in Parts : row'[f][part] \in {None, Uploader(f)}
    /\ Listed(f) => \A part \in Parts : row'[f][part] = row[f][part]
                                        \/ <<f, part>> \in late'
    /\ \A part \in Parts : <<f, part>> \in late => <<f, part>> \in late'

LEMMA AgesSame ==
    ASSUME Swept, NEW f \in Files, file'[f] = file[f], row' = row, late' = late
    PROVE  Ages(f)
BY DEF Ages, Swept, OwnersKnown

LEMMA AgesEdit ==
    ASSUME Swept, NEW f \in Files, Exists(f), file'[f].status \in {"uploading", "ready"},
           file'[f].owner \in {file[f].owner, "user"}, row' = row, late' = late
    PROVE  Ages(f)
<1>1. file[f].owner # Uploader(f) => file'[f].owner # Uploader(f)
  BY DEF Swept, OwnersKnown, Exists
<1> QED
  BY <1>1 DEF Ages, Swept, OwnersKnown, Exists

LEMMA SparedKept ==
    ASSUME NEW f \in Files, NEW part \in Parts, Ages(f), Listed(f),
           file[f].status # "none", Spared(f, part)
    PROVE  Spared(f, part)'
BY DEF Spared, Ages, Uploader

LEMMA AgesSwept ==
    ASSUME TypeInv, Swept, \A f \in Files : Ages(f), WritersKnown',
           purger' = purger \/ purger' = [p \in Purgers |-> Resting]
    PROVE  Swept'
<1>1. OwnersKnown'
  BY DEF OwnersKnown, Ages, Uploader
<1>2. Buried'
  <2> SUFFICES ASSUME NEW f \in Files, file'[f].status = "gone", NEW part \in Parts
               PROVE  Spared(f, part)'
    BY DEF Buried
  <2>1. file[f].status = "gone" /\ Ages(f) /\ Listed(f)
    BY DEF Ages, Listed
  <2> QED
    BY <2>1, SparedKept DEF Swept, Buried
<1>3. CASE purger' = [p \in Purgers |-> Resting]
  <2>1. Lines'
    BY <1>3 DEF Lines, Resting
  <2> QED
    BY <1>1, <1>2, <2>1 DEF Swept
<1>4. CASE purger' = purger
  <2>1. ASSUME NEW p \in Purgers, NEW e \in purger[p].queue
        PROVE  /\ file'[e[1]].status # "none"
               /\ e[2] # Uploader(e[1]) => file'[e[1]].owner # Uploader(e[1])
    <3>1. e[1] \in Files
      BY PurgeRecord
    <3> QED
      BY <3>1 DEF Swept, Lines, Ages
  <2>2. ASSUME NEW p \in Purgers, purger[p].pc = "delete", NEW f \in Files,
               f = purger[p].file
        PROVE  /\ file'[f].status # "none"
               /\ \A part \in Parts \ purger[p].list : Spared(f, part)'
    <3>1. Listed(f)
      BY <2>2 DEF Listed
    <3> QED
      BY <2>2, <3>1, SparedKept DEF Swept, Lines, Ages
  <2>3. Lines'
    <3> SUFFICES ASSUME NEW p \in Purgers PROVE
            /\ \A e \in purger[p].queue :
                 /\ file'[e[1]].status # "none"
                 /\ e[2] # Uploader(e[1]) => file'[e[1]].owner # Uploader(e[1])
            /\ purger[p].pc = "delete" =>
                 /\ file'[purger[p].file].status # "none"
                 /\ \A part \in Parts \ purger[p].list : Spared(purger[p].file, part)'
      BY <1>4 DEF Lines, Uploader, Spared
    <3>1. purger[p].pc = "delete" => purger[p].file \in Files
      BY PurgeRecord DEF Purging
    <3> QED
      BY <1>4, <2>1, <2>2, <3>1 DEF Spared
  <2> QED
    BY <1>1, <1>2, <2>3 DEF Swept
<1> QED
  BY <1>3, <1>4

(* The fields a claim changes, and those the other edits do not.           *)
LEMMA OwnerFields ==
    ASSUME TypeInv, NEW f \in Files
    PROVE  /\ [file[f] EXCEPT !.status = "ready"].owner = file[f].owner
           /\ [file[f] EXCEPT !.thumb = "thumb"].owner = file[f].owner
           /\ \A t \in {"recent", "out"} : [file[f] EXCEPT !.trash = t].owner = file[f].owner
           /\ [[file[f] EXCEPT !.owner = "user"] EXCEPT !.ttl = "none"].owner = "user"
           /\ [file[f] EXCEPT !.ttl = "running"].owner = file[f].owner
<1>1. PICK s \in Statuses, w \in Owners \cup {None}, t \in {"out", "recent", "old"},
           l \in {"none", "running", "over"}, b \in {None, "thumb"} :
         file[f] = [status |-> s, owner |-> w, trash |-> t, ttl |-> l, thumb |-> b]
  BY DEF TypeInv, FilesOK, FileRows
<1> DEFINE r == [file[f] EXCEPT !.owner = "user"]
<1>2. r = [status |-> s, owner |-> "user", trash |-> t, ttl |-> l, thumb |-> b]
  BY <1>1
<1> HIDE DEF r
<1>3. [r EXCEPT !.ttl = "none"].owner = "user"
  BY <1>2
<1>4. /\ [file[f] EXCEPT !.status = "ready"].owner = file[f].owner
      /\ [file[f] EXCEPT !.thumb = "thumb"].owner = file[f].owner
      /\ \A u \in {"recent", "out"} : [file[f] EXCEPT !.trash = u].owner = file[f].owner
      /\ [file[f] EXCEPT !.ttl = "running"].owner = file[f].owner
  BY <1>1
<1> QED
  BY <1>3, <1>4 DEF r

(* Rows are written for the owner the uploads run for.                     *)
LEMMA WriteAges ==
    ASSUME TypeInv, Swept, NEW f \in Files, NEW parts \in SUBSET Parts,
           NEW owner \in [Parts -> Owners \cup {None}],
           \A p \in Parts : owner[p] = Uploader(f),
           Write(f, parts, owner)
    PROVE  /\ late \subseteq late'
           /\ \A g \in Files, p \in Parts : row'[g][p] \in {None, Uploader(g)}
           /\ \A g \in Files, p \in Parts : g # f => row'[g][p] = row[g][p]
           /\ Listed(f) => \A p \in Parts : row'[f][p] = row[f][p] \/ <<f, p>> \in late'
<1>1. late \subseteq late'
  BY WriteRows
<1>2. \A g \in Files, p \in Parts : row'[g][p] =
         IF g = f /\ p \in parts THEN owner[p] ELSE row[g][p]
  BY WriteRows
<1>3. Listed(f) => \A p \in Parts : row'[f][p] = row[f][p] \/ <<f, p>> \in late'
  BY WriteRows
<1> QED
  BY <1>1, <1>2, <1>3 DEF Swept, OwnersKnown

LEMMA WriteSwept ==
    ASSUME TypeInv, Swept, NEW f \in Files, NEW parts \in SUBSET Parts,
           NEW owner \in [Parts -> Owners \cup {None}],
           \A p \in Parts : owner[p] = Uploader(f),
           Write(f, parts, owner),
           \A g \in Files : g # f => file'[g] = file[g],
           \/ file'[f] = file[f]
           \/ Exists(f) /\ file'[f].status = "ready" /\ file'[f].owner = file[f].owner
    PROVE  \A g \in Files : Ages(g)
<1> SUFFICES ASSUME NEW g \in Files PROVE Ages(g)
  OBVIOUS
<1>1. /\ late \subseteq late'
      /\ \A p \in Parts : row'[g][p] \in {None, Uploader(g)}
      /\ Listed(g) => \A p \in Parts : row'[g][p] = row[g][p] \/ <<g, p>> \in late'
  BY WriteAges
<1>2. file[g].status # "none" => file[g].owner \in {Uploader(g), "user"}
  BY DEF Swept, OwnersKnown
<1>3. file'[g] = file[g] \/ (/\ file[g].status \in {"uploading", "ready"}
                            /\ file'[g].status = "ready"
                            /\ file'[g].owner = file[g].owner)
  BY DEF Exists
<1> QED
  BY <1>1, <1>2, <1>3 DEF Ages

(* A request is started, moved on or ended.                                *)
LEMMA SetWriters ==
    ASSUME TypeInv, Swept, NEW o \in Ops, NEW pc \in Steps, NEW f \in Files,
           NEW part \in Parts \cup {None}, NEW owner \in Owners,
           pc = "put" => part \in Chunks, Set(o, pc, f, part, owner),
           pc \in {"put", "commit", "thumbRow"} => owner = Uploader(f)
    PROVE  WritersKnown'
<1>1. \A q \in Ops : op'[q] = IF q = o
         THEN [pc |-> pc, file |-> f, part |-> part, owner |-> owner] ELSE op[q]
  BY SetMoves
<1> QED
  BY <1>1 DEF WritersKnown, Swept, Uploader

LEMMA GotoWriters ==
    ASSUME TypeInv, Swept, NEW o \in Ops, op[o].pc # "idle",
           NEW pc \in Steps \ {"put", "commit", "thumbRow"}, Goto(o, pc)
    PROVE  WritersKnown'
<1>1. \A q \in Ops : op'[q] = IF q = o
         THEN [pc |-> pc, file |-> op[o].file, part |-> op[o].part,
               owner |-> op[o].owner] ELSE op[q]
  BY GotoMoves
<1> QED
  BY <1>1 DEF WritersKnown, Swept, Uploader

LEMMA DoneWriters ==
    ASSUME TypeInv, Swept, NEW o \in Ops, Done(o)
    PROVE  WritersKnown'
<1>1. \A q \in Ops : op'[q] = IF q = o THEN Idle ELSE op[q]
  BY DoneMoves
<1> QED
  BY <1>1 DEF WritersKnown, Swept, Uploader, Idle

LEMMA RequestSwept ==
    ASSUME TypeInv, Swept, NEW o \in Ops, Request(o)
    PROVE  WritersKnown' /\ \A g \in Files : Ages(g)
<1> DEFINE Goal == WritersKnown' /\ \A g \in Files : Ages(g)
<1>2. ASSUME UNCHANGED <<file, row, late>> PROVE \A g \in Files : Ages(g)
  BY <1>2, AgesSame
<1>4. ASSUME NEW f \in Files, NEW part \in Chunks, PutCheck(o, f, part) PROVE Goal
  BY <1>2, <1>4, SetWriters, UploaderKnown DEF PutCheck, Steps, Parts
<1>5. ASSUME NEW f \in Files, CommitRead(o, f) PROVE Goal
  BY <1>2, <1>5, SetWriters, UploaderKnown DEF CommitRead, Steps
<1>6. ASSUME NEW f \in Files, TrashRead(o, f) PROVE Goal
  <2>1. file[f].owner \in Owners
    BY <1>6 DEF TrashRead, Exists, TypeInv, FilesOK, FileOK
  <2> QED
    BY <1>2, <1>6, <2>1, SetWriters DEF TrashRead, Steps
<1>7. ASSUME NEW f \in Files, RestoreRead(o, f) PROVE Goal
  BY <1>2, <1>7, SetWriters DEF RestoreRead, Steps, Owners
<1>8. ASSUME NEW f \in Files, ShareRead(o, f) PROVE Goal
  <2>1. file[f].owner \in Owners
    BY <1>8 DEF ShareRead, TypeInv, FilesOK, FileOK
  <2> QED
    BY <1>2, <1>8, <2>1, SetWriters DEF ShareRead, Steps
<1>9. ASSUME NEW f \in Files, ClaimRead(o, f) PROVE Goal
  BY <1>2, <1>9, SetWriters DEF ClaimRead, Steps, Owners
<1>10. ASSUME PutRecord(o) PROVE Goal
  <2> DEFINE f == op[o].file
             w == [p \in Parts |-> op[o].owner]
  <2>1. op[o] \in Running /\ op[o].part \in Chunks /\ f \in Files
    BY <1>10, OpRuns DEF PutRecord, At, Running
  <2>2. op[o].owner = Uploader(f)
    BY <1>10 DEF PutRecord, At, Swept, WritersKnown
  <2>3. /\ w \in [Parts -> Owners] /\ {op[o].part} \in SUBSET Parts
        /\ \A p \in Parts : w[p] = Uploader(f)
    BY <2>1, <2>2 DEF Running, Parts
  <2>4. Write(f, {op[o].part}, w)
    BY <1>10 DEF PutRecord
  <2> HIDE DEF w
  <2>5. \A g \in Files : Ages(g)
    BY <1>10, <2>1, <2>3, <2>4, WriteSwept DEF PutRecord
  <2> QED
    BY DoneWriters, <1>10, <2>5 DEF PutRecord
<1>11. ASSUME CommitWrite(o) PROVE Goal
  <2> DEFINE f == op[o].file
             r == [file[f] EXCEPT !.status = "ready"]
             w == [p \in Parts |-> IF row[f][p] = None THEN op[o].owner ELSE row[f][p]]
  <2>1. op[o] \in Running /\ f \in Files
    BY <1>11, OpRuns DEF CommitWrite, At, Running
  <2>2. CASE ~Exists(f)
    BY <1>2, DoneWriters, <1>11, <2>2 DEF CommitWrite
  <2>3. CASE Exists(f)
    <3>1. op[o].owner = Uploader(f)
      BY <1>11 DEF CommitWrite, At, Swept, WritersKnown
    <3>2. /\ w \in [Parts -> Owners] /\ Chunks \in SUBSET Parts
          /\ \A p \in Parts : w[p] = Uploader(f)
      BY <2>1, <3>1, UploaderKnown DEF Swept, OwnersKnown, Parts
    <3>3. Write(f, Chunks, w)
      BY <1>11, <2>3 DEF CommitWrite
    <3>4. FileOK(r) /\ r.status = "ready" /\ r.owner = file[f].owner
      BY <2>1, <2>3, RowEdits, RowFields, OwnerFields
    <3>5. \A g \in Files : file'[g] = IF g = f THEN r ELSE file[g]
      BY <1>11, <2>1, <2>3, <3>4, FileMoves DEF CommitWrite
    <3> HIDE DEF r, w
    <3>6. \A g \in Files : Ages(g)
      BY <2>1, <2>3, <3>2, <3>3, <3>4, <3>5, WriteSwept
    <3>7. WritersKnown'
      BY <1>11, <2>3, GotoWriters DEF CommitWrite, At, Steps
    <3> QED
      BY <3>6, <3>7
  <2> QED
    BY <2>2, <2>3
<1>12. ASSUME ThumbRead(o) PROVE Goal
  <2> DEFINE f == op[o].file
  <2>1. op[o] \in Running /\ f \in Files
    BY <1>12, OpRuns DEF ThumbRead, At, Running
  <2>2. CASE Done(o)
    BY <1>2, DoneWriters, <1>12, <2>2 DEF ThumbRead
  <2>3. CASE /\ file[f].status = "ready"
             /\ \A c \in Chunks : row[f][c] = file[f].owner
             /\ Set(o, "thumbRow", f, "thumb", file[f].owner)
    <3>1. file[f].owner \in Owners
      BY <2>1, <2>3 DEF TypeInv, FilesOK, FileOK
    <3>2. file[f].owner = Uploader(f)
      BY <2>1, <2>3, <3>1, ConstantsAssumption DEF Swept, OwnersKnown, Parts
    <3>3. WritersKnown'
      BY <2>1, <2>3, <3>1, <3>2, SetWriters DEF Steps, Parts
    <3> QED
      BY <1>2, <1>12, <3>3 DEF ThumbRead
  <2> QED
    BY <1>12, <2>2, <2>3 DEF ThumbRead
<1>13. ASSUME ThumbRow(o) PROVE Goal
  <2> DEFINE f == op[o].file
             w == [p \in Parts |-> IF row[f]["thumb"] = None THEN op[o].owner
                                   ELSE row[f]["thumb"]]
  <2>1. op[o] \in Running /\ f \in Files
    BY <1>13, OpRuns DEF ThumbRow, At, Running
  <2>2. op[o].owner = Uploader(f)
    BY <1>13 DEF ThumbRow, At, Swept, WritersKnown
  <2>3. /\ w \in [Parts -> Owners] /\ {"thumb"} \in SUBSET Parts
        /\ \A p \in Parts : w[p] = Uploader(f)
    BY <2>1, <2>2, UploaderKnown DEF Swept, OwnersKnown, Parts
  <2>4. Write(f, {"thumb"}, w)
    BY <1>13 DEF ThumbRow
  <2> HIDE DEF w
  <2>5. \A g \in Files : Ages(g)
    BY <1>13, <2>1, <2>3, <2>4, WriteSwept DEF ThumbRow
  <2>6. WritersKnown'
    BY <1>13, GotoWriters DEF ThumbRow, At, Steps
  <2> QED
    BY <2>5, <2>6
<1>14. ASSUME NEW f \in Files, NEW r, FileOK(r), Exists(f), r.status = file[f].status,
              r.owner \in {file[f].owner, "user"}, UNCHANGED <<row, late>>,
              file' = [file EXCEPT ![f] = r]
       PROVE  \A g \in Files : Ages(g)
  <2>1. \A g \in Files : file'[g] = IF g = f THEN r ELSE file[g]
    BY <1>14, FileMoves
  <2> QED
    BY <1>14, <2>1, AgesSame, AgesEdit DEF Exists
<1>15. ASSUME ThumbFile(o) PROVE Goal
  <2>1. op[o].file \in Files
    BY <1>15, OpRuns DEF ThumbFile, At, Running
  <2>2. \A g \in Files : Ages(g)
    BY <1>2, <1>14, <1>15, <2>1, RowEdits, RowFields, OwnerFields DEF ThumbFile
  <2> QED
    BY DoneWriters, <1>15, <2>2 DEF ThumbFile
<1>16. ASSUME TrashWrite(o) PROVE Goal
  <2>1. op[o].file \in Files
    BY <1>16, OpRuns DEF TrashWrite, At, Running
  <2>2. \A g \in Files : Ages(g)
    BY <1>2, <1>14, <1>16, <2>1, RowEdits, RowFields, OwnerFields DEF TrashWrite
  <2>3. WritersKnown'
    BY <1>16, GotoWriters, DoneWriters DEF TrashWrite, At, Steps
  <2> QED
    BY <2>2, <2>3
<1>17. ASSUME RestoreWrite(o) PROVE Goal
  <2>1. op[o].file \in Files
    BY <1>17, OpRuns DEF RestoreWrite, At, Running
  <2>2. \A g \in Files : Ages(g)
    BY <1>2, <1>14, <1>17, <2>1, RowEdits, RowFields, OwnerFields DEF RestoreWrite
  <2> QED
    BY DoneWriters, <1>17, <2>2 DEF RestoreWrite
<1>18. ASSUME ClaimWrite(o) PROVE Goal
  <2>1. op[o].file \in Files
    BY <1>18, OpRuns DEF ClaimWrite, At, Running
  <2>2. \A g \in Files : Ages(g)
    BY <1>2, <1>14, <1>18, <2>1, RowEdits, RowFields, OwnerFields DEF ClaimWrite
  <2> QED
    BY DoneWriters, <1>18, <2>2 DEF ClaimWrite
<1>19. CASE TrashUnshare(o) \/ ShareWrite(o) \/ OpFails(o)
  BY <1>2, DoneWriters, <1>19 DEF TrashUnshare, ShareWrite, OpFails
<1>20. ASSUME NEW f \in Files, ExtendRead(o, f) PROVE Goal
  BY <1>2, <1>20, SetWriters DEF ExtendRead, Steps, Owners
<1>21. ASSUME ExtendWrite(o) PROVE Goal
  <2>1. op[o].file \in Files
    BY <1>21, OpRuns DEF ExtendWrite, At, Running
  <2>2. \A g \in Files : Ages(g)
    BY <1>2, <1>14, <1>21, <2>1, RowEdits, RowFields, OwnerFields DEF ExtendWrite
  <2> QED
    BY DoneWriters, <1>21, <2>2 DEF ExtendWrite
<1> QED
  BY <1>4, <1>5, <1>6, <1>7, <1>8, <1>9, <1>10, <1>11, <1>12, <1>13, <1>15, <1>16,
     <1>17, <1>18, <1>19, <1>20, <1>21 DEF Request

(* The other steps outside the purges.                                     *)
LEMMA OtherSwept ==
    ASSUME TypeInv, Swept, NEW f \in Files,
           \/ InitUpload(f) \/ TrashWithFolder(f)
           \/ HourPasses \/ MonthPasses \/ Crash \/ UNCHANGED vars
    PROVE  WritersKnown' /\ \A g \in Files : Ages(g)
<1>1. WritersKnown'
  <2>1. CASE op' = op
    BY <2>1 DEF Swept, WritersKnown, Uploader
  <2>2. CASE Crash
    BY <2>2 DEF Crash, WritersKnown, Idle
  <2> QED
    BY <2>1, <2>2 DEF InitUpload, TrashWithFolder, HourPasses, MonthPasses, vars
<1>2. CASE UNCHANGED <<file, row, late>>
  BY <1>1, <1>2, AgesSame
<1>3. CASE InitUpload(f)
  <2>1. FileOK(NewFile(f))
    BY UploaderKnown DEF NewFile, FileOK, FileRows, Statuses
  <2>2. \A g \in Files : file'[g] = IF g = f THEN NewFile(f) ELSE file[g]
    BY <1>3, <2>1, FileMoves DEF InitUpload
  <2>3. Ages(f)
    BY <1>3, <2>2 DEF InitUpload, Ages, NewFile, Swept, OwnersKnown
  <2> QED
    BY <1>1, <1>3, <2>2, <2>3, AgesSame DEF InitUpload
<1>4. CASE TrashWithFolder(f)
  <2> DEFINE r == [file[f] EXCEPT !.trash = "recent"]
  <2>1. FileOK(r) /\ r.status = file[f].status /\ r.owner = file[f].owner
    BY <1>4, RowEdits, RowFields, OwnerFields DEF TrashWithFolder
  <2>2. \A g \in Files : file'[g] = IF g = f THEN r ELSE file[g]
    BY <1>4, <2>1, FileMoves DEF TrashWithFolder
  <2> HIDE DEF r
  <2> QED
    BY <1>1, <1>4, <2>1, <2>2, AgesSame, AgesEdit DEF TrashWithFolder, Exists
<1>5. CASE MonthPasses
  <2>1. \A g \in Files : file'[g].status = file[g].status /\ file'[g].owner = file[g].owner
    BY <1>5, MonthRows, OlderRow DEF TypeInv, FilesOK
  <2> QED
    BY <1>1, <1>5, <2>1 DEF MonthPasses, Ages, Swept, OwnersKnown
<1> QED
  BY <1>2, <1>3, <1>4, <1>5
     DEF HourPasses, Crash, vars

(* A purge changes only the file it removes, and leaves in place only what *)
(* it need not take.                                                       *)
LEMMA RemovalSwept ==
    ASSUME TypeInv, Swept, NEW p \in Purgers, PurgeCommit(p)
    PROVE  Swept'
<1>1. PICK f \in Files : f = purger[p].file
  BY PurgeRecord DEF PurgeCommit, Purging
<1>2. FileOK(Removed(f))
  BY DEF TypeInv, FilesOK, FileOK, FileRows, Statuses, Removed
<1>3. \A g \in Files : file'[g] = IF g = f THEN Removed(f) ELSE file[g]
  BY <1>1, <1>2, FileMoves, ZenonT(60) DEF PurgeCommit
<1>4. \A g \in Files : /\ file'[g].owner = file[g].owner
                       /\ g # f => file'[g].status = file[g].status
                       /\ g = f => file'[g].status = "gone"
  BY <1>3 DEF Removed
<1>5. /\ purger[p] \in Purging /\ purger[p].list \subseteq Parts
      /\ purger[p].pc = "delete" /\ Exists(f)
  BY <1>1, PurgeRecord DEF PurgeCommit, Purging
<1>6. \A g \in Files, part \in Parts :
         row'[g][part] = IF g = f /\ part \in purger[p].list THEN None ELSE row[g][part]
  BY <1>1 DEF PurgeCommit, TypeInv, BlobsOK
<1>7. \A g \in Files, part \in Parts : <<g, part>> \in late =>
         <<g, part>> \in late' \/ (g = f /\ part \in purger[p].list)
  BY <1>1 DEF PurgeCommit
<1>8. ASSUME NEW g \in Files, NEW part \in Parts, Spared(g, part)
      PROVE  Spared(g, part)'
  BY <1>4, <1>6, <1>7, <1>8 DEF Spared, Uploader
<1>9. OwnersKnown'
  BY <1>4, <1>5, <1>6 DEF Swept, OwnersKnown, Exists, Uploader
<1>10. WritersKnown'
  BY DEF PurgeCommit, Swept, WritersKnown, Uploader
<1>11. Buried'
  <2> SUFFICES ASSUME NEW g \in Files, file'[g].status = "gone", NEW part \in Parts
               PROVE  Spared(g, part)'
    BY DEF Buried
  <2>1. CASE g = f /\ part \in purger[p].list
    BY <1>6, <2>1 DEF Spared
  <2>2. CASE g = f /\ part \notin purger[p].list
    BY <1>1, <1>5, <1>8, <2>2 DEF Swept, Lines
  <2>3. CASE g # f
    BY <1>4, <1>8, <2>3 DEF Swept, Buried
  <2> QED
    BY <2>1, <2>2, <2>3
<1>12. Lines'
  <2>1. /\ purger'[p] = Queued(purger[p].queue)
        /\ \A q \in Purgers : q # p => purger'[q] = purger[q]
    BY DEF PurgeCommit, PurgeNext, TypeInv, PurgersOK
  <2>2. ASSUME NEW q \in Purgers, NEW e \in purger[q].queue
        PROVE  /\ file'[e[1]].status # "none"
               /\ e[2] # Uploader(e[1]) => file'[e[1]].owner # Uploader(e[1])
    <3>1. e[1] \in Files
      BY PurgeRecord
    <3> QED
      BY <1>4, <3>1 DEF Swept, Lines
  <2>3. ASSUME NEW q \in Purgers, purger[q].pc = "delete", NEW g \in Files,
               g = purger[q].file
        PROVE  /\ file'[g].status # "none"
               /\ \A part \in Parts \ purger[q].list : Spared(g, part)'
    BY <1>4, <1>8, <2>3 DEF Swept, Lines
  <2> SUFFICES ASSUME NEW q \in Purgers PROVE
          /\ \A e \in purger'[q].queue :
               /\ file'[e[1]].status # "none"
               /\ e[2] # Uploader(e[1]) => file'[e[1]].owner # Uploader(e[1])
          /\ purger'[q].pc = "delete" =>
               /\ file'[purger'[q].file].status # "none"
               /\ \A part \in Parts \ purger'[q].list :
                    \/ row'[purger'[q].file][part] = None
                    \/ <<purger'[q].file, part>> \in late'
                    \/ file'[purger'[q].file].owner # Uploader(purger'[q].file)
    BY DEF Lines, Uploader, Spared
  <2>4. CASE q = p
    BY <2>1, <2>2, <2>4 DEF Queued
  <2>5. CASE q # p
    <3>1. purger[q].pc = "delete" => purger[q].file \in Files
      BY PurgeRecord DEF Purging
    <3> QED
      BY <2>1, <2>2, <2>3, <2>5, <3>1 DEF Spared, Uploader
  <2> QED
    BY <2>4, <2>5
<1> QED
  BY <1>9, <1>10, <1>11, <1>12 DEF Swept

(* The other steps of a purge move it only.                                *)
LEMMA PurgeSwept ==
    ASSUME TypeInv, Swept, NEW p \in Purgers, Purge(p) \/ PurgeFails(p),
           ~PurgeCommit(p)
    PROVE  Swept'
<1> DEFINE Line(r) ==
       /\ \A e \in r.queue :
            /\ file[e[1]].status # "none"
            /\ e[2] # Uploader(e[1]) => file[e[1]].owner # Uploader(e[1])
       /\ r.pc = "delete" =>
            /\ file[r.file].status # "none"
            /\ \A part \in Parts \ r.list : Spared(r.file, part)
<1>1. UNCHANGED <<file, row, late, op>>
  BY DEF Purge, PurgeFails, PurgeSelect, PurgeSkip, PurgeList, PurgeGone, PurgeEnd
<1>2. OwnersKnown' /\ WritersKnown' /\ Buried'
  BY <1>1 DEF Swept, OwnersKnown, WritersKnown, Buried, Uploader, Spared
<1>3. \A q \in Purgers : Line(purger[q])
  BY DEF Swept, Lines
<1>4. ASSUME NEW r, purger' = [purger EXCEPT ![p] = r], Line(r)
      PROVE  Swept'
  <2>1. \A q \in Purgers : purger'[q] = IF q = p THEN r ELSE purger[q]
    BY <1>4 DEF TypeInv, PurgersOK
  <2>2. \A q \in Purgers : Line(purger'[q])
    BY <1>3, <1>4, <2>1
  <2>3. Lines'
    BY <1>1, <2>2 DEF Lines, Spared, Uploader
  <2> QED
    BY <1>2, <2>3 DEF Swept
<1>5. Line(Resting) /\ \A Q : Queued(Q).pc # "delete" /\ Queued(Q).queue = Q
  BY DEF Resting, Queued
<1>6. \A Q \in SUBSET purger[p].queue : Line(Queued(Q))
  BY <1>3, <1>5
<1>7. CASE PurgeSelect(p)
  <2>1. PICK S \in SUBSET Files :
           /\ Selects(p, S)
           /\ purger' = [purger EXCEPT ![p] = Queued({<<f, file[f].owner>> : f \in S})]
    BY <1>7 DEF PurgeSelect
  <2>2. \A f \in S : Exists(f)
    BY <2>1, ConstantsAssumption
       DEF Selects, Stale, Expired, InTrash, OldTrash, Exists, Sweeps
  <2>3. \A e \in {<<f, file[f].owner>> : f \in S} :
           e[1] \in S /\ e[2] = file[e[1]].owner
    OBVIOUS
  <2>4. Line(Queued({<<f, file[f].owner>> : f \in S}))
    BY <1>5, <2>2, <2>3 DEF Exists
  <2> QED
    BY <1>4, <2>1, <2>4
<1>8. CASE PurgeSkip(p)
  BY <1>4, <1>6, <1>8 DEF PurgeSkip
<1>9. CASE PurgeList(p)
  <2>1. PICK e \in purger[p].queue :
           purger' = [purger EXCEPT ![p] =
                [pc |-> "delete", queue |-> purger[p].queue \ {e}, file |-> e[1],
                 list |-> {part \in Parts : row[e[1]][part] = e[2]}]]
    BY <1>9 DEF PurgeList
  <2>2. e[1] \in Files /\ file[e[1]].status # "none"
        /\ (e[2] # Uploader(e[1]) => file[e[1]].owner # Uploader(e[1]))
    BY <1>3, PurgeRecord
  <2>3. ASSUME NEW part \in Parts, row[e[1]][part] # e[2] PROVE Spared(e[1], part)
    BY <2>2, <2>3 DEF Spared, Swept, OwnersKnown
  <2> DEFINE r == [pc |-> "delete", queue |-> purger[p].queue \ {e}, file |-> e[1],
                   list |-> {part \in Parts : row[e[1]][part] = e[2]}]
  <2>4. Line(r)
    BY <1>3, <2>2, <2>3
  <2> HIDE DEF r
  <2> QED
    BY <1>4, <2>1, <2>4 DEF r
<1>10. CASE PurgeThrows(p)
  BY <1>4, <1>5, <1>6, <1>10 DEF PurgeThrows, PurgeNext
<1>11. CASE PurgeEnd(p)
  BY <1>4, <1>5, <1>11 DEF PurgeEnd
<1> QED
  BY <1>7, <1>8, <1>9, <1>10, <1>11 DEF Purge, PurgeFails, PurgeGone

LEMMA SweptNext ==
    ASSUME TypeInv, Swept, [Next]_vars
    PROVE  Swept'
<1>1. ASSUME NEW o \in Ops, Request(o) PROVE Swept'
  BY <1>1, RequestSpares, RequestSwept, AgesSwept
<1>2. ASSUME NEW f \in Files, InitUpload(f) \/ TrashWithFolder(f) PROVE Swept'
  BY <1>2, OtherSpares, OtherSwept, AgesSwept
<1>3. CASE HourPasses \/ MonthPasses \/ Crash \/ UNCHANGED vars
  <2>1. CASE Files # {}
    BY <1>3, <2>1, OtherSpares, OtherSwept, AgesSwept
  <2>2. CASE Files = {}
    <3>1. \A o \in Ops : op'[o] = Idle
      BY <1>3, <2>2, TypeInvNext DEF Next, TypeInv, OpsOK, OpOK, Running
    <3>2. \A p \in Purgers : purger'[p].queue = {} /\ purger'[p].pc # "delete"
      BY <1>3, <2>2, TypeInvNext DEF Next, TypeInv, PurgersOK, Purging, Waiting
    <3> QED
      BY <2>2, <3>1, <3>2 DEF Swept, OwnersKnown, WritersKnown, Lines, Buried, Idle
  <2> QED
    BY <2>1, <2>2
<1>4. ASSUME NEW p \in Purgers, Purge(p) \/ PurgeFails(p) PROVE Swept'
  BY <1>4, RemovalSwept, PurgeSwept
<1> QED
  BY <1>1, <1>2, <1>3, <1>4 DEF Next

(* What a purge leaves behind was written late, or belongs to the uploader *)
(* of a file that was claimed.                                             *)
THEOREM Leftovers == Spec => []LeftoversAreLate
<1>1. Spec => [](TypeInv /\ Swept)
  BY TypeInvInit, TypeInvNext, SweptInit, SweptNext, PTL DEF Spec
<1> QED
  BY <1>1, SweptLate, PTL

=============================================================================
