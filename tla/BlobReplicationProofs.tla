----------------------- MODULE BlobReplicationProofs -----------------------
(* Proofs about BlobReplication, for every value of its constants.         *)
EXTENDS BlobReplication, TLAPS

-----------------------------------------------------------------------------
(* Type correctness.  A snapshot of a row copies the blob row, so TypeOK   *)
(* needs that placements exist only beside their blob, which needs that an *)
(* acknowledged upload has a blob row until the purge is over.             *)

KindKnown ==
    \A r \in Requests :
       up[r].pc \in {"stored", "committed", "done"} => up[r].kind \in PrimaryKinds

MirrorTask ==
    \A w \in Workers : task[w].pc = "mirror" => task[w].snap.slot \in PrimarySlots

RowsNeedBlob == blob = NoBlob => \A s \in Slots : ~Present(s)

AckedHasBlob ==
    \A r \in Requests :
       up[r].pc \in {"committed", "done"} /\ purge.pc # "done" => blob # NoBlob

TypeInv == TypeOK /\ KindKnown /\ MirrorTask /\ RowsNeedBlob /\ AckedHasBlob

BlobRows == [hash: Requests, kind: PrimaryKinds, mloc: Locs]
Rows == [by: Creators, status: Statuses, loc: Locs, attempts: 0 .. MaxAttempts]
Tasks == [pc: {"source", "drop", "put", "activate", "cleanup", "mirror"},
          snap: Snapshots, bytes: Bytes, loc: Locs]

(* Rows that are there are full records, and NoRow is the only other value.*)
LEMMA RowType ==
    ASSUME TypeOK, NEW s \in Slots
    PROVE  /\ Present(s) => rows[s] \in Rows
           /\ ~Present(s) => rows[s] = NoRow
           /\ rows[s].loc \in Locs
BY ConstantsAssumption DEF TypeOK, Present, Rows, NoRow, Statuses, Locs

LEMMA TaskType ==
    ASSUME TypeOK, NEW w \in Workers
    PROVE  /\ Busy(w) => task[w] \in Tasks
           /\ ~Busy(w) => task[w] = IdleTask
BY DEF TypeOK, Busy, Tasks, IdleTask

(* A worker moves to another step of its job.                              *)
LEMMA TaskStep ==
    ASSUME TypeOK, MirrorTask, NEW w \in Workers, NEW t \in Tasks,
           t.pc = "mirror" => t.snap.slot \in PrimarySlots,
           task' = [task EXCEPT ![w] = t]
    PROVE  task' \in [Workers -> Tasks \cup {IdleTask}] /\ MirrorTask'
<1>1. task \in [Workers -> Tasks \cup {IdleTask}]
  BY DEF TypeOK, Tasks
<1>2. task' \in [Workers -> Tasks \cup {IdleTask}]
  BY <1>1
<1>3. \A v \in Workers : task'[v] = IF v = w THEN t ELSE task[v]
  BY <1>1
<1>4. MirrorTask'
  BY <1>3 DEF MirrorTask
<1> QED
  BY <1>2, <1>4

LEMMA BlobType ==
    ASSUME TypeOK
    PROVE  /\ blob # NoBlob <=> blob \in BlobRows
           /\ blob.mloc \in Locs
BY ConstantsAssumption DEF TypeOK, NoBlob, BlobRows, Locs

(* What a handler copies out of the rows is a well-formed record.          *)
LEMMA RefType ==
    ASSUME TypeOK, NEW s \in Slots, Present(s)
    PROVE  Ref(s) \in Refs
BY RowType DEF Ref, Refs, Rows

LEMMA SnapshotType ==
    ASSUME TypeOK, RowsNeedBlob, NEW s \in Slots, Present(s)
    PROVE  Snapshot(s) \in Snapshots
BY RowType, BlobType DEF Snapshot, Snapshots, Rows, BlobRows, RowsNeedBlob

LEMMA PutType ==
    ASSUME TypeOK, NEW s \in Slots, NEW b \in Bytes, Put(s, b)
    PROVE  /\ store' \in [Slots -> [Locs -> Bytes]]
           /\ used' \in [Slots -> Locs]
           /\ lost' \subseteq Slots
           /\ PutLoc(s) \in Locs
BY DEF TypeOK, Put, Bytes

LEMMA FaultType ==
    ASSUME TypeOK, NEW k, Fault(k)
    PROVE  faults' \in 0 .. MaxFaults
BY ConstantsAssumption DEF TypeOK, Fault

LEMMA DeleteType ==
    ASSUME TypeOK, NEW s \in Slots, NEW l \in Locs, DeleteBestEffort(s, l)
    PROVE  /\ store' \in [Slots -> [Locs -> Bytes]]
           /\ faults' \in 0 .. MaxFaults
<1>1. store \in [Slots -> [Locs -> Bytes]] /\ faults \in 0 .. MaxFaults
  BY DEF TypeOK
<1>2. faults' = faults \/ faults' \in 0 .. MaxFaults
  BY FaultType DEF DeleteBestEffort
<1>3. store' = store \/ store' = [store EXCEPT ![s][l] = None]
  BY DEF DeleteBestEffort
<1> QED
  BY <1>1, <1>2, <1>3 DEF Bytes

LEMMA PutFailsType ==
    ASSUME TypeOK, NEW s \in Slots, NEW b \in Bytes, PutFails(s, b)
    PROVE  /\ store' \in [Slots -> [Locs -> Bytes]]
           /\ used' \in [Slots -> Locs]
           /\ lost' \subseteq Slots
           /\ faults' \in 0 .. MaxFaults
BY FaultType, PutType DEF TypeOK, PutFails, poolVars

LEMMA ReleaseType ==
    ASSUME TypeOK, NEW w \in Workers, Release(w)
    PROVE  /\ task' \in [Workers -> Tasks \cup {IdleTask}]
           /\ inFlight' \subseteq Slots \X Creators
           /\ MirrorTask => MirrorTask'
BY DEF TypeOK, Release, Tasks, IdleTask, MirrorTask

LEMMA TypeInvInit == Init => TypeInv
<1> SUFFICES ASSUME Init PROVE TypeInv
  OBVIOUS
<1>1. 0 \in Locs /\ 0 \in 0 .. MaxFaults
  BY ConstantsAssumption DEF Locs
<1>2. rows \in [Slots -> {NoRow}] /\ \A s \in Slots : ~Present(s)
  BY DEF Init, NoRow, Present
<1>3. TypeOK
  BY <1>1, <1>2 DEF Init, TypeOK, Bytes
<1>4. KindKnown /\ MirrorTask /\ RowsNeedBlob /\ AckedHasBlob
  BY <1>2 DEF Init, KindKnown, MirrorTask, RowsNeedBlob, AckedHasBlob, IdleTask
<1> QED
  BY <1>3, <1>4 DEF TypeInv

LEMMA UploadType ==
    ASSUME TypeInv, NEW r \in Requests,
           UploadPut(r) \/ UploadPutFails(r) \/ UploadCommit(r)
             \/ WriteThroughFind(r) \/ CommitManifest(r)
    PROVE  TypeInv'
<1> USE DEF TypeInv
<1>1. CASE UploadPut(r)
  <2> PICK kind \in PrimaryKinds :
         /\ Put(<<"PRIMARY", kind>>, r)
         /\ up' = [up EXCEPT ![r] = [pc |-> "stored", kind |-> kind,
                                     loc |-> PutLoc(<<"PRIMARY", kind>>)]]
    BY <1>1 DEF UploadPut
  <2> <<"PRIMARY", kind>> \in Slots /\ r \in Bytes
    BY DEF Slots, PrimarySlots, Bytes
  <2> QED
    BY <1>1, PutType
    DEF UploadPut, TypeOK, KindKnown, MirrorTask, RowsNeedBlob, AckedHasBlob, Present,
        dbVars, workVars
<1>2. CASE UploadPutFails(r)
  <2> PICK kind \in PrimaryKinds : PutFails(<<"PRIMARY", kind>>, r)
    BY <1>2 DEF UploadPutFails
  <2> <<"PRIMARY", kind>> \in Slots /\ r \in Bytes
    BY DEF Slots, PrimarySlots, Bytes
  <2> QED
    BY <1>2, PutFailsType, ZenonT(60)
    DEF UploadPutFails, TypeOK, KindKnown, MirrorTask, RowsNeedBlob, AckedHasBlob,
        Present, dbVars, workVars
<1>3. CASE UploadCommit(r)
  <2>1. blob' \in BlobRows
    BY <1>3, BlobType DEF UploadCommit, BlobRows, TypeOK, KindKnown
  <2>2. ASSUME NEW s \in Slots
        PROVE  RowAfterUpload(r, s) \in Rows \cup {NoRow}
    <3>1. /\ 0 \in Locs /\ 0 \in 0 .. MaxAttempts /\ r \in Creators /\ up[r].loc \in Locs
          /\ {"ACTIVE", "PENDING"} \subseteq Statuses
      BY ConstantsAssumption DEF Locs, Creators, Statuses, TypeOK
    <3>2. Present(s) => rows[s] \in Rows /\ Requeued(rows[s]) \in Rows
      BY <3>1, RowType DEF Rows, Requeued
    <3> QED
      BY <3>1, <3>2 DEF RowAfterUpload, Rows
  <2>3. rows' \in [Slots -> Rows \cup {NoRow}]
    BY <1>3, <2>2 DEF UploadCommit
  <2>4. blob' # NoBlob
    BY <2>1, ConstantsAssumption DEF BlobRows, NoBlob
  <2> QED
    BY <1>3, <2>1, <2>3, <2>4
    DEF UploadCommit, TypeOK, KindKnown, MirrorTask, RowsNeedBlob, AckedHasBlob,
        BlobRows, Rows, poolVars, workVars
<1>4. CASE WriteThroughFind(r)
  <2>1. ASSUME NEW s \in Slots, rows[s].status = "PENDING"
        PROVE  Snapshot(s) \in Snapshots
    BY <2>1, SnapshotType DEF Present
  <2>2. queue' \in [Queues -> SUBSET Snapshots]
    BY <1>4, <2>1 DEF WriteThroughFind, TypeOK, Queues, Slots
  <2> QED
    BY <1>4, <2>2
    DEF WriteThroughFind, TypeOK, KindKnown, MirrorTask, RowsNeedBlob, AckedHasBlob,
        Present, dbVars, poolVars
<1>5. CASE CommitManifest(r)
  <2>1. blob # NoBlob
    BY <1>5 DEF CommitManifest, AckedHasBlob
  <2>2. ASSUME NEW s \in Slots
        PROVE  RowAfterManifest(r, s) \in Rows \cup {NoRow}
    BY RowType, ConstantsAssumption
    DEF RowAfterManifest, Rows, TypeOK, Creators, Statuses, Locs, NoRow
  <2>3. rows' \in [Slots -> Rows \cup {NoRow}]
    BY <1>5, <2>2 DEF CommitManifest
  <2> QED
    BY <1>5, <2>1, <2>3
    DEF CommitManifest, TypeOK, KindKnown, MirrorTask, RowsNeedBlob, AckedHasBlob,
        Rows, poolVars, workVars
<1> QED
  BY <1>1, <1>2, <1>3, <1>4, <1>5

LEMMA SweepType == TypeInv /\ SweepFind => TypeInv'
<1> SUFFICES ASSUME TypeInv, SweepFind PROVE TypeInv'
  OBVIOUS
<1> USE DEF TypeInv
<1>1. ASSUME NEW s \in Due
      PROVE  Snapshot(s) \in Snapshots
  BY SnapshotType DEF Due, Present
<1>2. queue' \in [Queues -> SUBSET Snapshots]
  BY <1>1 DEF SweepFind, TypeOK, Queues
<1> QED
  BY <1>2
  DEF SweepFind, TypeOK, KindKnown, MirrorTask, RowsNeedBlob, AckedHasBlob, Present,
      dbVars, poolVars

LEMMA ReplicationType ==
    ASSUME TypeInv, NEW w \in Workers, ReplicationStep(w)
    PROVE  TypeInv'
<1> USE DEF TypeInv
<1> DEFINE snap == task[w].snap
<1>1. Busy(w) => /\ snap \in Snapshots /\ snap.slot \in Slots /\ snap.loc \in Locs
                 /\ task[w].loc \in Locs /\ task[w].bytes \in Bytes
  BY TaskType DEF Tasks, Snapshots
<1>2. CASE Claim(w)
  <2> PICK sn \in queue[QueueOf(w)] :
         /\ queue' = [queue EXCEPT ![QueueOf(w)] = @ \ {sn}]
         /\ IF RowId(sn) \in inFlight
              THEN UNCHANGED <<task, inFlight>>
              ELSE /\ inFlight' = inFlight \cup {RowId(sn)}
                   /\ task' = [task EXCEPT ![w] = [pc |-> "source", snap |-> sn,
                                                   bytes |-> None, loc |-> 0]]
    BY <1>2 DEF Claim
  <2>1. QueueOf(w) \in Queues
    BY DEF QueueOf, Queues
  <2>2. sn \in Snapshots
    BY <2>1 DEF TypeOK
  <2>3. queue' \in [Queues -> SUBSET Snapshots]
    BY <2>1 DEF TypeOK
  <2>4. [pc |-> "source", snap |-> sn, bytes |-> None, loc |-> 0] \in Tasks
    BY <2>2, ConstantsAssumption DEF Tasks, Bytes, Locs
  <2>5. RowId(sn) \in Slots \X Creators
    BY <2>2 DEF RowId, Snapshots
  <2>6. inFlight' \subseteq Slots \X Creators
    BY <2>5 DEF TypeOK
  <2>7. task' \in [Workers -> Tasks \cup {IdleTask}]
    BY <2>4 DEF TypeOK, Tasks
  <2>8. MirrorTask'
    BY DEF TypeOK, MirrorTask
  <2> QED
    BY <1>2, <2>3, <2>6, <2>7, <2>8
    DEF Claim, TypeOK, KindKnown, RowsNeedBlob, AckedHasBlob, Present, dbVars,
        poolVars, Tasks
<1>3. CASE FetchSource(w)
  <2> DEFINE t == [task[w] EXCEPT !.bytes = snap.hash,
                                  !.pc = IF snap.loc # 0 THEN "drop" ELSE "put"]
  <2>1. Busy(w) /\ task[w] \in Tasks
    BY <1>3, TaskType DEF FetchSource, Busy
  <2>2. t \in Tasks
    BY <1>1, <2>1 DEF Tasks, Snapshots, Bytes
  <2>3. task' = [task EXCEPT ![w] = t]
    BY <1>3 DEF FetchSource
  <2>4. task' \in [Workers -> Tasks \cup {IdleTask}] /\ MirrorTask'
    <3>1. t.pc # "mirror"
      BY <2>1 DEF Tasks
    <3> QED
      BY <2>2, <2>3, <3>1, TaskStep
  <2>5. faults' \in 0 .. MaxFaults
    BY <1>3, FaultType DEF FetchSource, HasSource, TypeOK
  <2> QED
    BY <1>3, <2>4, <2>5
    DEF FetchSource, TypeOK, KindKnown, RowsNeedBlob, AckedHasBlob, Present, dbVars,
        poolVars, Tasks
<1>4. ASSUME GiveUp(w), store' \in [Slots -> [Locs -> Bytes]], used' \in [Slots -> Locs],
             lost' \subseteq Slots, faults' \in 0 .. MaxFaults
      PROVE  TypeInv'
  <2>4. ASSUME NEW s \in Slots, rows[s].attempts < MaxAttempts, Present(s)
        PROVE  [rows[s] EXCEPT !.attempts = @ + 1] \in Rows
    BY <2>4, RowType, ConstantsAssumption DEF Rows
  <2>5. rows' \in [Slots -> Rows \cup {NoRow}] /\ RowsNeedBlob'
    BY <1>4, <2>4, RowType DEF GiveUp, IsRow, RowsNeedBlob, Present, Rows
  <2> QED
    BY <1>4, <2>5, ReleaseType
    DEF GiveUp, TypeOK, KindKnown, AckedHasBlob, Rows, Tasks
<1>5. CASE FetchFails(w)
  <2>1. faults' \in 0 .. MaxFaults
    BY <1>5, FaultType DEF FetchFails, HasSource, TypeOK
  <2> QED
    BY <1>4, <1>5, <2>1 DEF FetchFails, poolVars, TypeOK
<1>6. CASE DropOld(w)
  <2>1. /\ store' \in [Slots -> [Locs -> Bytes]]
        /\ faults' \in 0 .. MaxFaults
    BY <1>1, <1>6, DeleteType DEF DropOld, Busy
  <2> DEFINE t == [task[w] EXCEPT !.pc = "put"]
  <2>2. Busy(w) /\ task[w] \in Tasks
    BY <1>6, TaskType DEF DropOld, Busy
  <2>3. t \in Tasks
    BY <1>1, <2>2 DEF Tasks
  <2>4. task' = [task EXCEPT ![w] = t]
    BY <1>6 DEF DropOld
  <2>5. task' \in [Workers -> Tasks \cup {IdleTask}] /\ MirrorTask'
    <3>1. t.pc # "mirror"
      BY <2>2 DEF Tasks
    <3> QED
      BY <2>3, <2>4, <3>1, TaskStep
  <2> QED
    BY <1>6, <2>1, <2>5
    DEF DropOld, TypeOK, KindKnown, RowsNeedBlob, AckedHasBlob, Present, dbVars, Tasks
<1>7. CASE PutCopy(w)
  <2>1. /\ store' \in [Slots -> [Locs -> Bytes]]
        /\ used' \in [Slots -> Locs]
        /\ lost' \subseteq Slots
        /\ PutLoc(snap.slot) \in Locs
    BY <1>1, <1>7, PutType DEF PutCopy, Busy
  <2> DEFINE t == [task[w] EXCEPT !.pc = "activate", !.loc = PutLoc(snap.slot)]
  <2>2. Busy(w) /\ task[w] \in Tasks
    BY <1>7, TaskType DEF PutCopy, Busy
  <2>3. t \in Tasks
    BY <1>1, <2>2, <2>1 DEF Tasks
  <2>4. task' = [task EXCEPT ![w] = t]
    BY <1>7 DEF PutCopy
  <2>5. task' \in [Workers -> Tasks \cup {IdleTask}] /\ MirrorTask'
    <3>1. t.pc # "mirror"
      BY <2>2 DEF Tasks
    <3> QED
      BY <2>3, <2>4, <3>1, TaskStep
  <2> QED
    BY <1>7, <2>1, <2>5
    DEF PutCopy, TypeOK, KindKnown, RowsNeedBlob, AckedHasBlob, Present, dbVars, Tasks
<1>8. CASE PutCopyFails(w)
  BY <1>1, <1>4, <1>8, PutFailsType DEF PutCopyFails, Busy
<1>9. CASE Activate(w)
  <2>1. ASSUME NEW s \in Activatable(snap)
        PROVE  [rows[s] EXCEPT !.status = "ACTIVE", !.loc = task[w].loc, !.attempts = 0]
                  \in Rows
    <3>1. s \in Slots /\ Present(s)
      BY DEF Activatable, IsRow
    <3>2. rows[s] \in Rows
      BY <3>1, RowType
    <3>3. Busy(w)
      BY <1>9 DEF Activate, Busy
    <3>4. 0 \in 0 .. MaxAttempts /\ "ACTIVE" \in Statuses
      BY ConstantsAssumption DEF Statuses
    <3> QED
      BY <1>1, <3>2, <3>3, <3>4 DEF Rows
  <2>2. rows' \in [Slots -> Rows \cup {NoRow}]
    BY <1>9, <2>1, RowType DEF Activate
  <2>3. RowsNeedBlob'
    BY <1>9 DEF Activate, Activatable, IsRow, RowsNeedBlob, Present
  <2>4. /\ task' \in [Workers -> Tasks \cup {IdleTask}] /\ MirrorTask'
        /\ inFlight' \subseteq Slots \X Creators
    <3>1. CASE snap.slot[1] = "PRIMARY"
      <4>1. snap.slot \in PrimarySlots
        BY <1>1, <1>9, <3>1 DEF Activate, Busy, Slots, PrimarySlots, ReplicaSlots
      <4>2. task' = [task EXCEPT ![w].pc = "mirror"] /\ UNCHANGED inFlight
        BY <1>9, <3>1 DEF Activate
      <4>3. task[w] \in Tasks
        BY <1>9, TaskType DEF Activate, Busy
      <4>4. task' \in [Workers -> Tasks \cup {IdleTask}]
        BY <4>2, <4>3 DEF TypeOK, Tasks
      <4>5. MirrorTask'
        BY <4>1, <4>2 DEF TypeOK, MirrorTask
      <4> QED
        BY <4>2, <4>4, <4>5 DEF TypeOK
    <3>2. CASE snap.slot[1] # "PRIMARY"
      BY <1>9, <3>2, ReleaseType DEF Activate
    <3> QED
      BY <3>1, <3>2
  <2> QED
    BY <1>9, <2>2, <2>3, <2>4
    DEF Activate, TypeOK, KindKnown, AckedHasBlob, poolVars, Tasks, Rows
<1>10. CASE ActivateMisses(w)
  <2> DEFINE t == [task[w] EXCEPT !.pc = "cleanup"]
  <2>1. Busy(w) /\ task[w] \in Tasks
    BY <1>10, TaskType DEF ActivateMisses, Busy
  <2>2. t \in Tasks
    BY <1>1, <2>1 DEF Tasks
  <2>3. task' = [task EXCEPT ![w] = t]
    BY <1>10 DEF ActivateMisses
  <2>4. task' \in [Workers -> Tasks \cup {IdleTask}] /\ MirrorTask'
    <3>1. t.pc # "mirror"
      BY <2>1 DEF Tasks
    <3> QED
      BY <2>2, <2>3, <3>1, TaskStep
  <2> QED
    BY <1>10, <2>4
    DEF ActivateMisses, TypeOK, KindKnown, RowsNeedBlob, AckedHasBlob, Present, dbVars,
        poolVars, Tasks
<1>11. CASE Cleanup(w)
  <2>1. /\ store' \in [Slots -> [Locs -> Bytes]]
        /\ faults' \in 0 .. MaxFaults
    BY <1>1, <1>11, DeleteType DEF Cleanup, Busy
  <2> QED
    BY <1>11, <2>1, ReleaseType
    DEF Cleanup, TypeOK, KindKnown, RowsNeedBlob, AckedHasBlob, Present, dbVars, Tasks
<1>12. CASE RefreshMirror(w)
  <2>1. snap.slot[2] \in PrimaryKinds
    BY <1>12 DEF RefreshMirror, MirrorTask, PrimarySlots
  <2>2. blob' \in BlobRows \cup {NoBlob} /\ (blob' = NoBlob <=> blob = NoBlob)
    BY <1>1, <1>12, <2>1, BlobType, ConstantsAssumption
    DEF RefreshMirror, Busy, BlobRows, NoBlob, Locs
  <2> QED
    BY <1>12, <2>2, ReleaseType
    DEF RefreshMirror, TypeOK, KindKnown, RowsNeedBlob, AckedHasBlob, Present,
        BlobRows, Tasks, poolVars
<1> QED
  BY <1>2, <1>3, <1>5, <1>6, <1>7, <1>8, <1>9, <1>10, <1>11, <1>12 DEF ReplicationStep

LEMMA ReadType ==
    ASSUME TypeInv, NEW x \in Readers,
           ReadStart(x) \/ ReadHit(x) \/ ReadMiss(x) \/ ReadError(x)
    PROVE  TypeInv'
<1> USE DEF TypeInv
<1>1. CASE ReadStart(x)
  <2>1. ASSUME NEW s \in Slots, Serves(rows[s].status)
        PROVE  Ref(s) \in Refs
    BY <2>1, RefType DEF Serves, Present
  <2>2. reader' \in [Readers -> SUBSET Refs]
    BY <1>1, <2>1 DEF ReadStart, TypeOK
  <2> QED
    BY <1>1, <2>2
    DEF ReadStart, TypeOK, KindKnown, MirrorTask, RowsNeedBlob, AckedHasBlob, Present,
        dbVars, poolVars, workVars
<1>2. CASE ReadHit(x)
  <2>1. reader' \in [Readers -> SUBSET Refs]
    BY <1>2 DEF ReadHit, TypeOK
  <2> QED
    BY <1>2, <2>1
    DEF ReadHit, TypeOK, KindKnown, MirrorTask, RowsNeedBlob, AckedHasBlob, Present,
        dbVars, poolVars, workVars
<1>3. CASE ReadMiss(x)
  <2>1. PICK c \in ReadFirst(reader[x]) :
           /\ reader' = [reader EXCEPT ![x] = @ \ {c}]
           /\ rows' = [s \in Slots |->
                         IF IsRow(s, c) /\ Serves(rows[s].status)
                           THEN [rows[s] EXCEPT !.status = "MISSING", !.attempts = 0]
                           ELSE rows[s]]
    BY <1>3 DEF ReadMiss
  <2>2. ASSUME NEW s \in Slots, rows[s] \in Rows
        PROVE  [rows[s] EXCEPT !.status = "MISSING", !.attempts = 0] \in Rows
    <3>1. 0 \in 0 .. MaxAttempts /\ "MISSING" \in Statuses
      BY ConstantsAssumption DEF Statuses
    <3> QED
      BY <2>2, <3>1 DEF Rows
  <2>3. rows' \in [Slots -> Rows \cup {NoRow}]
    BY <2>1, <2>2, RowType DEF IsRow
  <2>4. RowsNeedBlob'
    BY <1>3, <2>1 DEF ReadMiss, RowsNeedBlob, IsRow, Present
  <2>5. reader' \in [Readers -> SUBSET Refs]
    BY <2>1 DEF TypeOK
  <2> QED
    BY <1>3, <2>3, <2>4, <2>5
    DEF ReadMiss, TypeOK, KindKnown, MirrorTask, AckedHasBlob, poolVars, workVars, Rows
<1>4. CASE ReadError(x)
  <2>1. reader' \in [Readers -> SUBSET Refs] /\ faults' \in 0 .. MaxFaults
    BY <1>4, FaultType DEF ReadError, TypeOK
  <2> QED
    BY <1>4, <2>1
    DEF ReadError, TypeOK, KindKnown, MirrorTask, RowsNeedBlob, AckedHasBlob, Present,
        dbVars, poolVars, workVars
<1> QED
  BY <1>1, <1>2, <1>3, <1>4

LEMMA ProbeType ==
    ASSUME TypeInv, ProbeList \/ ProbeCheck \/ ProbeSkip \/ ProbeFlush
    PROVE  TypeInv'
<1> USE DEF TypeInv
<1> DEFINE Listed == [pc: {"listed"}, kind: PrimaryKinds, mloc: Locs, hash: Requests,
                      verdict: {None}]
           Checked == [pc: {"checked"}, kind: PrimaryKinds, mloc: Locs, hash: Requests,
                       verdict: {"ACTIVE", "MISSING", "MODIFIED"}]
<1>1. ASSUME probe' \in Listed \cup Checked \cup {IdleProbe}, faults' \in 0 .. MaxFaults,
             UNCHANGED <<dbVars, poolVars, up, workVars, reader, purge>>
      PROVE  TypeInv'
  BY <1>1
  DEF TypeOK, KindKnown, MirrorTask, RowsNeedBlob, AckedHasBlob, Present, dbVars,
      poolVars, workVars
<1>2. CASE ProbeList
  <2>1. probe' \in Listed
    BY <1>2, BlobType DEF ProbeList, BlobRows
  <2> QED
    BY <1>1, <1>2, <2>1 DEF ProbeList, TypeOK
<1>3. CASE ProbeCheck
  <2>1. \A mode : ProbeVerdict(mode) \in {"ACTIVE", "MISSING", "MODIFIED"}
    BY DEF ProbeVerdict
  <2>2. probe \in Listed
    BY <1>3 DEF ProbeCheck, TypeOK, IdleProbe
  <2>3. probe' \in Checked
    BY <1>3, <2>1, <2>2 DEF ProbeCheck
  <2> QED
    BY <1>1, <1>3, <2>3 DEF ProbeCheck, TypeOK
<1>4. CASE ProbeSkip
  BY <1>1, <1>4, FaultType DEF ProbeSkip, TypeOK
<1>5. CASE ProbeFlush
  <2>1. probe.verdict \in {"ACTIVE", "MISSING", "MODIFIED"}
    BY <1>5 DEF ProbeFlush, TypeOK, IdleProbe
  <2>2. ASSUME NEW s \in Slots, rows[s] \in Rows
        PROVE  /\ [rows[s] EXCEPT !.status = probe.verdict] \in Rows
    BY <2>1, <2>2 DEF Rows, Statuses
  <2>3. rows' \in [Slots -> Rows \cup {NoRow}]
    BY <1>5, <2>2, RowType DEF ProbeFlush, Present
  <2>4. RowsNeedBlob'
    BY <1>5, RowType DEF ProbeFlush, RowsNeedBlob, Present, NoRow
  <2> QED
    BY <1>5, <2>3, <2>4
    DEF ProbeFlush, TypeOK, KindKnown, MirrorTask, AckedHasBlob, poolVars, workVars,
        Rows, IdleProbe
<1> QED
  BY <1>2, <1>3, <1>4, <1>5

LEMMA PurgeType ==
    ASSUME TypeInv, PurgeStart \/ PurgeDelete \/ PurgeCommit
    PROVE  TypeInv'
<1> USE DEF TypeInv
<1>1. CASE PurgeStart
  <2>1. ASSUME NEW s \in Slots, Present(s)
        PROVE  Ref(s) \in Refs
    BY <2>1, RefType
  <2>2. purge' \in [pc: {"deleting"}, refs: SUBSET Refs, found: BOOLEAN]
    BY <1>1, <2>1 DEF PurgeStart
  <2> QED
    BY <1>1, <2>2
    DEF PurgeStart, TypeOK, KindKnown, MirrorTask, RowsNeedBlob, AckedHasBlob, Present,
        dbVars, poolVars, workVars
<1>2. CASE PurgeDelete
  <2>1. PICK c \in purge.refs : /\ DeleteBestEffort(c.slot, c.loc)
                                /\ purge' = [purge EXCEPT !.refs = @ \ {c}]
    BY <1>2 DEF PurgeDelete
  <2>2. c \in Refs
    BY DEF TypeOK
  <2>3. store' \in [Slots -> [Locs -> Bytes]] /\ faults' \in 0 .. MaxFaults
    BY <2>1, <2>2, DeleteType DEF Refs
  <2> QED
    BY <1>2, <2>1, <2>3
    DEF PurgeDelete, TypeOK, KindKnown, MirrorTask, RowsNeedBlob, AckedHasBlob, Present,
        dbVars, workVars
<1>3. CASE PurgeCommit
  <2>1. purge' = [purge EXCEPT !.pc = "done"] /\ purge'.pc = "done"
    BY <1>3 DEF PurgeCommit, TypeOK
  <2>2. rows' \in [Slots -> Rows \cup {NoRow}] /\ RowsNeedBlob'
    BY <1>3, RowType DEF PurgeCommit, RowsNeedBlob, Present, NoRow, TypeOK, Rows
  <2> QED
    BY <1>3, <2>1, <2>2
    DEF PurgeCommit, TypeOK, KindKnown, MirrorTask, AckedHasBlob, poolVars, workVars, Rows
<1> QED
  BY <1>1, <1>2, <1>3

LEMMA LoseType ==
    ASSUME TypeInv, NEW s \in Slots, NEW l \in Locs, LoseCopy(s, l)
    PROVE  TypeInv'
BY FaultType
DEF TypeInv, LoseCopy, TypeOK, KindKnown, MirrorTask, RowsNeedBlob, AckedHasBlob, Present,
    dbVars, workVars, Bytes

LEMMA CrashType == TypeInv /\ Crash => TypeInv'
<1> SUFFICES ASSUME TypeInv, Crash PROVE TypeInv'
  OBVIOUS
<1> USE DEF TypeInv
<1>1. ASSUME NEW r \in Requests
      PROVE  /\ up'[r].kind = up[r].kind /\ up'[r].loc = up[r].loc
             /\ up'[r].pc \in {"idle", "committed", "done", "failed"}
             /\ up'[r] \in [pc: {"idle", "stored", "committed", "done", "failed"},
                            kind: PrimaryKinds \cup {None}, loc: Locs]
             /\ up'[r].pc \in {"committed", "done"} => up[r].pc \in {"committed", "done"}
  BY DEF Crash, TypeOK
<1>2. up' \in [Requests -> [pc: {"idle", "stored", "committed", "done", "failed"},
                            kind: PrimaryKinds \cup {None}, loc: Locs]]
  BY <1>1 DEF Crash
<1>3. KindKnown'
  BY <1>1 DEF KindKnown
<1>4. /\ purge' \in [pc: {"idle", "deleting", "interrupted", "done"},
                     refs: SUBSET Refs, found: BOOLEAN]
      /\ purge'.pc = "done" <=> purge.pc = "done"
  BY DEF Crash, TypeOK
<1>5. AckedHasBlob'
  BY <1>1, <1>4 DEF AckedHasBlob, Crash, dbVars
<1>6. faults' \in 0 .. MaxFaults
  BY FaultType DEF Crash
<1> QED
  BY <1>2, <1>3, <1>4, <1>5, <1>6
  DEF Crash, TypeOK, MirrorTask, RowsNeedBlob, Present, dbVars, poolVars, IdleTask

LEMMA TypeInvStutter == TypeInv /\ UNCHANGED vars => TypeInv'
BY DEF TypeInv, TypeOK, KindKnown, MirrorTask, RowsNeedBlob, AckedHasBlob, Present,
       vars, dbVars

LEMMA TypeInvNext == TypeInv /\ [Next]_vars => TypeInv'
BY UploadType, ReplicationType, ReadType, ProbeType, PurgeType, LoseType, CrashType,
   TypeInvStutter, SweepType
DEF Next

(* TypeOK holds in every reachable state, whatever the numbers of uploads, *)
(* workers and reads and whichever providers are configured.               *)
THEOREM TypeCorrect == Spec => []TypeOK
<1>1. TypeInv => TypeOK
  BY DEF TypeInv
<1> QED
  BY TypeInvInit, TypeInvNext, <1>1, PTL DEF Spec

LEMMA TypeInvAlways == Spec => []TypeInv
BY TypeInvInit, TypeInvNext, PTL DEF Spec

-----------------------------------------------------------------------------
(* One writer per row.  OneWriterPerRow is inductive as it stands: the     *)
(* claims are exactly the rows of the running jobs, so a job that finds no *)
(* claim on its row is the only one, and releasing drops only its own.     *)

LEMMA ClaimsKept ==
    ASSUME OneWriterPerRow, UNCHANGED inFlight,
           \A v \in Workers : /\ task'[v].pc # "idle" <=> task[v].pc # "idle"
                             /\ task'[v].snap = task[v].snap
    PROVE  OneWriterPerRow'
<1>1. \A v \in Workers : Busy(v)' <=> Busy(v)
  BY DEF Busy
<1>2. \A v \in Workers : RowId(task'[v].snap) = RowId(task[v].snap)
  BY DEF RowId
<1>3. {RowId(task'[w].snap) : w \in {v \in Workers : Busy(v)'}}
        = {RowId(task[w].snap) : w \in {v \in Workers : Busy(v)}}
  BY <1>1, <1>2
<1>4. inFlight' = {RowId(task'[w].snap) : w \in {v \in Workers : Busy(v)'}}
  BY <1>3 DEF OneWriterPerRow
<1>5. \A v, w \in Workers : v # w /\ Busy(v)' /\ Busy(w)'
                             => RowId(task'[v].snap) # RowId(task'[w].snap)
  BY <1>1, <1>2 DEF OneWriterPerRow
<1> QED
  BY <1>4, <1>5 DEF OneWriterPerRow, RowId

LEMMA ClaimReleased ==
    ASSUME TypeOK, OneWriterPerRow, NEW w \in Workers, Busy(w), Release(w)
    PROVE  OneWriterPerRow'
<1>1. \A v \in Workers : Busy(v)' <=> Busy(v) /\ v # w
  BY DEF Busy, Release, TypeOK, IdleTask
<1>2. \A v \in Workers \ {w} : task'[v] = task[v]
  BY DEF Release, TypeOK
<1>3. inFlight' = {RowId(task'[x].snap) : x \in {v \in Workers : Busy(v)'}}
  BY <1>1, <1>2 DEF OneWriterPerRow, Release
<1>4. \A v, x \in Workers : v # x /\ Busy(v)' /\ Busy(x)'
                             => RowId(task'[v].snap) # RowId(task'[x].snap)
  BY <1>1, <1>2 DEF OneWriterPerRow
<1> QED
  BY <1>3, <1>4 DEF OneWriterPerRow, RowId

LEMMA ClaimTaken ==
    ASSUME TypeOK, OneWriterPerRow, NEW w \in Workers, Claim(w)
    PROVE  OneWriterPerRow'
<1>1. PICK sn \in queue[QueueOf(w)] :
         IF RowId(sn) \in inFlight
           THEN UNCHANGED <<task, inFlight>>
           ELSE /\ inFlight' = inFlight \cup {RowId(sn)}
                /\ task' = [task EXCEPT ![w] = [pc |-> "source", snap |-> sn,
                                                bytes |-> None, loc |-> 0]]
  BY DEF Claim
<1>2. CASE RowId(sn) \in inFlight
  BY <1>1, <1>2, ClaimsKept
<1>3. CASE RowId(sn) \notin inFlight
  <2>1. ~Busy(w) /\ \A v \in Workers : Busy(v)' <=> Busy(v) \/ v = w
    BY <1>1, <1>3 DEF Busy, Claim, TypeOK
  <2>2. \A v \in Workers : RowId(task'[v].snap) = IF v = w THEN RowId(sn)
                                                 ELSE RowId(task[v].snap)
    BY <1>1, <1>3 DEF TypeOK, RowId
  <2>3. \A v \in Workers : Busy(v) => RowId(task[v].snap) # RowId(sn)
    BY <1>3 DEF OneWriterPerRow
  <2>4. inFlight' = {RowId(task'[x].snap) : x \in {v \in Workers : Busy(v)'}}
    BY <1>1, <1>3, <2>1, <2>2 DEF OneWriterPerRow
  <2>5. \A v, x \in Workers : v # x /\ Busy(v)' /\ Busy(x)'
                               => RowId(task'[v].snap) # RowId(task'[x].snap)
    BY <2>1, <2>2, <2>3 DEF OneWriterPerRow
  <2> QED
    BY <2>4, <2>5 DEF OneWriterPerRow, RowId
<1> QED
  BY <1>2, <1>3

LEMMA OneWriterStep ==
    ASSUME TypeOK, OneWriterPerRow, NEW w \in Workers, ReplicationStep(w)
    PROVE  OneWriterPerRow'
<1>1. CASE Claim(w)
  BY <1>1, ClaimTaken
<1>2. CASE FetchSource(w)
  BY <1>2, ClaimsKept DEF FetchSource, TypeOK
<1>3. CASE FetchFails(w)
  BY <1>3, ClaimReleased DEF FetchFails, GiveUp, Busy
<1>4. CASE DropOld(w)
  BY <1>4, ClaimsKept DEF DropOld, TypeOK
<1>5. CASE PutCopy(w)
  BY <1>5, ClaimsKept DEF PutCopy, TypeOK
<1>6. CASE PutCopyFails(w)
  BY <1>6, ClaimReleased DEF PutCopyFails, GiveUp, Busy
<1>7. CASE Activate(w)
  <2>1. CASE task[w].snap.slot[1] = "PRIMARY"
    <3>1. task[w].pc = "activate" /\ task' = [task EXCEPT ![w].pc = "mirror"]
          /\ UNCHANGED inFlight
      BY <1>7, <2>1 DEF Activate
    <3> QED
      BY <3>1, ClaimsKept DEF TypeOK
  <2>2. CASE task[w].snap.slot[1] # "PRIMARY"
    BY <1>7, <2>2, ClaimReleased DEF Activate, Busy
  <2> QED
    BY <2>1, <2>2
<1>8. CASE ActivateMisses(w)
  BY <1>8, ClaimsKept DEF ActivateMisses, TypeOK
<1>9. CASE Cleanup(w)
  BY <1>9, ClaimReleased DEF Cleanup, Busy
<1>10. CASE RefreshMirror(w)
  BY <1>10, ClaimReleased DEF RefreshMirror, Busy
<1> QED
  BY <1>1, <1>2, <1>3, <1>4, <1>5, <1>6, <1>7, <1>8, <1>9, <1>10 DEF ReplicationStep

LEMMA OneWriterNext == TypeOK /\ OneWriterPerRow /\ [Next]_vars => OneWriterPerRow'
<1> SUFFICES ASSUME TypeOK, OneWriterPerRow, [Next]_vars PROVE OneWriterPerRow'
  OBVIOUS
<1>1. ASSUME UNCHANGED <<task, inFlight>> PROVE OneWriterPerRow'
  BY <1>1, ClaimsKept
<1>2. ASSUME NEW r \in Requests,
             UploadPut(r) \/ UploadPutFails(r) \/ UploadCommit(r)
               \/ WriteThroughFind(r) \/ CommitManifest(r)
      PROVE  OneWriterPerRow'
  BY <1>1, <1>2
  DEF UploadPut, UploadPutFails, UploadCommit, WriteThroughFind, CommitManifest, workVars
<1>3. ASSUME NEW x \in Readers,
             ReadStart(x) \/ ReadHit(x) \/ ReadMiss(x) \/ ReadError(x)
      PROVE  OneWriterPerRow'
  BY <1>1, <1>3 DEF ReadStart, ReadHit, ReadMiss, ReadError, workVars
<1>4. CASE ProbeList \/ ProbeCheck \/ ProbeSkip \/ ProbeFlush
  BY <1>1, <1>4 DEF ProbeList, ProbeCheck, ProbeSkip, ProbeFlush, workVars
<1>5. CASE PurgeStart \/ PurgeDelete \/ PurgeCommit
  BY <1>1, <1>5 DEF PurgeStart, PurgeDelete, PurgeCommit, workVars
<1>6. ASSUME NEW s \in Slots, NEW l \in Locs, LoseCopy(s, l)
      PROVE  OneWriterPerRow'
  BY <1>1, <1>6 DEF LoseCopy, workVars
<1>7. CASE Crash
  BY <1>7 DEF Crash, OneWriterPerRow, Busy, IdleTask
<1>8. CASE SweepFind
  BY <1>1, <1>8 DEF SweepFind
<1>9. CASE UNCHANGED vars
  BY <1>1, <1>9 DEF vars
<1> QED
  BY <1>2, <1>3, <1>4, <1>5, <1>6, <1>7, <1>8, <1>9, OneWriterStep DEF Next

(* However many sweep workers and write-throughs run, no two processPlace- *)
(* ment calls work on one row, and a claim lives exactly as long as its    *)
(* call.                                                                   *)
THEOREM OneWriter == Spec => []OneWriterPerRow
<1>1. Init => OneWriterPerRow
  BY DEF Init, OneWriterPerRow, Busy, IdleTask
<1> QED
  BY <1>1, TypeCorrect, OneWriterNext, PTL DEF Spec

-----------------------------------------------------------------------------
(* Placements match the blob row.  Only three steps add or remove rows:    *)
(* the upload transaction and commitManifest, which leave a full set, and  *)
(* the purge transaction, which removes every row with the blob.           *)

LEMMA SamePlacements ==
    ASSUME PlacementsMatchBlob, \A s \in Slots : Present(s)' <=> Present(s),
           blob' = NoBlob <=> blob = NoBlob, manifest' = manifest
    PROVE  PlacementsMatchBlob'
<1>1. \A s \in PrimarySlots \cup ReplicaSlots : Present(s)' <=> Present(s)
  BY DEF Slots
<1> QED
  BY <1>1 DEF PlacementsMatchBlob, NoBlob

LEMMA UploadPlacements ==
    ASSUME TypeInv, TypeInv', NEW r \in Requests, UploadCommit(r)
    PROVE  PlacementsMatchBlob'
<1>1. blob' # NoBlob
  BY ConstantsAssumption DEF UploadCommit, NoBlob
<1>2. PICK home \in PrimarySlots : home = <<"PRIMARY", up[r].kind>>
  BY DEF TypeInv, KindKnown, UploadCommit, PrimarySlots
<1>3. \A s \in Slots : rows'[s] = RowAfterUpload(r, s)
  BY DEF UploadCommit
<1>4. Present(home)'
  <2>1. home \in Slots
    BY DEF Slots
  <2>2. rows'[home] = RowAfterUpload(r, home)
    BY <1>3, <2>1
  <2>3. rows'[home].status = "ACTIVE"
    BY <1>2, <2>2 DEF RowAfterUpload
  <2> QED
    BY <2>3 DEF Present
<1>5. ASSUME NEW s \in PrimarySlots, s # home
      PROVE  ~Present(s)'
  <2>1. s \in Slots /\ s[1] = "PRIMARY"
    BY DEF Slots, PrimarySlots
  <2>2. rows'[s] = NoRow
    BY <1>2, <1>3, <1>5, <2>1 DEF RowAfterUpload
  <2> QED
    BY <2>2 DEF Present, NoRow
<1>6. ASSUME NEW s \in ReplicaSlots
      PROVE  Present(s)'
  <2>1. s \in Slots /\ s[1] = "REPLICA"
    BY DEF Slots, ReplicaSlots
  <2>2. s # home /\ s[1] # "PRIMARY"
    BY <1>2, <2>1
  <2>3. rows'[s] = IF Present(s) THEN Requeued(rows[s])
                   ELSE [by |-> r, status |-> "PENDING", loc |-> 0, attempts |-> 0]
    BY <1>2, <1>3, <2>1, <2>2 DEF RowAfterUpload
  <2>4. Present(s) => rows[s] \in Rows
    BY <2>1, RowType DEF TypeInv
  <2> QED
    BY <2>3, <2>4 DEF Requeued, Present, Rows
<1> QED
  BY <1>1, <1>2, <1>4, <1>5, <1>6 DEF PlacementsMatchBlob, NoBlob

LEMMA ManifestPlacements ==
    ASSUME TypeInv, PlacementsMatchBlob, NEW r \in Requests, CommitManifest(r)
    PROVE  PlacementsMatchBlob'
<1>1. blob' # NoBlob /\ blob # NoBlob /\ manifest'
  BY DEF CommitManifest, TypeInv, AckedHasBlob
<1>2. \A s \in Slots : Present(s) => Present(s)'
  BY DEF CommitManifest, RowAfterManifest, Present
<1>3. /\ \A s \in ReplicaSlots : Present(s)'
      /\ \E s \in PrimarySlots : Present(s)'
  BY <1>1, <1>2 DEF PlacementsMatchBlob, Slots
<1> QED
  BY <1>1, <1>3 DEF PlacementsMatchBlob, NoBlob

LEMMA ReplicationPlacements ==
    ASSUME TypeInv, PlacementsMatchBlob, NEW w \in Workers, ReplicationStep(w)
    PROVE  PlacementsMatchBlob'
<1>1. ASSUME UNCHANGED dbVars PROVE PlacementsMatchBlob'
  BY <1>1, SamePlacements DEF dbVars, Present
<1>2. CASE GiveUp(w)
  <2>1. ASSUME NEW s \in Slots PROVE Present(s)' <=> Present(s)
    BY <1>2, RowType DEF GiveUp, Present, IsRow, TypeInv, Rows
  <2> QED
    BY <1>2, <2>1, SamePlacements DEF GiveUp
<1>3. CASE Activate(w)
  <2>1. ASSUME NEW s \in Slots PROVE Present(s)' <=> Present(s)
    <3>1. s \in Activatable(task[w].snap) => Present(s) /\ rows[s] \in Rows
      BY RowType DEF Activatable, IsRow, TypeInv
    <3>2. rows'[s] = IF s \in Activatable(task[w].snap)
                       THEN [rows[s] EXCEPT !.status = "ACTIVE", !.loc = task[w].loc,
                                            !.attempts = 0]
                       ELSE rows[s]
      BY <1>3 DEF Activate
    <3> QED
      BY <3>1, <3>2 DEF Present, Rows
  <2> QED
    BY <1>3, <2>1, SamePlacements DEF Activate
<1>4. CASE RefreshMirror(w)
  <2>1. blob' = NoBlob <=> blob = NoBlob
    BY <1>4, BlobType, ConstantsAssumption DEF RefreshMirror, NoBlob, BlobRows, TypeInv
  <2> QED
    BY <1>4, <2>1, SamePlacements DEF RefreshMirror, Present
<1> QED
  BY <1>1, <1>2, <1>3, <1>4
  DEF ReplicationStep, Claim, FetchSource, FetchFails, DropOld, PutCopy, PutCopyFails,
      ActivateMisses, Cleanup

LEMMA PlacementsNext ==
    TypeInv /\ TypeInv' /\ PlacementsMatchBlob /\ [Next]_vars => PlacementsMatchBlob'
<1> SUFFICES ASSUME TypeInv, TypeInv', PlacementsMatchBlob, [Next]_vars
             PROVE  PlacementsMatchBlob'
  OBVIOUS
<1>1. ASSUME UNCHANGED dbVars PROVE PlacementsMatchBlob'
  BY <1>1, SamePlacements DEF dbVars, Present
<1>2. ASSUME NEW r \in Requests,
             UploadPut(r) \/ UploadPutFails(r) \/ UploadCommit(r)
               \/ WriteThroughFind(r) \/ CommitManifest(r)
      PROVE  PlacementsMatchBlob'
  BY <1>1, <1>2, UploadPlacements, ManifestPlacements
  DEF UploadPut, UploadPutFails, WriteThroughFind
<1>3. ASSUME NEW x \in Readers,
             ReadStart(x) \/ ReadHit(x) \/ ReadMiss(x) \/ ReadError(x)
      PROVE  PlacementsMatchBlob'
  <2>1. CASE ReadMiss(x)
    <3>1. ASSUME NEW s \in Slots PROVE Present(s)' <=> Present(s)
      BY <2>1, RowType DEF ReadMiss, Present, IsRow, TypeInv, Rows
    <3> QED
      BY <2>1, <3>1, SamePlacements DEF ReadMiss
  <2> QED
    BY <1>1, <1>3, <2>1 DEF ReadStart, ReadHit, ReadError
<1>4. CASE ProbeList \/ ProbeCheck \/ ProbeSkip \/ ProbeFlush
  <2>1. CASE ProbeFlush
    <3>1. probe.verdict # "ABSENT"
      BY <2>1 DEF ProbeFlush, TypeInv, TypeOK, IdleProbe
    <3>2. ASSUME NEW s \in Slots PROVE Present(s)' <=> Present(s)
      BY <2>1, <3>1, RowType DEF ProbeFlush, Present, TypeInv, Rows, NoRow
    <3> QED
      BY <2>1, <3>2, SamePlacements DEF ProbeFlush
  <2> QED
    BY <1>1, <1>4, <2>1 DEF ProbeList, ProbeCheck, ProbeSkip
<1>5. CASE PurgeStart \/ PurgeDelete \/ PurgeCommit
  <2>1. CASE PurgeCommit /\ purge.found
    BY <2>1 DEF PurgeCommit, PlacementsMatchBlob, Present, NoRow, NoBlob
  <2>2. CASE PurgeCommit /\ ~purge.found
    BY <1>1, <2>2 DEF PurgeCommit, dbVars
  <2> QED
    BY <1>1, <1>5, <2>1, <2>2 DEF PurgeStart, PurgeDelete
<1>6. ASSUME NEW s \in Slots, NEW l \in Locs, LoseCopy(s, l)
      PROVE  PlacementsMatchBlob'
  BY <1>1, <1>6 DEF LoseCopy
<1>7. CASE Crash
  BY <1>1, <1>7 DEF Crash
<1>8. CASE SweepFind
  BY <1>1, <1>8 DEF SweepFind
<1>9. CASE UNCHANGED vars
  BY <1>1, <1>9 DEF vars, dbVars
<1> QED
  BY <1>2, <1>3, <1>4, <1>5, <1>6, <1>7, <1>8, <1>9, ReplicationPlacements DEF Next

(* A stored blob always has its full set of placements and a purged one    *)
(* none, in whatever order uploads, jobs, checks and the purge interleave. *)
THEOREM Placements == Spec => []PlacementsMatchBlob
<1>1. Init => PlacementsMatchBlob
  BY DEF Init, PlacementsMatchBlob, Present, NoRow, Slots, NoBlob
<1> QED
  BY <1>1, TypeInvAlways, PlacementsNext, PTL DEF Spec

-----------------------------------------------------------------------------
(* The pools.  A provider hands out message ids it has never used, so only *)
(* deletions and losses make a copy disappear.                             *)

Far(s) == s[2] # "LOCAL"
Held(s, l) == store[s][l] # None

(* Nothing was ever stored at an id that has not been handed out, and the  *)
(* null id never is.                                                       *)
Fresh == \A s \in Slots, l \in Locs : Far(s) /\ (l = 0 \/ l > used[s]) => ~Held(s, l)

UsedGrows == \A s \in Slots : used[s] <= used'[s]

(* No primary pool lets go of a copy; only a LOCAL one writes over it.     *)
PrimaryGrows ==
    \A s \in PrimarySlots, l \in Locs :
       Held(s, l) => Held(s, l)' /\ (Far(s) => store'[s][l] = store[s][l])

LEMMA SlotParts ==
    /\ PrimarySlots \subseteq Slots /\ ReplicaSlots \subseteq Slots
    /\ PrimarySlots \cap ReplicaSlots = {}
    /\ \A s \in Slots : s[1] = "PRIMARY" <=> s \in PrimarySlots
BY DEF Slots, PrimarySlots, ReplicaSlots

LEMMA PoolTypes ==
    ASSUME TypeOK
    PROVE  /\ store \in [Slots -> [Locs -> Bytes]] /\ used \in [Slots -> Locs]
           /\ Locs \subseteq Nat /\ 0 \in Locs
BY ConstantsAssumption DEF TypeOK, Locs

LEMMA PutEffect ==
    ASSUME TypeOK, Fresh, NEW s \in Slots, NEW b \in Bytes, Put(s, b)
    PROVE  /\ Fresh' /\ UsedGrows /\ UNCHANGED lost
           /\ \A t \in Slots \ {s} : store'[t] = store[t]
           /\ PutLoc(s) \in Locs /\ store'[s][PutLoc(s)] = b
           /\ \A l \in Locs \ {PutLoc(s)} : store'[s][l] = store[s][l]
           /\ Far(s) => PutLoc(s) = used[s] + 1 /\ used'[s] = PutLoc(s)
           /\ Far(s) => \A l \in Locs : Held(s, l) => l <= used[s]
           /\ ~Far(s) => PutLoc(s) = 0
<1>1. /\ PutLoc(s) \in Locs /\ store' = [store EXCEPT ![s][PutLoc(s)] = b]
      /\ used' = [used EXCEPT ![s] = IF PutLoc(s) = 0 THEN @ ELSE PutLoc(s)]
      /\ UNCHANGED lost
  BY DEF Put
<1>2. /\ \A t \in Slots \ {s} : store'[t] = store[t] /\ used'[t] = used[t]
      /\ store'[s][PutLoc(s)] = b
      /\ \A l \in Locs \ {PutLoc(s)} : store'[s][l] = store[s][l]
      /\ used'[s] = IF PutLoc(s) = 0 THEN used[s] ELSE PutLoc(s)
  BY <1>1, PoolTypes
<1>3. /\ Far(s) => PutLoc(s) = used[s] + 1
      /\ ~Far(s) => PutLoc(s) = 0
  BY DEF PutLoc, Far
<1>4. UsedGrows /\ (Far(s) => used'[s] = used[s] + 1)
  BY <1>2, <1>3, PoolTypes DEF UsedGrows
<1>5. Fresh'
  <2> SUFFICES ASSUME NEW t \in Slots, NEW l \in Locs, Far(t), l = 0 \/ l > used'[t]
               PROVE  store'[t][l] = None
    BY DEF Fresh, Held, Far
  <2>1. CASE t # s
    BY <1>2, <2>1 DEF Fresh, Held
  <2>2. CASE t = s
    <3>1. (l = 0 \/ l > used[s]) /\ l # PutLoc(s)
      BY <1>3, <1>4, <2>2, PoolTypes
    <3> QED
      BY <1>2, <2>2, <3>1 DEF Fresh, Held
  <2> QED
    BY <2>1, <2>2
<1>6. Far(s) => \A l \in Locs : Held(s, l) => l <= used[s]
  BY PoolTypes DEF Fresh
<1> QED
  BY <1>1, <1>2, <1>3, <1>4, <1>5, <1>6

LEMMA DeleteEffect ==
    ASSUME TypeOK, Fresh, NEW s \in Slots, NEW d \in Locs,
           store' = store \/ store' = [store EXCEPT ![s][d] = None], UNCHANGED used
    PROVE  /\ Fresh' /\ UsedGrows
           /\ \A t \in Slots \ {s} : store'[t] = store[t]
           /\ \A l \in Locs : store'[s][l] = store[s][l] \/ (l = d /\ store'[s][l] = None)
<1>1. /\ \A t \in Slots \ {s} : store'[t] = store[t]
      /\ \A l \in Locs : store'[s][l] = store[s][l] \/ (l = d /\ store'[s][l] = None)
  BY PoolTypes
<1>2. \A t \in Slots, l \in Locs : store'[t][l] = store[t][l] \/ store'[t][l] = None
  BY <1>1
<1>3. Fresh'
  BY <1>2 DEF Fresh, Held
<1>4. UsedGrows
  BY PoolTypes DEF UsedGrows
<1> QED
  BY <1>1, <1>3, <1>4

(* A put leaves what primary pools hold, a deletion in a replica too.      *)
LEMMA PutGrows ==
    ASSUME TypeOK, Fresh, NEW s \in Slots, NEW b \in Requests, Put(s, b)
    PROVE  PrimaryGrows
<1> SUFFICES ASSUME NEW t \in PrimarySlots, NEW l \in Locs, Held(t, l)
             PROVE  Held(t, l)' /\ (Far(t) => store'[t][l] = store[t][l])
  BY DEF PrimaryGrows
<1>1. b \in Bytes /\ b # None /\ t \in Slots
  BY SlotParts, ConstantsAssumption DEF Bytes
<1>2. CASE t # s
  BY <1>1, <1>2, PutEffect DEF Held
<1>3. CASE t = s
  <2>1. Far(s) => l # PutLoc(s)
    BY <1>1, <1>3, PutEffect, PoolTypes
  <2>2. store'[s][PutLoc(s)] = b /\ \A m \in Locs \ {PutLoc(s)} : store'[s][m] = store[s][m]
    BY <1>1, PutEffect
  <2> QED
    BY <1>1, <1>3, <2>1, <2>2 DEF Held
<1> QED
  BY <1>2, <1>3

LEMMA ReplicaGrows ==
    ASSUME TypeOK, Fresh, NEW s \in ReplicaSlots, NEW d \in Locs,
           store' = store \/ store' = [store EXCEPT ![s][d] = None], UNCHANGED used
    PROVE  PrimaryGrows
<1>1. s \in Slots /\ \A t \in PrimarySlots : t \in Slots \ {s}
  BY SlotParts
<1>2. \A t \in PrimarySlots : store'[t] = store[t]
  BY <1>1, DeleteEffect
<1> QED
  BY <1>2 DEF PrimaryGrows, Held

LEMMA StillGrows ==
    ASSUME UNCHANGED store
    PROVE  PrimaryGrows
BY DEF PrimaryGrows, Held

(* What the job of a worker names.                                         *)
LEMMA JobType ==
    ASSUME TypeOK, NEW w \in Workers, Busy(w)
    PROVE  /\ task[w].snap \in Snapshots /\ task[w].snap.slot \in Slots
           /\ task[w].snap.loc \in Locs /\ task[w].loc \in Locs /\ task[w].bytes \in Bytes
           /\ task[w].snap.hash \in Requests
BY TaskType DEF Tasks, Snapshots

(* Only workers and crashes touch the jobs.                                *)
LEMMA TaskStill ==
    ASSUME [Next]_vars
    PROVE  (\E w \in Workers : ReplicationStep(w)) \/ Crash \/ UNCHANGED <<task, inFlight>>
BY DEF Next, vars, UploadPut, UploadPutFails, UploadCommit, WriteThroughFind, CommitManifest,
       SweepFind, ReadStart, ReadHit, ReadMiss, ReadError, ProbeList, ProbeCheck, ProbeSkip,
       ProbeFlush, PurgeStart, PurgeDelete, PurgeCommit, LoseCopy, workVars

LEMMA OtherTasks ==
    ASSUME TypeOK, NEW w \in Workers, ReplicationStep(w), NEW v \in Workers \ {w}
    PROVE  task'[v] = task[v]
<1>1. task \in [Workers -> Tasks \cup {IdleTask}]
  BY DEF TypeOK, Tasks
<1> QED
  BY <1>1
  DEF ReplicationStep, Claim, FetchSource, FetchFails, DropOld, PutCopy, PutCopyFails,
      Activate, ActivateMisses, Cleanup, RefreshMirror, GiveUp, Release

LEMMA FreshNext ==
    ASSUME TypeInv, Fresh, [Next]_vars
    PROVE  Fresh' /\ UsedGrows
<1>0. TypeOK
  BY DEF TypeInv
<1>1. ASSUME UNCHANGED <<store, used>> PROVE Fresh' /\ UsedGrows
  BY <1>0, <1>1, PoolTypes DEF Fresh, UsedGrows, Held
<1>2. ASSUME NEW s \in Slots, NEW b \in Bytes, Put(s, b) \/ PutFails(s, b)
      PROVE  Fresh' /\ UsedGrows
  BY <1>0, <1>1, <1>2, PutEffect DEF PutFails, poolVars
<1>3. ASSUME NEW s \in Slots, NEW l \in Locs, DeleteBestEffort(s, l), UNCHANGED used
      PROVE  Fresh' /\ UsedGrows
  BY <1>0, <1>3, DeleteEffect DEF DeleteBestEffort
<1>4. ASSUME NEW r \in Requests,
             UploadPut(r) \/ UploadPutFails(r) \/ UploadCommit(r)
               \/ WriteThroughFind(r) \/ CommitManifest(r)
      PROVE  Fresh' /\ UsedGrows
  <2>1. r \in Bytes /\ \A kind \in PrimaryKinds : <<"PRIMARY", kind>> \in Slots
    BY DEF Bytes, Slots, PrimarySlots
  <2> QED
    BY <1>1, <1>2, <1>4, <2>1
    DEF UploadPut, UploadPutFails, UploadCommit, WriteThroughFind, CommitManifest, poolVars
<1>5. ASSUME NEW w \in Workers, ReplicationStep(w)
      PROVE  Fresh' /\ UsedGrows
  <2>1. Busy(w) => /\ task[w].snap.slot \in Slots /\ task[w].snap.loc \in Locs
                   /\ task[w].loc \in Locs /\ task[w].bytes \in Bytes
    BY <1>0, JobType
  <2>2. CASE DropOld(w) \/ Cleanup(w)
    BY <1>3, <2>1, <2>2 DEF DropOld, Cleanup, Busy
  <2>3. CASE PutCopy(w) \/ PutCopyFails(w)
    BY <1>2, <2>1, <2>3 DEF PutCopy, PutCopyFails, Busy
  <2> QED
    BY <1>1, <1>5, <2>2, <2>3
    DEF ReplicationStep, Claim, FetchSource, FetchFails, Activate, ActivateMisses,
        RefreshMirror, poolVars
<1>6. ASSUME NEW x \in Readers,
             ReadStart(x) \/ ReadHit(x) \/ ReadMiss(x) \/ ReadError(x)
      PROVE  Fresh' /\ UsedGrows
  BY <1>1, <1>6 DEF ReadStart, ReadHit, ReadMiss, ReadError, poolVars
<1>7. CASE ProbeList \/ ProbeCheck \/ ProbeSkip \/ ProbeFlush
  BY <1>1, <1>7 DEF ProbeList, ProbeCheck, ProbeSkip, ProbeFlush, poolVars
<1>8. CASE PurgeStart \/ PurgeDelete \/ PurgeCommit
  <2>1. \A c \in purge.refs : c.slot \in Slots /\ c.loc \in Locs
    BY <1>0 DEF TypeOK, Refs
  <2> QED
    BY <1>1, <1>3, <1>8, <2>1 DEF PurgeStart, PurgeDelete, PurgeCommit, poolVars
<1>9. ASSUME NEW s \in Slots, NEW l \in Locs, LoseCopy(s, l)
      PROVE  Fresh' /\ UsedGrows
  BY <1>0, <1>9, DeleteEffect DEF LoseCopy
<1>10. CASE Crash \/ SweepFind \/ UNCHANGED vars
  BY <1>1, <1>10 DEF Crash, SweepFind, vars, poolVars
<1> QED
  BY <1>4, <1>5, <1>6, <1>7, <1>8, <1>9, <1>10 DEF Next

-----------------------------------------------------------------------------
(* What a job has written.                                                 *)

Writing == {"drop", "put", "activate", "cleanup", "mirror"}

(* A job writes the bytes its snapshot names, at an id of its own, where   *)
(* nobody else puts anything.                                              *)
JobBytes(w) ==
    /\ task[w].pc \in Writing => task[w].bytes = task[w].snap.hash
    /\ task[w].pc \in {"activate", "cleanup"} /\ Far(task[w].snap.slot) =>
         /\ task[w].loc <= used[task[w].snap.slot]
         /\ store[task[w].snap.slot][task[w].loc] \in {task[w].bytes, None}

JobsBytes == \A w \in Workers : JobBytes(w)

(* Copies at ids that were handed out are never replaced.                  *)
NeverReplaced ==
    \A s \in Slots, l \in Locs :
       Far(s) /\ l <= used[s] => store'[s][l] \in {store[s][l], None}

LEMMA NeverReplacedNext ==
    ASSUME TypeInv, Fresh, [Next]_vars
    PROVE  NeverReplaced
<1>0. TypeOK
  BY DEF TypeInv
<1>1. ASSUME UNCHANGED store PROVE NeverReplaced
  BY <1>1 DEF NeverReplaced
<1>2. ASSUME NEW s \in Slots, NEW b \in Bytes, Put(s, b) \/ PutFails(s, b)
      PROVE  NeverReplaced
  <2>1. CASE Put(s, b)
    <3>1. \A l \in Locs : Far(s) /\ l <= used[s] => l # PutLoc(s)
      BY <1>0, <2>1, PutEffect, PoolTypes
    <3>2. /\ \A t \in Slots \ {s} : store'[t] = store[t]
          /\ \A l \in Locs \ {PutLoc(s)} : store'[s][l] = store[s][l]
      BY <1>0, <2>1, PutEffect
    <3> QED
      BY <3>1, <3>2 DEF NeverReplaced
  <2> QED
    BY <1>1, <1>2, <2>1 DEF PutFails, poolVars
<1>3. ASSUME NEW s \in Slots, NEW l \in Locs,
             store' = store \/ store' = [store EXCEPT ![s][l] = None]
      PROVE  NeverReplaced
  BY <1>0, <1>3, PoolTypes DEF NeverReplaced
<1>4. ASSUME NEW r \in Requests,
             UploadPut(r) \/ UploadPutFails(r) \/ UploadCommit(r)
               \/ WriteThroughFind(r) \/ CommitManifest(r)
      PROVE  NeverReplaced
  <2>1. r \in Bytes /\ \A kind \in PrimaryKinds : <<"PRIMARY", kind>> \in Slots
    BY DEF Bytes, Slots, PrimarySlots
  <2> QED
    BY <1>1, <1>2, <1>4, <2>1
    DEF UploadPut, UploadPutFails, UploadCommit, WriteThroughFind, CommitManifest, poolVars
<1>5. ASSUME NEW w \in Workers, ReplicationStep(w)
      PROVE  NeverReplaced
  <2>1. Busy(w) => /\ task[w].snap.slot \in Slots /\ task[w].snap.loc \in Locs
                   /\ task[w].loc \in Locs /\ task[w].bytes \in Bytes
    BY <1>0, JobType
  <2>2. CASE DropOld(w) \/ Cleanup(w)
    BY <1>3, <2>1, <2>2 DEF DropOld, Cleanup, Busy, DeleteBestEffort
  <2>3. CASE PutCopy(w) \/ PutCopyFails(w)
    BY <1>2, <2>1, <2>3 DEF PutCopy, PutCopyFails, Busy
  <2> QED
    BY <1>1, <1>5, <2>2, <2>3
    DEF ReplicationStep, Claim, FetchSource, FetchFails, Activate, ActivateMisses,
        RefreshMirror, poolVars
<1>6. ASSUME NEW x \in Readers,
             ReadStart(x) \/ ReadHit(x) \/ ReadMiss(x) \/ ReadError(x)
      PROVE  NeverReplaced
  BY <1>1, <1>6 DEF ReadStart, ReadHit, ReadMiss, ReadError, poolVars
<1>7. CASE ProbeList \/ ProbeCheck \/ ProbeSkip \/ ProbeFlush
  BY <1>1, <1>7 DEF ProbeList, ProbeCheck, ProbeSkip, ProbeFlush, poolVars
<1>8. CASE PurgeStart \/ PurgeDelete \/ PurgeCommit
  <2>1. \A c \in purge.refs : c.slot \in Slots /\ c.loc \in Locs
    BY <1>0 DEF TypeOK, Refs
  <2> QED
    BY <1>1, <1>3, <1>8, <2>1 DEF PurgeStart, PurgeDelete, PurgeCommit, poolVars, DeleteBestEffort
<1>9. ASSUME NEW s \in Slots, NEW l \in Locs, LoseCopy(s, l)
      PROVE  NeverReplaced
  BY <1>3, <1>9 DEF LoseCopy
<1>10. CASE Crash \/ SweepFind \/ UNCHANGED vars
  BY <1>1, <1>10 DEF Crash, SweepFind, vars, poolVars
<1> QED
  BY <1>4, <1>5, <1>6, <1>7, <1>8, <1>9, <1>10 DEF Next

(* A job whose record stays, or moves on without a new id, keeps its bytes.*)
LEMMA JobKept ==
    ASSUME TypeOK, TypeOK', UsedGrows, NeverReplaced, NEW w \in Workers, JobBytes(w),
           task'[w].pc \in Writing =>
             /\ task[w].pc \in Writing /\ task'[w].snap = task[w].snap
             /\ task'[w].bytes = task[w].bytes,
           task'[w].pc \in {"activate", "cleanup"} =>
             task[w].pc \in {"activate", "cleanup"} /\ task'[w].loc = task[w].loc
    PROVE  JobBytes(w)'
<1>1. task'[w].pc \in Writing => task'[w].bytes = task'[w].snap.hash
  BY DEF JobBytes
<1>2. ASSUME task'[w].pc \in {"activate", "cleanup"}, Far(task'[w].snap.slot)
      PROVE  /\ task'[w].loc <= used'[task'[w].snap.slot]
             /\ store'[task'[w].snap.slot][task'[w].loc] \in {task'[w].bytes, None}
  <2> DEFINE s == task[w].snap.slot
             l == task[w].loc
  <2>1. /\ task'[w].snap.slot = s /\ task'[w].bytes = task[w].bytes /\ task'[w].loc = l
        /\ task[w].pc \in {"activate", "cleanup"}
    BY <1>2 DEF Writing
  <2>2. s \in Slots /\ l \in Locs
    BY <2>1, JobType DEF Busy
  <2> HIDE DEF s, l
  <2>3. Far(s) /\ l <= used[s] /\ store[s][l] \in {task[w].bytes, None}
    BY <1>2, <2>1 DEF JobBytes, s, l
  <2>4. l <= used'[s]
    <3>1. /\ used[s] \in Nat /\ used[s] <= used'[s] /\ l \in Nat /\ l <= used[s]
          /\ used'[s] \in Nat
      BY <2>2, <2>3, PoolTypes DEF UsedGrows, TypeOK
    <3> QED
      BY <3>1
  <2>5. store'[s][l] \in {task[w].bytes, None}
    BY <2>2, <2>3 DEF NeverReplaced
  <2> QED
    BY <2>1, <2>4, <2>5
<1> QED
  BY <1>1, <1>2 DEF JobBytes, Far

LEMMA JobsBytesNext ==
    ASSUME TypeInv, TypeInv', Fresh, JobsBytes, [Next]_vars
    PROVE  JobsBytes'
<1>0. TypeOK /\ TypeOK' /\ UsedGrows /\ NeverReplaced
  BY FreshNext, NeverReplacedNext DEF TypeInv
<1>1. ASSUME NEW w \in Workers, task'[w] = task[w]
      PROVE  JobBytes(w)'
  BY <1>0, <1>1, JobKept DEF JobsBytes
<1>2. ASSUME NEW w \in Workers, task'[w] = IdleTask
      PROVE  JobBytes(w)'
  BY <1>2 DEF JobBytes, IdleTask, Writing
<1>3. ASSUME NEW w \in Workers, ReplicationStep(w)
      PROVE  JobsBytes'
  <2>0. task \in [Workers -> Tasks \cup {IdleTask}]
    BY <1>0 DEF TypeOK, Tasks
  <2>1. ASSUME NEW v \in Workers \ {w} PROVE JobBytes(v)'
    <3>1. task'[v] = task[v]
      BY <1>0, <1>3, OtherTasks
    <3> QED
      BY <1>1, <3>1
  <2>2. JobBytes(w)'
    <3>1. CASE Claim(w)
      <4>1. task'[w] = task[w] \/ task'[w].pc = "source"
        BY <2>0, <3>1 DEF Claim
      <4> QED
        BY <1>1, <4>1 DEF JobBytes, Writing
    <3>2. CASE FetchSource(w)
      <4>1. /\ task'[w].pc \in {"drop", "put"} /\ task'[w].bytes = task[w].snap.hash
            /\ task'[w].snap = task[w].snap
        <5>1. task[w] \in Tasks
          BY <1>0, <3>2, TaskType DEF FetchSource, Busy
        <5> QED
          BY <2>0, <3>2, <5>1 DEF FetchSource, Tasks
      <4> QED
        BY <4>1 DEF JobBytes
    <3>3. CASE FetchFails(w) \/ PutCopyFails(w) \/ Cleanup(w) \/ RefreshMirror(w)
      <4>1. task'[w] = IdleTask
        BY <2>0, <3>3 DEF FetchFails, PutCopyFails, Cleanup, RefreshMirror, GiveUp, Release
      <4> QED
        BY <1>2, <4>1
    <3>4. CASE DropOld(w)
      <4>1. /\ task[w].pc = "drop" /\ task'[w].pc = "put" /\ task'[w].snap = task[w].snap
            /\ task'[w].bytes = task[w].bytes
        <5>1. task[w] \in Tasks
          BY <1>0, <3>4, TaskType DEF DropOld, Busy
        <5> QED
          BY <2>0, <3>4, <5>1 DEF DropOld, Tasks
      <4> QED
        BY <1>0, <4>1, JobKept DEF JobsBytes, Writing
    <3>5. CASE PutCopy(w)
      <4> DEFINE s == task[w].snap.slot
      <4>1. task[w] \in Tasks /\ s \in Slots /\ task[w].bytes \in Bytes /\ task[w].pc = "put"
            /\ Put(s, task[w].bytes)
        BY <1>0, <3>5, TaskType, JobType DEF PutCopy, Busy
      <4>2. /\ task'[w].pc = "activate" /\ task'[w].snap = task[w].snap
            /\ task'[w].bytes = task[w].bytes /\ task'[w].loc = PutLoc(s)
        BY <2>0, <3>5, <4>1 DEF PutCopy, Tasks
      <4>3. /\ store'[s][PutLoc(s)] = task[w].bytes /\ (Far(s) => used'[s] = PutLoc(s))
            /\ PutLoc(s) \in Nat
        BY <1>0, <4>1, PutEffect, PoolTypes
      <4>4. task[w].bytes = task[w].snap.hash
        BY <4>1 DEF JobsBytes, JobBytes, Writing
      <4> QED
        BY <4>2, <4>3, <4>4 DEF JobBytes, Far
    <3>6. CASE Activate(w) \/ ActivateMisses(w)
      <4>1. \/ task'[w] = IdleTask
            \/ /\ task[w].pc = "activate" /\ task'[w].snap = task[w].snap
               /\ task'[w].bytes = task[w].bytes /\ task'[w].loc = task[w].loc
        <5>1. task[w] \in Tasks /\ task[w].pc = "activate"
          BY <1>0, <3>6, TaskType DEF Activate, ActivateMisses, Busy
        <5> QED
          BY <2>0, <3>6, <5>1 DEF Activate, ActivateMisses, Release, Tasks
      <4> QED
        BY <1>0, <1>2, <4>1, JobKept DEF JobsBytes, Writing
    <3> QED
      BY <1>3, <3>1, <3>2, <3>3, <3>4, <3>5, <3>6 DEF ReplicationStep
  <2> QED
    BY <2>1, <2>2 DEF JobsBytes
<1>4. CASE Crash
  <2>1. \A w \in Workers : task'[w] = IdleTask
    BY <1>4 DEF Crash
  <2> QED
    BY <1>2, <2>1 DEF JobsBytes
<1>5. CASE UNCHANGED task
  BY <1>1, <1>5 DEF JobsBytes
<1> QED
  BY <1>3, <1>4, <1>5, TaskStill

LEMMA JobsBytesAlways == Spec => [](Fresh /\ JobsBytes)
<1>1. Init => Fresh /\ JobsBytes
  BY PoolTypes DEF Init, Fresh, Held, JobsBytes, JobBytes, IdleTask, Writing
<1>2. TypeInv /\ TypeInv' /\ Fresh /\ JobsBytes /\ [Next]_vars => Fresh' /\ JobsBytes'
  BY FreshNext, JobsBytesNext
<1> QED
  BY <1>1, <1>2, TypeInvAlways, PTL DEF Spec

(* A replication job whose snapshot has the hash on record marks a         *)
(* placement ACTIVE only with bytes of that hash (or a copy lost since):   *)
(* processPlacement checks what it read and writes to an id of its own.    *)
THEOREM HealedMatches == Spec => HealedCopyMatchesHash
<1> DEFINE Healed(w) ==
      LET snap == task[w].snap IN
      /\ task[w].pc = "activate"
      /\ task'[w].pc # "activate"
      /\ snap.slot \in Slots
      /\ rows[snap.slot].status # "ACTIVE" /\ rows'[snap.slot].status = "ACTIVE"
      /\ snap.slot[2] # "LOCAL"
      /\ snap.hash = blob.hash
      => store[snap.slot][rows'[snap.slot].loc] \in {blob.hash, None}
<1>1. ASSUME TypeInv, JobsBytes, [Next]_vars, NEW w \in Workers
      PROVE  Healed(w)
  <2> DEFINE s == task[w].snap.slot
  <2> SUFFICES ASSUME task[w].pc = "activate", task'[w].pc # "activate", s \in Slots,
                      rows[s].status # "ACTIVE", rows'[s].status = "ACTIVE", s[2] # "LOCAL",
                      task[w].snap.hash = blob.hash
               PROVE  store[s][rows'[s].loc] \in {blob.hash, None}
    OBVIOUS
  <2>1. ~Crash
    BY DEF Crash, dbVars
  <2>2. ReplicationStep(w)
    BY <1>1, <2>1, TaskStill, OtherTasks DEF TypeInv
  <2>3. Activate(w)
    BY <2>2 DEF ReplicationStep, Claim, FetchSource, FetchFails, DropOld, PutCopy, PutCopyFails,
                ActivateMisses, Cleanup, RefreshMirror, dbVars
  <2>4. rows'[s].loc = task[w].loc
    <3>1. s \in Activatable(task[w].snap)
      BY <2>3 DEF Activate
    <3>2. rows[s] \in Rows
      BY <1>1, <3>1, RowType DEF Activatable, IsRow, TypeInv
    <3>3. rows'[s] = [rows[s] EXCEPT !.status = "ACTIVE", !.loc = task[w].loc, !.attempts = 0]
      BY <2>3, <3>1 DEF Activate
    <3> QED
      BY <3>2, <3>3 DEF Rows
  <2>5. store[s][task[w].loc] \in {task[w].bytes, None} /\ task[w].bytes = task[w].snap.hash
    BY <1>1 DEF JobsBytes, JobBytes, Far, Writing
  <2> QED
    BY <2>4, <2>5
<1>2. ASSUME TypeInv, JobsBytes, [Next]_vars
      PROVE  [\A w \in Workers : Healed(w)]_vars
  BY <1>1, <1>2
<1> QED
  BY <1>2, TypeInvAlways, JobsBytesAlways, PTL DEF Spec, HealedCopyMatchesHash

-----------------------------------------------------------------------------
(* Durability.  As long as nothing has harmed the primary pools every      *)
(* PRIMARY placement serves, so no job ever works on one; the uploads, the *)
(* reads under way and the health check all name copies that are there.    *)

StoredPcs == {"stored", "committed", "done"}

UploadHeld(r) ==
    up[r].pc \in StoredPcs =>
      LET s == <<"PRIMARY", up[r].kind>> IN
      /\ Held(s, up[r].loc)
      /\ Far(s) => store[s][up[r].loc] = r

UploadsHeld == \A r \in Requests : UploadHeld(r)

NoPrimaryJobs ==
    /\ \A q \in Queues : \A sn \in queue[q] : sn.slot \in ReplicaSlots
    /\ \A w \in Workers : Busy(w) => task[w].snap.slot \in ReplicaSlots

PrimaryRowsServe ==
    \A s \in PrimarySlots :
       Present(s) => Serves(rows[s].status) /\ Held(s, rows[s].loc)

PrimaryRefsHeld ==
    \A x \in Readers : \A c \in reader[x] :
       c.slot \in PrimarySlots => Held(c.slot, c.loc)

MirrorHeld(mloc) ==
    mloc # 0 => "DISCORD" \in PrimaryKinds /\ Held(<<"PRIMARY", "DISCORD">>, mloc)

ProbeSafe ==
    /\ MirrorHeld(blob.mloc)
    /\ probe.pc = "listed" => MirrorHeld(probe.mloc)
    /\ probe.pc = "checked" => probe.verdict # "MISSING"

Safe ==
    /\ UploadsHeld /\ NoPrimaryJobs /\ PrimaryRowsServe /\ PrimaryRefsHeld
    /\ ProbeSafe /\ (blob # NoBlob => PrimaryServes)

UpKept ==
    \A r \in Requests :
       up'[r].pc \in StoredPcs =>
         up[r].pc \in StoredPcs /\ up'[r].kind = up[r].kind /\ up'[r].loc = up[r].loc

RowsKept ==
    \A s \in PrimarySlots :
       Present(s) => /\ Present(s)' /\ rows'[s].loc = rows[s].loc
                     /\ Serves(rows[s].status) => Serves(rows'[s].status)

LEMMA UploadsKept ==
    ASSUME TypeInv, UploadsHeld, PrimaryGrows, UpKept
    PROVE  UploadsHeld'
<1> SUFFICES ASSUME NEW r \in Requests, up'[r].pc \in StoredPcs
             PROVE  UploadHeld(r)'
  BY DEF UploadsHeld, UploadHeld
<1> DEFINE s == <<"PRIMARY", up[r].kind>>
<1>1. /\ up[r].pc \in StoredPcs /\ up'[r].kind = up[r].kind /\ up'[r].loc = up[r].loc
      /\ s \in PrimarySlots /\ up[r].loc \in Locs
  BY DEF UpKept, TypeInv, TypeOK, KindKnown, StoredPcs, PrimarySlots
<1>2. Held(s, up[r].loc) /\ (Far(s) => store[s][up[r].loc] = r)
  BY <1>1 DEF UploadsHeld, UploadHeld
<1> HIDE DEF s
<1>3. s \in PrimarySlots /\ up[r].loc \in Locs
  BY <1>1
<1>4. store'[s][up[r].loc] # None /\ (Far(s) => store'[s][up[r].loc] = r)
  BY <1>2, <1>3 DEF PrimaryGrows, Held
<1>5. <<"PRIMARY", up'[r].kind>> = s
  BY <1>1 DEF s
<1> QED
  BY <1>1, <1>4, <1>5 DEF UploadHeld, Held, Far

LEMMA MirrorKept ==
    ASSUME PrimaryGrows, NEW m \in Locs, MirrorHeld(m)
    PROVE  MirrorHeld(m)'
BY DEF PrimaryGrows, MirrorHeld, Held, PrimarySlots

LEMMA RowsServeKept ==
    ASSUME TypeInv, PrimaryRowsServe, PrimaryGrows, RowsKept,
           \A s \in PrimarySlots : Present(s)' => Present(s)
    PROVE  PrimaryRowsServe'
<1> SUFFICES ASSUME NEW s \in PrimarySlots, Present(s)'
             PROVE  Serves(rows'[s].status) /\ store'[s][rows'[s].loc] # None
  BY DEF PrimaryRowsServe, Held
<1>1. Present(s) /\ rows'[s].loc = rows[s].loc /\ Serves(rows'[s].status)
  BY DEF RowsKept, PrimaryRowsServe
<1>2. rows[s].loc \in Locs
  BY RowType, SlotParts DEF TypeInv
<1>3. store'[s][rows[s].loc] # None
  BY <1>1, <1>2 DEF PrimaryRowsServe, PrimaryGrows, Held
<1> QED
  BY <1>1, <1>3

LEMMA KeepSafe ==
    ASSUME TypeInv, Safe, PrimaryGrows, UploadsHeld', NoPrimaryJobs', PrimaryRowsServe',
           RowsKept, blob' = blob,
           \A x \in Readers : \A c \in reader'[x] : c.slot \in PrimarySlots =>
             \/ c \in reader[x]
             \/ Present(c.slot) /\ c.loc = rows[c.slot].loc,
           probe'.pc = "listed" =>
             \/ probe.pc = "listed" /\ probe'.mloc = probe.mloc
             \/ probe'.mloc = blob.mloc,
           probe'.pc = "checked" => probe'.verdict # "MISSING"
    PROVE  Safe'
<1>1. PrimaryRefsHeld'
  <2> SUFFICES ASSUME NEW x \in Readers, NEW c \in reader'[x], c.slot \in PrimarySlots
               PROVE  Held(c.slot, c.loc)'
    BY DEF PrimaryRefsHeld, Held
  <2>1. Held(c.slot, c.loc) /\ c.loc \in Locs
    <3>1. CASE c \in reader[x]
      BY <3>1 DEF Safe, PrimaryRefsHeld, TypeInv, TypeOK, Refs
    <3>2. CASE Present(c.slot) /\ c.loc = rows[c.slot].loc
      BY <3>2, RowType, SlotParts DEF Safe, PrimaryRowsServe, TypeInv
    <3> QED
      BY <3>1, <3>2
  <2> QED
    BY <2>1 DEF PrimaryGrows, Held
<1>2. ProbeSafe'
  <2>1. blob.mloc \in Locs /\ (probe.pc = "listed" => probe.mloc \in Locs)
    BY BlobType DEF TypeInv, TypeOK, IdleProbe
  <2> QED
    BY <2>1, MirrorKept DEF Safe, ProbeSafe
<1>3. blob' # NoBlob => PrimaryServes'
  <2> SUFFICES ASSUME blob # NoBlob PROVE PrimaryServes'
    BY DEF NoBlob
  <2>1. PICK s \in PrimarySlots :
          /\ Serves(rows[s].status) /\ Held(s, rows[s].loc)
          /\ s[2] # "LOCAL" => store[s][rows[s].loc] = blob.hash
    BY DEF Safe, PrimaryServes, Held
  <2>2. Present(s) /\ rows[s].loc \in Locs
    BY <2>1, RowType, SlotParts DEF Serves, Present, TypeInv
  <2>3. rows'[s].loc = rows[s].loc /\ Serves(rows'[s].status)
    BY <2>1, <2>2 DEF RowsKept
  <2>4. store'[s][rows[s].loc] # None
        /\ (s[2] # "LOCAL" => store'[s][rows[s].loc] = store[s][rows[s].loc])
    BY <2>1, <2>2 DEF PrimaryGrows, Held, Far
  <2> QED
    BY <2>1, <2>3, <2>4 DEF PrimaryServes
<1> QED
  BY <1>1, <1>2, <1>3 DEF Safe

(* Steps that leave the rows, the reads and the health check alone.        *)
LEMMA KeepRows ==
    ASSUME TypeInv, Safe, PrimaryGrows, UploadsHeld', NoPrimaryJobs',
           UNCHANGED <<blob, rows, reader, probe>>
    PROVE  Safe'
<1>1. RowsKept /\ \A s \in PrimarySlots : Present(s)' => Present(s)
  BY DEF RowsKept, Present
<1> QED
  BY <1>1, KeepSafe, RowsServeKept DEF Safe, ProbeSafe

LEMMA JobsStill ==
    ASSUME NoPrimaryJobs, UNCHANGED <<queue, task>>
    PROVE  NoPrimaryJobs'
BY DEF NoPrimaryJobs, Busy

LEMMA UpStill ==
    ASSUME UNCHANGED up
    PROVE  UpKept
BY DEF UpKept

LEMMA UploadSafe ==
    ASSUME TypeInv, TypeInv', Fresh, Safe, NEW r \in Requests,
           UploadPut(r) \/ UploadPutFails(r) \/ UploadCommit(r)
             \/ WriteThroughFind(r) \/ CommitManifest(r)
    PROVE  Safe'
<1>0. /\ TypeOK /\ up \in [Requests -> [pc: {"idle", "stored", "committed", "done", "failed"},
                                       kind: PrimaryKinds \cup {None}, loc: Locs]]
      /\ r \in Bytes /\ r # None /\ \A kind \in PrimaryKinds : <<"PRIMARY", kind>> \in Slots
  BY ConstantsAssumption DEF TypeInv, TypeOK, Bytes, Slots, PrimarySlots
<1>1. CASE UploadPut(r)
  <2>1. PICK kind \in PrimaryKinds :
          /\ Put(<<"PRIMARY", kind>>, r)
          /\ up' = [up EXCEPT ![r] = [pc |-> "stored", kind |-> kind,
                                      loc |-> PutLoc(<<"PRIMARY", kind>>)]]
    BY <1>1 DEF UploadPut
  <2> DEFINE s == <<"PRIMARY", kind>>
  <2>2. s \in Slots /\ PrimaryGrows /\ store'[s][PutLoc(s)] = r
    BY <1>0, <2>1, PutGrows, PutEffect
  <2>3. \A q \in Requests \ {r} : up'[q] = up[q]
    BY <1>0, <2>1
  <2>4. UploadHeld(r)'
    BY <1>0, <2>1, <2>2 DEF UploadHeld, Held
  <2>5. \A q \in Requests \ {r} : UploadHeld(q)'
    <3> SUFFICES ASSUME NEW q \in Requests \ {r}, up[q].pc \in StoredPcs
                 PROVE  UploadHeld(q)'
      BY <2>3 DEF UploadHeld
    <3> DEFINE t == <<"PRIMARY", up[q].kind>>
    <3>1. t \in PrimarySlots /\ up[q].loc \in Locs
      BY <1>0 DEF TypeInv, KindKnown, StoredPcs, PrimarySlots
    <3>2. Held(t, up[q].loc) /\ (Far(t) => store[t][up[q].loc] = q)
      BY DEF Safe, UploadsHeld, UploadHeld
    <3>3. store'[t][up[q].loc] # None /\ (Far(t) => store'[t][up[q].loc] = q)
      BY <2>2, <3>1, <3>2 DEF PrimaryGrows, Held
    <3> QED
      BY <2>3, <3>3 DEF UploadHeld, Held, Far
  <2> QED
    BY <1>1, <2>2, <2>4, <2>5, KeepRows, JobsStill
    DEF UploadPut, dbVars, workVars, UploadsHeld, Safe
<1>2. CASE UploadPutFails(r)
  <2>1. PrimaryGrows
    BY <1>0, <1>2, PutGrows, StillGrows DEF UploadPutFails, PutFails, poolVars
  <2>2. UpKept
    BY <1>0, <1>2 DEF UploadPutFails, UpKept, StoredPcs
  <2> QED
    BY <1>2, <2>1, <2>2, KeepRows, UploadsKept, JobsStill
    DEF UploadPutFails, dbVars, workVars, Safe
<1>3. CASE UploadCommit(r)
  <2> DEFINE home == <<"PRIMARY", up[r].kind>>
  <2>1. /\ home \in PrimarySlots /\ up[r].loc \in Locs /\ up[r].pc = "stored"
        /\ store[home][up[r].loc] # None /\ (Far(home) => store[home][up[r].loc] = r)
        /\ up[r].kind \in PrimaryKinds
    BY <1>0, <1>3
    DEF UploadCommit, TypeInv, KindKnown, PrimarySlots, Safe, UploadsHeld, UploadHeld, Held,
        StoredPcs
  <2>2. PrimaryGrows /\ UpKept /\ UNCHANGED <<store, queue, task, reader, probe>>
    BY <1>0, <1>3, StillGrows DEF UploadCommit, poolVars, workVars, UpKept, StoredPcs
  <2>3. blob' = [hash |-> r, kind |-> up[r].kind,
                 mloc |-> IF up[r].kind = "DISCORD" THEN up[r].loc ELSE blob.mloc]
    BY <1>3 DEF UploadCommit
  <2>4. /\ rows'[home].status = "ACTIVE" /\ rows'[home].loc = up[r].loc
        /\ \A s \in PrimarySlots \ {home} : rows'[s] = NoRow
    <3>1. \A s \in Slots : rows'[s] = RowAfterUpload(r, s)
      BY <1>3 DEF UploadCommit
    <3>2. home \in Slots /\ \A s \in PrimarySlots : s \in Slots /\ s[1] = "PRIMARY"
      BY <2>1, SlotParts
    <3>3. \A s \in PrimarySlots \ {home} : rows'[s] = NoRow
      BY <3>1, <3>2 DEF RowAfterUpload
    <3>4. rows'[home] = RowAfterUpload(r, home)
      BY <3>1, <3>2
    <3>5. RowAfterUpload(r, home).status = "ACTIVE" /\ RowAfterUpload(r, home).loc = up[r].loc
      BY DEF RowAfterUpload
    <3> QED
      BY <3>3, <3>4, <3>5
  <2>5. PrimaryRowsServe'
    BY <2>1, <2>2, <2>4 DEF PrimaryRowsServe, Held, Serves, Present, NoRow
  <2>6. PrimaryServes'
    BY <2>1, <2>2, <2>3, <2>4 DEF PrimaryServes, Serves, Far
  <2>7. PrimaryRefsHeld' /\ NoPrimaryJobs'
    BY <2>2, JobsStill DEF Safe, PrimaryRefsHeld, Held
  <2>8. ProbeSafe'
    <3>1. MirrorHeld(blob.mloc) /\ (probe.pc = "listed" => MirrorHeld(probe.mloc))
          /\ (probe.pc = "checked" => probe.verdict # "MISSING")
      BY DEF Safe, ProbeSafe
    <3>2. store'["PRIMARY", "DISCORD"] = store["PRIMARY", "DISCORD"]
      BY <2>2
    <3>3. blob'.mloc = blob.mloc \/ (up[r].kind = "DISCORD" /\ blob'.mloc = up[r].loc)
      BY <2>3
    <3> QED
      BY <2>1, <2>2, <3>1, <3>2, <3>3 DEF ProbeSafe, MirrorHeld, Held
  <2> QED
    BY <2>2, <2>5, <2>6, <2>7, <2>8, UploadsKept DEF Safe
<1>4. CASE WriteThroughFind(r)
  <2>1. UpKept /\ UNCHANGED <<blob, rows, store, task, reader, probe>>
        /\ queue' = [queue EXCEPT ![r] =
                       {Snapshot(s) : s \in {t \in ReplicaSlots : rows[t].status = "PENDING"}}]
    BY <1>0, <1>4 DEF WriteThroughFind, UpKept, StoredPcs, dbVars, poolVars
  <2>2. NoPrimaryJobs'
    <3>1. \A q \in Queues : q # r => queue'[q] = queue[q]
      BY <1>0, <2>1 DEF TypeOK
    <3>2. \A sn \in queue'[r] : sn.slot \in ReplicaSlots
      BY <1>0, <2>1 DEF TypeOK, Queues, Snapshot
    <3> QED
      BY <2>1, <3>1, <3>2 DEF Safe, NoPrimaryJobs, Busy
  <2> QED
    BY <2>1, <2>2, KeepRows, UploadsKept, StillGrows DEF Safe
<1>5. CASE CommitManifest(r)
  <2>1. /\ PrimaryGrows /\ UNCHANGED <<store, up, queue, task, reader, probe, blob>>
        /\ up[r].pc \in {"committed", "done"}
        /\ \A s \in Slots : rows'[s] = RowAfterManifest(r, s)
    BY <1>5, StillGrows DEF CommitManifest, poolVars, workVars
  <2>2. UploadsHeld' /\ NoPrimaryJobs'
    BY <2>1, UploadsKept, UpStill, JobsStill DEF Safe
  <2>3. RowsKept
    BY <2>1, SlotParts DEF RowsKept, RowAfterManifest, Present
  <2>4. PrimaryRowsServe'
    <3> SUFFICES ASSUME NEW s \in PrimarySlots, Present(s)'
                 PROVE  Serves(rows'[s].status) /\ store[s][rows'[s].loc] # None
      BY <2>1 DEF PrimaryRowsServe, Held
    <3>1. s \in Slots /\ s[1] = "PRIMARY"
      BY SlotParts
    <3>2. CASE Present(s)
      BY <2>1, <3>1, <3>2 DEF RowAfterManifest, Safe, PrimaryRowsServe, Held
    <3>3. CASE ~Present(s)
      <4>1. s = <<"PRIMARY", up[r].kind>> /\ rows'[s].status = "ACTIVE"
            /\ rows'[s].loc = up[r].loc
        BY <2>1, <3>1, <3>3 DEF RowAfterManifest, Present, NoRow
      <4>2. Held(<<"PRIMARY", up[r].kind>>, up[r].loc)
        BY <2>1 DEF Safe, UploadsHeld, UploadHeld, StoredPcs
      <4> QED
        BY <4>1, <4>2 DEF Held, Serves
    <3> QED
      BY <3>2, <3>3
  <2> QED
    BY <2>1, <2>2, <2>3, <2>4, KeepSafe DEF Safe, ProbeSafe
<1> QED
  BY <1>1, <1>2, <1>3, <1>4, <1>5

LEMMA SweepSafe ==
    ASSUME TypeInv, Safe, SweepFind
    PROVE  Safe'
<1>1. PICK batch \in SUBSET Due : queue' = [queue EXCEPT !["sweep"] = {Snapshot(s) : s \in batch}]
  BY DEF SweepFind
<1>2. UNCHANGED <<blob, rows, store, up, task, reader, probe>>
  BY DEF SweepFind, dbVars, poolVars
<1>3. \A s \in Due : s \in ReplicaSlots
  BY DEF Due, Safe, PrimaryRowsServe, Serves, Present, Slots
<1>4. NoPrimaryJobs'
  <2>1. \A q \in Queues : q # "sweep" => queue'[q] = queue[q]
    BY <1>1 DEF TypeInv, TypeOK
  <2>2. \A sn \in queue'["sweep"] : sn.slot \in ReplicaSlots
    BY <1>1, <1>3 DEF TypeInv, TypeOK, Queues, Snapshot
  <2> QED
    BY <1>2, <2>1, <2>2 DEF Safe, NoPrimaryJobs, Busy
<1> QED
  BY <1>2, <1>4, KeepRows, UploadsKept, UpStill, StillGrows DEF Safe

LEMMA ReplicationSafe ==
    ASSUME TypeInv, Fresh, Safe, NEW w \in Workers, ReplicationStep(w)
    PROVE  Safe'
<1>0. TypeOK /\ task \in [Workers -> Tasks \cup {IdleTask}] /\ queue \in [Queues -> SUBSET Snapshots]
  BY DEF TypeInv, TypeOK, Tasks
<1>1. Busy(w) => task[w].snap.slot \in ReplicaSlots /\ task[w].snap.slot \in Slots
  BY SlotParts DEF Safe, NoPrimaryJobs
<1>2. ~RefreshMirror(w)
  BY <1>1, SlotParts DEF RefreshMirror, Busy, TypeInv, MirrorTask
<1>3. NoPrimaryJobs'
  <2>1. CASE Claim(w)
    <3>1. PICK sn \in queue[QueueOf(w)] :
            /\ queue' = [queue EXCEPT ![QueueOf(w)] = @ \ {sn}]
            /\ IF RowId(sn) \in inFlight
                 THEN UNCHANGED <<task, inFlight>>
                 ELSE /\ inFlight' = inFlight \cup {RowId(sn)}
                      /\ task' = [task EXCEPT ![w] = [pc |-> "source", snap |-> sn,
                                                      bytes |-> None, loc |-> 0]]
      BY <2>1 DEF Claim
    <3>2. QueueOf(w) \in Queues
      BY DEF QueueOf, Queues
    <3>3. \A q \in Queues : queue'[q] \subseteq queue[q]
      BY <1>0, <3>1, <3>2
    <3>4. sn.slot \in ReplicaSlots
      BY <3>1, <3>2 DEF Safe, NoPrimaryJobs
    <3>5. \A v \in Workers : task'[v] = task[v] \/ task'[v].snap = sn
      BY <1>0, <3>1
    <3> QED
      BY <3>3, <3>4, <3>5 DEF Safe, NoPrimaryJobs, Busy
  <2>2. CASE ~Claim(w)
    <3>1. UNCHANGED queue
      BY <2>2 DEF ReplicationStep, FetchSource, FetchFails, DropOld, PutCopy, PutCopyFails,
                  Activate, ActivateMisses, Cleanup, RefreshMirror, GiveUp
    <3>2. task'[w] = IdleTask \/ (Busy(w) /\ task'[w].snap = task[w].snap)
      <4>1. Busy(w)
        BY <2>2 DEF ReplicationStep, FetchSource, FetchFails, DropOld, PutCopy, PutCopyFails,
                    Activate, ActivateMisses, Cleanup, RefreshMirror, Busy
      <4>2. task[w] \in Tasks
        BY <1>0, <4>1, TaskType
      <4>3. CASE FetchFails(w) \/ PutCopyFails(w) \/ Cleanup(w)
        BY <1>0, <4>3 DEF FetchFails, PutCopyFails, Cleanup, GiveUp, Release
      <4>4. CASE Activate(w)
        <5>1. task[w].snap.slot[1] # "PRIMARY"
          BY <1>1, <4>1, SlotParts
        <5> QED
          BY <1>0, <4>4, <5>1 DEF Activate, Release
      <4>5. CASE FetchSource(w)
        BY <1>0, <4>1, <4>2, <4>5 DEF FetchSource, Tasks
      <4>6. CASE DropOld(w)
        BY <1>0, <4>1, <4>2, <4>6 DEF DropOld, Tasks
      <4>7. CASE PutCopy(w)
        BY <1>0, <4>1, <4>2, <4>7 DEF PutCopy, Tasks
      <4>8. CASE ActivateMisses(w)
        BY <1>0, <4>1, <4>2, <4>8 DEF ActivateMisses, Tasks
      <4> QED
        BY <1>2, <2>2, <4>3, <4>4, <4>5, <4>6, <4>7, <4>8 DEF ReplicationStep
    <3>3. \A v \in Workers \ {w} : task'[v] = task[v]
      BY <1>0, OtherTasks
    <3> QED
      BY <3>1, <3>2, <3>3 DEF Safe, NoPrimaryJobs, Busy, IdleTask
  <2> QED
    BY <2>1, <2>2
<1>4. PrimaryGrows
  <2>1. Busy(w) => task[w].snap.loc \in Locs /\ task[w].loc \in Locs
                   /\ task[w].snap.slot \in Slots
    BY <1>0, JobType
  <2>2. CASE DropOld(w) \/ Cleanup(w)
    BY <1>0, <1>1, <2>1, <2>2, ReplicaGrows DEF DropOld, Cleanup, DeleteBestEffort, Busy
  <2>3. ASSUME PutCopy(w) \/ PutCopyFails(w)
        PROVE  PrimaryGrows
    <3> DEFINE s == task[w].snap.slot
               b == task[w].bytes
    <3>1. s \in ReplicaSlots /\ s \in Slots /\ b \in Bytes
      BY <1>0, <1>1, <2>3, JobType DEF PutCopy, PutCopyFails, Busy
    <3>2. Put(s, b) \/ UNCHANGED store
      BY <2>3 DEF PutCopy, PutCopyFails, PutFails, poolVars
    <3> HIDE DEF s, b
    <3>3. ASSUME Put(s, b) PROVE PrimaryGrows
      <4>1. \A t \in PrimarySlots : t \in Slots \ {s}
        BY <3>1, SlotParts
      <4>2. \A t \in Slots \ {s} : store'[t] = store[t]
        BY <1>0, <3>1, <3>3, PutEffect
      <4> QED
        BY <4>1, <4>2 DEF PrimaryGrows, Held
    <3> QED
      BY <3>2, <3>3, StillGrows
  <2> QED
    BY <2>2, <2>3, StillGrows
    DEF ReplicationStep, Claim, FetchSource, FetchFails, Activate, ActivateMisses,
        RefreshMirror, poolVars
<1>5. UNCHANGED <<blob, up, reader, probe>>
  BY <1>2 DEF ReplicationStep, Claim, FetchSource, FetchFails, DropOld, PutCopy, PutCopyFails,
              Activate, ActivateMisses, Cleanup, GiveUp, dbVars
<1>6. \A s \in PrimarySlots : rows'[s] = rows[s]
  <2>1. \A s \in PrimarySlots : s \in Slots
    BY SlotParts
  <2>2. CASE FetchFails(w) \/ PutCopyFails(w) \/ Activate(w)
    <3>1. \A s \in PrimarySlots : ~IsRow(s, task[w].snap)
      BY <1>1, <2>2, SlotParts DEF FetchFails, PutCopyFails, Activate, Busy, IsRow
    <3> QED
      BY <2>1, <2>2, <3>1 DEF FetchFails, PutCopyFails, GiveUp, Activate, Activatable
  <2> QED
    BY <1>2, <2>2 DEF ReplicationStep, Claim, FetchSource, DropOld, PutCopy,
                ActivateMisses, Cleanup, dbVars
<1>7. RowsKept /\ \A s \in PrimarySlots : Present(s)' => Present(s)
  BY <1>6 DEF RowsKept, Present
<1> QED
  BY <1>3, <1>4, <1>5, <1>7, KeepSafe, RowsServeKept, UploadsKept, UpStill DEF Safe, ProbeSafe

LEMMA ReadSafe ==
    ASSUME TypeInv, Safe, NEW x \in Readers,
           ReadStart(x) \/ ReadHit(x) \/ ReadMiss(x) \/ ReadError(x)
    PROVE  Safe'
<1>0. reader \in [Readers -> SUBSET Refs]
  BY DEF TypeInv, TypeOK
<1>1. UNCHANGED <<blob, store, up, queue, task, probe>>
  BY DEF ReadStart, ReadHit, ReadMiss, ReadError, dbVars, poolVars, workVars
<1>2. PrimaryGrows /\ UploadsHeld' /\ NoPrimaryJobs'
  BY <1>1, StillGrows, UploadsKept, UpStill, JobsStill DEF Safe
<1>3. \A s \in PrimarySlots : rows'[s] = rows[s]
  <2>1. CASE ReadMiss(x)
    <3>1. PICK c \in ReadFirst(reader[x]) :
            /\ Copy(c) = None
            /\ rows' = [s \in Slots |->
                          IF IsRow(s, c) /\ Serves(rows[s].status)
                            THEN [rows[s] EXCEPT !.status = "MISSING", !.attempts = 0]
                            ELSE rows[s]]
      BY <2>1 DEF ReadMiss
    <3>2. c.slot \notin PrimarySlots
      BY <3>1 DEF Safe, PrimaryRefsHeld, Held, Copy, ReadFirst
    <3> QED
      BY <3>1, <3>2, SlotParts DEF IsRow
  <2> QED
    BY <2>1 DEF ReadStart, ReadHit, ReadMiss, ReadError, dbVars
<1>4. \A y \in Readers : \A c \in reader'[y] :
        c \in reader[y] \/ (Present(c.slot) /\ c.loc = rows[c.slot].loc)
  <2>1. CASE ReadStart(x)
    <3>1. \A y \in Readers : y # x => reader'[y] = reader[y]
      BY <1>0, <2>1 DEF ReadStart
    <3>2. reader'[x] = {Ref(s) : s \in {t \in Slots : Serves(rows[t].status)}}
      BY <1>0, <2>1 DEF ReadStart
    <3>3. \A c \in reader'[x] : Present(c.slot) /\ c.loc = rows[c.slot].loc
      BY <3>2 DEF Ref, Serves, Present
    <3> QED
      BY <3>1, <3>3
  <2>2. CASE ReadHit(x) \/ ReadMiss(x) \/ ReadError(x)
    BY <1>0, <2>2 DEF ReadHit, ReadMiss, ReadError
  <2> QED
    BY <2>1, <2>2
<1>5. RowsKept /\ \A s \in PrimarySlots : Present(s)' => Present(s)
  BY <1>3 DEF RowsKept, Present
<1> QED
  BY <1>1, <1>2, <1>4, <1>5, KeepSafe, RowsServeKept DEF Safe, ProbeSafe

LEMMA ProbeStepSafe ==
    ASSUME TypeInv, Safe, ProbeList \/ ProbeCheck \/ ProbeSkip \/ ProbeFlush
    PROVE  Safe'
<1>1. UNCHANGED <<blob, store, up, queue, task, reader>>
  BY DEF ProbeList, ProbeCheck, ProbeSkip, ProbeFlush, dbVars, poolVars, workVars
<1>2. PrimaryGrows /\ UploadsHeld' /\ NoPrimaryJobs'
  BY <1>1, StillGrows, UploadsKept, UpStill, JobsStill DEF Safe
<1>3. probe'.pc = "checked" => probe'.verdict # "MISSING"
  <2>1. CASE ProbeList
    BY <2>1 DEF ProbeList
  <2>2. CASE ProbeCheck
    <3>1. probe.pc = "listed" /\ ~ProbeCannotTell
          /\ probe.mloc \in Locs /\ probe.kind \in PrimaryKinds
      BY <2>2 DEF ProbeCheck, TypeInv, TypeOK, IdleProbe
    <3>2. ProbeFinds # None
      BY <3>1 DEF ProbeCannotTell, ProbeFinds, Safe, ProbeSafe, MirrorHeld, Held
    <3>3. \A mode : ProbeVerdict(mode) # "MISSING"
      BY <3>2 DEF ProbeVerdict
    <3>4. \E mode \in {"exists", "integrity"} :
            probe' = [probe EXCEPT !.pc = "checked", !.verdict = ProbeVerdict(mode)]
      BY <2>2 DEF ProbeCheck
    <3>5. probe = [pc |-> probe.pc, kind |-> probe.kind, mloc |-> probe.mloc,
                   hash |-> probe.hash, verdict |-> probe.verdict]
      BY DEF TypeInv, TypeOK, IdleProbe
    <3>6. \E mode \in {"exists", "integrity"} : probe'.verdict = ProbeVerdict(mode)
      BY <3>4, <3>5
    <3> QED
      BY <3>3, <3>6
  <2>3. CASE ProbeSkip \/ ProbeFlush
    BY <2>3 DEF ProbeSkip, ProbeFlush, IdleProbe
  <2> QED
    BY <2>1, <2>2, <2>3
<1>4. probe'.pc = "listed" => probe'.mloc = blob.mloc
  <2>1. CASE ProbeList
    BY <2>1 DEF ProbeList
  <2>2. CASE ProbeCheck
    <3>1. probe \in [pc: {"listed"}, kind: PrimaryKinds, mloc: Locs, hash: Requests,
                     verdict: {None}]
      BY <2>2 DEF ProbeCheck, TypeInv, TypeOK, IdleProbe
    <3>2. probe'.pc = "checked"
      BY <2>2, <3>1 DEF ProbeCheck
    <3> QED
      BY <3>2
  <2>3. CASE ProbeSkip \/ ProbeFlush
    BY <2>3 DEF ProbeSkip, ProbeFlush, IdleProbe
  <2> QED
    BY <2>1, <2>2, <2>3
<1>5. /\ RowsKept
      /\ \A s \in PrimarySlots : Present(s)' => Present(s)
  <2>1. CASE ProbeFlush
    <3>1. probe.verdict \in {"ACTIVE", "MODIFIED"}
      BY <2>1 DEF ProbeFlush, TypeInv, TypeOK, IdleProbe, Safe, ProbeSafe
    <3>2. \A s \in PrimarySlots :
            /\ s \in Slots /\ (Present(s) => rows[s] \in Rows)
            /\ (~Present(s) => rows[s] = NoRow)
            /\ (Present(s) => Serves(rows[s].status))
      BY SlotParts, RowType DEF TypeInv, Safe, PrimaryRowsServe
    <3>3. \A s \in PrimarySlots :
            rows'[s] = IF rows[s].status \in {"ACTIVE", "MISSING", "MODIFIED"}
                         THEN [rows[s] EXCEPT !.status = probe.verdict] ELSE rows[s]
      BY <2>1, <3>2 DEF ProbeFlush
    <3>4. \A s \in PrimarySlots : ~Present(s) => rows'[s] = rows[s]
      BY <3>2, <3>3 DEF Present, NoRow
    <3>5. ASSUME NEW s \in PrimarySlots, Present(s)
          PROVE  /\ rows'[s].status = probe.verdict /\ rows'[s].loc = rows[s].loc
      <4>1. rows'[s] = [rows[s] EXCEPT !.status = probe.verdict] /\ rows[s] \in Rows
        BY <3>2, <3>3, <3>5 DEF Serves
      <4> QED
        BY <4>1 DEF Rows
    <3> QED
      BY <3>1, <3>4, <3>5 DEF RowsKept, Present, Serves
  <2>2. CASE ~ProbeFlush
    BY <2>2 DEF ProbeList, ProbeCheck, ProbeSkip, dbVars, RowsKept, Present
  <2> QED
    BY <2>1, <2>2
<1> QED
  BY <1>1, <1>2, <1>3, <1>4, <1>5, KeepSafe, RowsServeKept DEF Safe

LEMMA LoseSafe ==
    ASSUME TypeInv, Fresh, Safe, Unharmed', NEW s \in Slots, NEW l \in Locs, LoseCopy(s, l)
    PROVE  Safe'
<1>1. s \in ReplicaSlots
  BY DEF LoseCopy, Unharmed, Slots
<1>2. UNCHANGED <<blob, rows, used, up, queue, task, reader, probe>>
      /\ store' = [store EXCEPT ![s][l] = None]
  BY DEF LoseCopy, dbVars, workVars
<1>3. PrimaryGrows
  BY <1>1, <1>2, ReplicaGrows DEF TypeInv
<1> QED
  BY <1>2, <1>3, KeepRows, UploadsKept, UpStill, JobsStill DEF Safe

LEMMA CrashSafe ==
    ASSUME TypeInv, Safe, Crash
    PROVE  Safe'
<1>1. UNCHANGED <<blob, rows, store>> /\ PrimaryGrows
  BY StillGrows DEF Crash, dbVars, poolVars
<1>2. UpKept
  <2>1. \A r \in Requests :
          up'[r] = CASE up[r].pc = "stored" -> [up[r] EXCEPT !.pc = "failed"]
                     [] up[r].pc = "committed" -> [up[r] EXCEPT !.pc = "done"]
                     [] OTHER -> up[r]
    BY DEF Crash
  <2>2. ASSUME NEW r \in Requests, up'[r].pc \in StoredPcs
        PROVE  up[r].pc \in StoredPcs /\ up'[r].kind = up[r].kind /\ up'[r].loc = up[r].loc
    <3>1. up[r] \in [pc: {"idle", "stored", "committed", "done", "failed"},
                     kind: PrimaryKinds \cup {None}, loc: Locs]
      BY DEF TypeInv, TypeOK
    <3>2. CASE up[r].pc = "stored"
      BY <2>1, <2>2, <3>1, <3>2 DEF StoredPcs
    <3>3. CASE up[r].pc = "committed"
      BY <2>1, <2>2, <3>1, <3>3 DEF StoredPcs
    <3>4. CASE up[r].pc \notin {"stored", "committed"}
      <4>1. up'[r] = up[r]
        BY <2>1, <3>4
      <4> QED
        BY <2>2, <4>1
    <3> QED
      BY <3>2, <3>3, <3>4
  <2> QED
    BY <2>2 DEF UpKept
<1>3. NoPrimaryJobs'
  BY DEF Crash, NoPrimaryJobs, Busy, IdleTask
<1>4. RowsKept /\ \A s \in PrimarySlots : Present(s)' => Present(s)
  BY <1>1 DEF RowsKept, Present
<1>5. /\ \A x \in Readers : reader'[x] = {}
      /\ probe' = IdleProbe
  BY DEF Crash
<1>6. probe'.pc \notin {"listed", "checked"}
  BY <1>5 DEF IdleProbe
<1>7. PrimaryRowsServe' /\ UploadsHeld'
  BY <1>1, <1>2, <1>4, RowsServeKept, UploadsKept DEF Safe
<1> QED
  BY <1>1, <1>3, <1>4, <1>5, <1>6, <1>7, KeepSafe

DurableInv == Fresh /\ (Unharmed => Safe)

(* A purge that has begun is never forgotten, nor is a loss.               *)
LEMMA PurgeStays ==
    ASSUME TypeInv, [Next]_vars, purge'.pc = "idle"
    PROVE  purge.pc = "idle"
<1>1. purge \in [pc: {"idle", "deleting", "interrupted", "done"},
                refs: SUBSET Refs, found: BOOLEAN]
  BY DEF TypeInv, TypeOK
<1>2. CASE PurgeStart \/ PurgeDelete \/ PurgeCommit
  BY <1>1, <1>2 DEF PurgeStart, PurgeDelete, PurgeCommit
<1>3. CASE Crash
  BY <1>3 DEF Crash
<1>4. CASE UNCHANGED purge
  BY <1>4
<1> QED
  BY <1>2, <1>3, <1>4
  DEF Next, vars, UploadPut, UploadPutFails, UploadCommit, WriteThroughFind,
      CommitManifest, SweepFind, ReplicationStep, Claim, FetchSource, FetchFails, DropOld,
      PutCopy, PutCopyFails, Activate, ActivateMisses, Cleanup, RefreshMirror, GiveUp,
      ReadStart, ReadHit, ReadMiss, ReadError, ProbeList, ProbeCheck, ProbeSkip, ProbeFlush,
      LoseCopy

LEMMA LossesStay ==
    ASSUME [Next]_vars
    PROVE  lost \subseteq lost'
BY DEF Next, vars, UploadPut, UploadPutFails, UploadCommit, WriteThroughFind,
       CommitManifest, SweepFind, ReplicationStep, Claim, FetchSource, FetchFails, DropOld,
       PutCopy, PutCopyFails, Activate, ActivateMisses, Cleanup, RefreshMirror,
       ReadStart, ReadHit, ReadMiss, ReadError, ProbeList, ProbeCheck, ProbeSkip, ProbeFlush,
       PurgeStart, PurgeDelete, PurgeCommit, LoseCopy, Crash, Put, PutFails, poolVars

LEMMA HarmStays ==
    ASSUME TypeInv, [Next]_vars, Unharmed'
    PROVE  Unharmed
BY PurgeStays, LossesStay DEF Unharmed

LEMMA DurableNext ==
    ASSUME TypeInv, TypeInv', DurableInv, [Next]_vars
    PROVE  DurableInv'
<1>1. Fresh'
  BY FreshNext DEF DurableInv
<1> SUFFICES ASSUME Unharmed' PROVE Safe'
  BY <1>1 DEF DurableInv
<1>2. Unharmed
  BY HarmStays
<1>3. Fresh /\ Safe
  BY <1>2 DEF DurableInv
<1>4. CASE PurgeStart \/ PurgeDelete \/ PurgeCommit
  BY <1>4 DEF PurgeStart, PurgeDelete, PurgeCommit, Unharmed, TypeInv, TypeOK
<1>5. CASE UNCHANGED vars
  BY <1>3, <1>5, KeepRows, StillGrows, UploadsKept, UpStill, JobsStill DEF vars, Safe
<1> QED
  BY <1>3, <1>4, <1>5, UploadSafe, SweepSafe, ReplicationSafe, ReadSafe, ProbeStepSafe,
     LoseSafe, CrashSafe DEF Next

LEMMA DurableAlways == Spec => []DurableInv
<1>1. Init => DurableInv
  <2> SUFFICES ASSUME Init PROVE Fresh /\ Safe
    BY DEF DurableInv
  <2>1. Fresh
    BY PoolTypes DEF Init, Fresh, Held
  <2>2. UploadsHeld /\ NoPrimaryJobs /\ PrimaryRefsHeld
    BY DEF Init, UploadsHeld, UploadHeld, StoredPcs, NoPrimaryJobs, Busy, IdleTask,
           PrimaryRefsHeld
  <2>3. PrimaryRowsServe /\ blob = NoBlob
    BY SlotParts DEF Init, PrimaryRowsServe, Present, NoRow
  <2>4. ProbeSafe
    BY DEF Init, ProbeSafe, MirrorHeld, IdleProbe, NoBlob
  <2> QED
    BY <2>1, <2>2, <2>3, <2>4 DEF Safe
<1>2. TypeInv /\ TypeInv' /\ DurableInv /\ [Next]_vars => DurableInv'
  BY DurableNext
<1> QED
  BY <1>1, <1>2, TypeInvAlways, PTL DEF Spec

(* Until a purge starts, and as long as the primary pools keep what they   *)
(* were given, a blob some upload was acknowledged for can be read from a  *)
(* PRIMARY placement, with the bytes on record: no crash, failing put or   *)
(* get, duplicate upload, read, health check or replication job in any     *)
(* order takes that away.                                                  *)
THEOREM Durability == Spec => []AckedUploadDurable
<1>1. DurableInv => AckedUploadDurable
  BY DEF DurableInv, AckedUploadDurable, Safe
<1> QED
  BY <1>1, DurableAlways, PTL

-----------------------------------------------------------------------------
(* The refinement.  Only an upload's commit and the purge's touch what the *)
(* blob stands for; every other step changes at most whether primary       *)
(* storage can serve it, and only harm lets it change that.                *)

Written == {r \in Requests : up[r].pc \in {"committed", "done"}}
Available == blob # NoBlob /\ PrimaryServes
Harmed == purge.pc # "idle" \/ lost \cap PrimarySlots # {}

LEMMA WrittenKept ==
    ASSUME TypeInv, [Next]_vars, ~Crash, \A r \in Requests : ~UploadCommit(r)
    PROVE  Written' = Written
<1>0. up \in [Requests -> [pc: {"idle", "stored", "committed", "done", "failed"},
                          kind: PrimaryKinds \cup {None}, loc: Locs]]
  BY DEF TypeInv, TypeOK
<1> SUFFICES ASSUME NEW q \in Requests
             PROVE  up'[q].pc \in {"committed", "done"} <=> up[q].pc \in {"committed", "done"}
  BY DEF Written
<1>1. ASSUME NEW r \in Requests, UploadPut(r) \/ UploadPutFails(r) \/ WriteThroughFind(r)
      PROVE  up'[q].pc \in {"committed", "done"} <=> up[q].pc \in {"committed", "done"}
  <2>1. q # r => up'[q] = up[q]
    BY <1>0, <1>1 DEF UploadPut, UploadPutFails, WriteThroughFind
  <2>2. CASE UploadPut(r)
    BY <1>0, <2>1, <2>2 DEF UploadPut
  <2>3. CASE UploadPutFails(r)
    BY <1>0, <2>1, <2>3 DEF UploadPutFails
  <2>4. CASE WriteThroughFind(r)
    BY <1>0, <2>1, <2>4 DEF WriteThroughFind
  <2> QED
    BY <1>1, <2>2, <2>3, <2>4
<1>2. CASE UNCHANGED up
  BY <1>2
<1> QED
  BY <1>1, <1>2
  DEF Next, vars, CommitManifest, SweepFind, ReplicationStep, Claim, FetchSource, FetchFails,
      DropOld, PutCopy, PutCopyFails, Activate, ActivateMisses, Cleanup, RefreshMirror, GiveUp,
      ReadStart, ReadHit, ReadMiss, ReadError, ProbeList, ProbeCheck, ProbeSkip, ProbeFlush,
      PurgeStart, PurgeDelete, PurgeCommit, LoseCopy

LEMMA WrittenThroughCrash ==
    ASSUME TypeInv, Crash
    PROVE  Written' = Written
<1> SUFFICES ASSUME NEW r \in Requests
             PROVE  up'[r].pc \in {"committed", "done"} <=> up[r].pc \in {"committed", "done"}
  BY DEF Written
<1>1. up[r] \in [pc: {"idle", "stored", "committed", "done", "failed"},
                 kind: PrimaryKinds \cup {None}, loc: Locs]
  BY DEF TypeInv, TypeOK
<1>2. up'[r] = CASE up[r].pc = "stored" -> [up[r] EXCEPT !.pc = "failed"]
                 [] up[r].pc = "committed" -> [up[r] EXCEPT !.pc = "done"]
                 [] OTHER -> up[r]
  BY DEF Crash
<1>3. CASE up[r].pc = "stored"
  BY <1>1, <1>2, <1>3
<1>4. CASE up[r].pc = "committed"
  BY <1>1, <1>2, <1>4
<1>5. CASE up[r].pc \notin {"stored", "committed"}
  BY <1>2, <1>5
<1> QED
  BY <1>3, <1>4, <1>5

LEMMA ContentKept ==
    ASSUME TypeInv, [Next]_vars, ~PurgeCommit, \A r \in Requests : ~UploadCommit(r)
    PROVE  blob'.hash = blob.hash /\ (blob' = NoBlob <=> blob = NoBlob)
<1>1. CASE UNCHANGED blob
  BY <1>1
<1>2. ASSUME NEW w \in Workers, RefreshMirror(w)
      PROVE  blob'.hash = blob.hash /\ (blob' = NoBlob <=> blob = NoBlob)
  <2>1. CASE blob = NoBlob
    BY <1>2, <2>1 DEF RefreshMirror
  <2>2. CASE blob # NoBlob
    <3>1. blob.hash # None
      BY <2>2, BlobType, ConstantsAssumption DEF TypeInv, BlobRows
    <3>2. blob'.hash = blob.hash
      BY <1>2, <2>2 DEF RefreshMirror
    <3> QED
      BY <2>2, <3>1, <3>2 DEF NoBlob
  <2> QED
    BY <2>1, <2>2
<1> QED
  BY <1>1, <1>2
  DEF Next, vars, UploadPut, UploadPutFails, WriteThroughFind, CommitManifest, SweepFind,
      ReplicationStep, Claim, FetchSource, FetchFails, DropOld, PutCopy, PutCopyFails, Activate,
      ActivateMisses, Cleanup, GiveUp, ReadStart, ReadHit, ReadMiss, ReadError, ProbeList,
      ProbeCheck, ProbeSkip, ProbeFlush, PurgeStart, PurgeDelete, LoseCopy, Crash, dbVars

LEMMA DurableStep ==
    ASSUME TypeInv, TypeInv', DurableInv, DurableInv', [Next]_vars
    PROVE  [Durable!Next]_Durable!vars
<1> USE DEF Written, Available, Harmed
<1>0. Harmed \in BOOLEAN /\ Available \in BOOLEAN /\ Available' \in BOOLEAN
      /\ (Harmed <=> ~Unharmed) /\ (Harmed' <=> ~Unharmed') /\ (Harmed => Harmed')
  BY HarmStays DEF Unharmed, PrimaryServes
<1>1. ~Harmed => (Available <=> blob # NoBlob)
  BY <1>0 DEF DurableInv, Safe
<1>2. ~Harmed' => (Available' <=> blob' # NoBlob)
  BY <1>0 DEF DurableInv, Safe
<1>3. ASSUME NEW r \in Requests, UploadCommit(r)
      PROVE  Durable!Write(r)
  <2>0. up \in [Requests -> [pc: {"idle", "stored", "committed", "done", "failed"},
                            kind: PrimaryKinds \cup {None}, loc: Locs]]
    BY DEF TypeInv, TypeOK
  <2>1. r \notin Written /\ Written' = Written \cup {r}
    BY <1>3, <2>0 DEF UploadCommit
  <2>2. blob'.hash = r /\ blob' # NoBlob
    BY <1>3, ConstantsAssumption DEF UploadCommit, NoBlob
  <2>3. Harmed' = Harmed
    BY <1>3 DEF UploadCommit, poolVars
  <2>4. Available' \in (IF Harmed THEN BOOLEAN ELSE {TRUE})
    BY <1>0, <1>2, <2>2, <2>3
  <2> QED
    BY <2>1, <2>2, <2>3, <2>4 DEF Durable!Write
<1>4. CASE PurgeCommit /\ purge.found
  <2>1. blob' = NoBlob /\ Harmed /\ Harmed'
    BY <1>0, <1>4 DEF PurgeCommit
  <2>2. Written' = Written
    BY <1>4 DEF PurgeCommit
  <2>3. Harmed' = Harmed
    BY <1>0, <2>1
  <2> QED
    BY <2>1, <2>2, <2>3 DEF Durable!Next, Durable!Delete, NoBlob
<1>5. CASE (PurgeCommit => ~purge.found) /\ \A r \in Requests : ~UploadCommit(r)
  <2>1. blob'.hash = blob.hash /\ (blob' = NoBlob <=> blob = NoBlob)
    BY <1>5, ContentKept DEF PurgeCommit
  <2>2. Written' = Written
    BY <1>5, WrittenKept, WrittenThroughCrash
  <2>3. CASE Harmed
    <3>1. Harmed' = Harmed
      BY <1>0, <2>3
    <3> QED
      BY <1>0, <2>1, <2>2, <2>3, <3>1 DEF Durable!Next, Durable!LoseOrHeal
  <2>4. CASE ~Harmed /\ Harmed'
    BY <1>0, <2>1, <2>2, <2>4 DEF Durable!Next, Durable!Harm
  <2>5. CASE ~Harmed /\ ~Harmed'
    <3>1. Harmed' = Harmed /\ Available' = Available
      BY <1>0, <1>1, <1>2, <2>1, <2>5
    <3> QED
      BY <2>1, <2>2, <3>1 DEF Durable!vars
  <2> QED
    BY <1>0, <2>3, <2>4, <2>5
<1> QED
  BY <1>3, <1>4, <1>5 DEF Durable!Next

(* Seen from outside, the blob is a DurableBlob: every step of the uploads,*)
(* the sweep, the reads, the health check, the purge and the crashes is a  *)
(* write, a harm, a loss or repair in harm's way, a deletion, or nothing.  *)
THEOREM Implements == Spec => ImplementsDurableBlob
<1>1. Init => Durable!Init
  <2> SUFFICES ASSUME Init PROVE Durable!Init
    OBVIOUS
  <2>1. blob.hash = None /\ blob = NoBlob
    BY DEF Init, NoBlob
  <2>2. {r \in Requests : up[r].pc \in {"committed", "done"}} = {}
    BY DEF Init
  <2>3. purge.pc = "idle" /\ lost = {}
    BY DEF Init
  <2> QED
    BY <2>1, <2>2, <2>3 DEF Durable!Init
<1>2. TypeInv /\ TypeInv' /\ DurableInv /\ DurableInv' /\ [Next]_vars
        => [Durable!Next]_Durable!vars
  BY DurableStep
<1> QED
  BY <1>1, <1>2, TypeInvAlways, DurableAlways, PTL DEF Spec, ImplementsDurableBlob, Durable!Spec

-----------------------------------------------------------------------------
(* No orphans.  In calm - no fault, one upload, no purge - a replica row    *)
(* is either still to be copied or names a message that is there, every     *)
(* job works for a row that has no message yet, and a read holds the row's  *)
(* own coordinates.                                                         *)

BlobIsAcked == blob # NoBlob => blob.hash \in Written
NoLosses == faults = 0 => lost = {}

CalmRow(s) ==
    Present(s) =>
      IF Far(s) THEN \/ rows[s].status = "PENDING" /\ rows[s].loc = 0
                     \/ rows[s].status = "ACTIVE" /\ rows[s].loc # 0 /\ Held(s, rows[s].loc)
      ELSE rows[s].loc = 0

ForRow(snap) == IsRow(snap.slot, snap) /\ snap.loc = 0

CalmJobs ==
    /\ \A q \in Queues : \A sn \in queue[q] : ForRow(sn)
    /\ \A w \in Workers : Busy(w) => ForRow(task[w].snap)

HandPcs == {"activate", "cleanup"}

CalmTask(w) ==
    task[w].pc \in HandPcs =>
      LET s == task[w].snap.slot IN
      IF Far(s) THEN task[w].loc \notin {0, rows[s].loc} /\ Held(s, task[w].loc)
      ELSE task[w].loc = 0

CalmRef(c) ==
    c.slot \in ReplicaSlots =>
      c.loc = rows[c.slot].loc /\ (Far(c.slot) => rows[c.slot].status = "ACTIVE")

InHand(s, l) ==
    \E w \in Workers : /\ task[w].pc \in HandPcs
                       /\ task[w].snap.slot = s
                       /\ task[w].loc = l

NoOrphan(s, l) == Held(s, l) => (Present(s) /\ rows[s].loc = l) \/ InHand(s, l)

CalmFacts ==
    /\ \A s \in ReplicaSlots : CalmRow(s)
    /\ CalmJobs
    /\ \A w \in Workers : CalmTask(w)
    /\ \A x \in Readers : \A c \in reader[x] : CalmRef(c)
    /\ \A s \in ReplicaSlots, l \in Locs : NoOrphan(s, l)

CalmInv == NoLosses /\ BlobIsAcked /\ (Calm => CalmFacts)

LEMMA FaultOrNot ==
    ASSUME [Next]_vars
    PROVE  UNCHANGED faults \/ \E kind \in Faults : Fault(kind)
<1>1. ASSUME NEW r \in Requests,
             UploadPut(r) \/ UploadPutFails(r) \/ UploadCommit(r)
               \/ WriteThroughFind(r) \/ CommitManifest(r)
      PROVE  UNCHANGED faults \/ Fault("put")
  BY <1>1 DEF UploadPut, UploadPutFails, UploadCommit, WriteThroughFind, CommitManifest, PutFails
<1>2. ASSUME NEW w \in Workers, ReplicationStep(w)
      PROVE  UNCHANGED faults \/ Fault("put") \/ Fault("get") \/ Fault("delete")
  <2>1. CASE FetchSource(w) \/ FetchFails(w)
    BY <2>1 DEF FetchSource, FetchFails, HasSource
  <2>2. CASE DropOld(w) \/ Cleanup(w) \/ PutCopyFails(w)
    BY <2>2 DEF DropOld, Cleanup, PutCopyFails, DeleteBestEffort, PutFails
  <2>3. CASE Claim(w) \/ PutCopy(w) \/ Activate(w) \/ ActivateMisses(w) \/ RefreshMirror(w)
    BY <2>3 DEF Claim, PutCopy, Activate, ActivateMisses, RefreshMirror
  <2> QED
    BY <1>2, <2>1, <2>2, <2>3 DEF ReplicationStep
<1>3. ASSUME NEW x \in Readers,
             ReadStart(x) \/ ReadHit(x) \/ ReadMiss(x) \/ ReadError(x)
      PROVE  UNCHANGED faults \/ Fault("get")
  BY <1>3 DEF ReadStart, ReadHit, ReadMiss, ReadError
<1>4. CASE ProbeList \/ ProbeCheck \/ ProbeSkip \/ ProbeFlush \/ SweepFind
  BY <1>4 DEF ProbeList, ProbeCheck, ProbeSkip, ProbeFlush, SweepFind, Faults
<1>5. CASE PurgeStart \/ PurgeDelete \/ PurgeCommit \/ Crash
  BY <1>5 DEF PurgeStart, PurgeDelete, PurgeCommit, Crash, DeleteBestEffort, Faults
<1>6. ASSUME NEW s \in Slots, NEW l \in Locs, LoseCopy(s, l)
      PROVE  Fault("lose")
  BY <1>6 DEF LoseCopy
<1>7. {"put", "get", "delete", "lose"} \subseteq Faults
  BY DEF Faults
<1>8. CASE UNCHANGED vars
  BY <1>8 DEF vars
<1> QED
  BY <1>1, <1>2, <1>3, <1>4, <1>5, <1>6, <1>7, <1>8 DEF Next

LEMMA FaultsGrow ==
    ASSUME TypeOK, [Next]_vars
    PROVE  faults \in Nat /\ faults' >= faults
<1>1. faults \in Nat
  BY ConstantsAssumption DEF TypeOK
<1> QED
  BY <1>1, FaultOrNot DEF Fault

LEMMA StartedStays ==
    ASSUME TypeInv, [Next]_vars, NEW q \in Requests, up[q].pc # "idle"
    PROVE  up'[q].pc # "idle"
<1>0. up \in [Requests -> [pc: {"idle", "stored", "committed", "done", "failed"},
                          kind: PrimaryKinds \cup {None}, loc: Locs]]
  BY DEF TypeInv, TypeOK
<1>1. ASSUME NEW r \in Requests,
             UploadPut(r) \/ UploadPutFails(r) \/ UploadCommit(r) \/ WriteThroughFind(r)
      PROVE  up'[q].pc # "idle"
  BY <1>0, <1>1 DEF UploadPut, UploadPutFails, UploadCommit, WriteThroughFind
<1>2. CASE Crash
  <2>1. up'[q] = CASE up[q].pc = "stored" -> [up[q] EXCEPT !.pc = "failed"]
                   [] up[q].pc = "committed" -> [up[q] EXCEPT !.pc = "done"]
                   [] OTHER -> up[q]
    BY <1>2 DEF Crash
  <2>2. up[q] \in [pc: {"idle", "stored", "committed", "done", "failed"},
                  kind: PrimaryKinds \cup {None}, loc: Locs]
    BY <1>0
  <2>3. CASE up[q].pc = "stored"
    BY <2>1, <2>2, <2>3
  <2>4. CASE up[q].pc = "committed"
    BY <2>1, <2>2, <2>4
  <2>5. CASE up[q].pc \notin {"stored", "committed"}
    BY <2>1, <2>5
  <2> QED
    BY <2>3, <2>4, <2>5
<1>3. CASE UNCHANGED up
  BY <1>3
<1> QED
  BY <1>1, <1>2, <1>3
  DEF Next, vars, CommitManifest, SweepFind, ReplicationStep, Claim, FetchSource, FetchFails,
      DropOld, PutCopy, PutCopyFails, Activate, ActivateMisses, Cleanup, RefreshMirror, GiveUp,
      ReadStart, ReadHit, ReadMiss, ReadError, ProbeList, ProbeCheck, ProbeSkip, ProbeFlush,
      PurgeStart, PurgeDelete, PurgeCommit, LoseCopy

LEMMA CalmBefore ==
    ASSUME TypeInv, [Next]_vars, Calm'
    PROVE  Calm /\ faults' = faults
<1>1. faults = 0 /\ faults' = faults
  BY FaultsGrow DEF Calm, TypeInv
<1> QED
  BY <1>1, PurgeStays, StartedStays DEF Calm

LEMMA BlobIsAckedNext ==
    ASSUME TypeInv, BlobIsAcked, [Next]_vars
    PROVE  BlobIsAcked'
<1>1. ASSUME NEW r \in Requests, UploadCommit(r)
      PROVE  BlobIsAcked'
  <2>1. up' = [up EXCEPT ![r].pc = "committed"] /\ blob'.hash = r
    BY <1>1 DEF UploadCommit
  <2> QED
    BY <2>1 DEF BlobIsAcked, Written, TypeInv, TypeOK
<1>2. CASE PurgeCommit /\ purge.found
  BY <1>2 DEF PurgeCommit, BlobIsAcked
<1>3. CASE (PurgeCommit => ~purge.found) /\ \A r \in Requests : ~UploadCommit(r)
  <2>1. blob'.hash = blob.hash /\ (blob' = NoBlob <=> blob = NoBlob)
    BY <1>3, ContentKept DEF PurgeCommit
  <2>2. Written' = Written
    BY <1>3, WrittenKept, WrittenThroughCrash
  <2> QED
    BY <2>1, <2>2 DEF BlobIsAcked
<1> QED
  BY <1>1, <1>2, <1>3

LEMMA NoLossesNext ==
    ASSUME TypeInv, NoLosses, [Next]_vars
    PROVE  NoLosses'
<1> SUFFICES ASSUME faults' = 0 PROVE lost' = {}
  BY DEF NoLosses
<1>1. faults = 0 /\ lost = {} /\ faults' # faults + 1
  BY FaultsGrow DEF NoLosses, TypeInv
<1>2. \A s \in Slots, l \in Locs : ~LoseCopy(s, l)
  BY <1>1 DEF LoseCopy, Fault
<1> QED
  BY <1>1, <1>2
  DEF Next, vars, UploadPut, UploadPutFails, UploadCommit, WriteThroughFind,
      CommitManifest, SweepFind, ReplicationStep, Claim, FetchSource, FetchFails, DropOld,
      PutCopy, PutCopyFails, Activate, ActivateMisses, Cleanup, RefreshMirror,
      ReadStart, ReadHit, ReadMiss, ReadError, ProbeList, ProbeCheck, ProbeSkip, ProbeFlush,
      PurgeStart, PurgeDelete, PurgeCommit, Crash, PutFails, Put, poolVars

(* Steps that leave the replicas' messages, their rows' coordinates and    *)
(* what the jobs have in hand.                                             *)
StoreStill ==
    \A s \in ReplicaSlots, l \in Locs :
       store'[s][l] = store[s][l] \/ (l = 0 /\ store'[s][l] = None)

RowsStill ==
    \A s \in ReplicaSlots :
       /\ Present(s)' = Present(s) /\ rows'[s].by = rows[s].by
       /\ rows'[s].loc = rows[s].loc
       /\ Far(s) => rows'[s].status = rows[s].status

HandStill(w) ==
    /\ task'[w].pc \in HandPcs <=> task[w].pc \in HandPcs
    /\ task[w].pc \in HandPcs => task'[w].snap = task[w].snap /\ task'[w].loc = task[w].loc
    /\ task'[w].pc # "idle" => ForRow(task'[w].snap)

HandsStill == \A w \in Workers : HandStill(w)
QueuesCalm == \A q \in Queues : \A sn \in queue'[q] : ForRow(sn)
ReadsCalm == \A x \in Readers : \A c \in reader'[x] : CalmRef(c)

LEMMA StillDefaults ==
    ASSUME CalmFacts
    PROVE  /\ UNCHANGED store => StoreStill
           /\ UNCHANGED rows => RowsStill
           /\ UNCHANGED task => HandsStill
           /\ UNCHANGED queue => QueuesCalm
           /\ UNCHANGED reader => ReadsCalm
BY DEF CalmFacts, CalmJobs, StoreStill, RowsStill, HandsStill, HandStill, QueuesCalm, ReadsCalm,
       Present, Busy

LEMMA CalmStill ==
    ASSUME TypeInv, NoPrimaryJobs, NoPrimaryJobs', CalmFacts,
           StoreStill, RowsStill, HandsStill, QueuesCalm, ReadsCalm
    PROVE  CalmFacts'
<1>0. ReplicaSlots \subseteq Slots /\ \A s \in ReplicaSlots : rows[s].loc \in Locs
  BY SlotParts, RowType DEF TypeInv
<1>1. \A s \in ReplicaSlots : CalmRow(s)'
  BY <1>0 DEF CalmFacts, CalmRow, Held, Far, StoreStill, RowsStill
<1>2. CalmJobs'
  <2>1. \A sn : sn.slot \in ReplicaSlots /\ ForRow(sn) => ForRow(sn)'
    BY DEF ForRow, IsRow, RowsStill
  <2> QED
    BY <2>1 DEF CalmJobs, NoPrimaryJobs, Busy, QueuesCalm, HandsStill, HandStill
<1>3. \A w \in Workers : CalmTask(w)'
  <2> SUFFICES ASSUME NEW w \in Workers, task[w].pc \in HandPcs
               PROVE  CalmTask(w)'
    BY DEF CalmTask, HandsStill, HandStill
  <2>1. task[w].snap.slot \in ReplicaSlots /\ task[w].loc \in Locs
    BY JobType DEF NoPrimaryJobs, Busy, HandPcs, TypeInv
  <2> DEFINE s == task[w].snap.slot
             l == task[w].loc
  <2>2. IF Far(s) THEN l \notin {0, rows[s].loc} /\ store[s][l] # None ELSE l = 0
    BY DEF CalmFacts, CalmTask, Held
  <2>3. s \in ReplicaSlots /\ l \in Locs
    BY <2>1
  <2>4. task'[w].snap.slot = s /\ task'[w].loc = l
    BY DEF HandsStill, HandStill
  <2> HIDE DEF s, l
  <2>5. IF Far(s) THEN l \notin {0, rows'[s].loc} /\ store'[s][l] # None ELSE l = 0
    BY <2>2, <2>3 DEF StoreStill, RowsStill
  <2> QED
    BY <2>4, <2>5 DEF CalmTask, Held, Far
<1>4. \A x \in Readers : \A c \in reader'[x] : CalmRef(c)'
  BY DEF CalmRef, Far, ReadsCalm, RowsStill
<1>5. ASSUME NEW s \in ReplicaSlots, NEW l \in Locs
      PROVE  NoOrphan(s, l)'
  <2> SUFFICES ASSUME store'[s][l] # None
               PROVE  (Present(s)' /\ rows'[s].loc = l) \/ InHand(s, l)'
    BY DEF NoOrphan, Held
  <2>1. store[s][l] # None
    BY DEF StoreStill
  <2>2. (Present(s) /\ rows[s].loc = l) \/ InHand(s, l)
    BY <2>1 DEF CalmFacts, NoOrphan, Held
  <2>3. InHand(s, l) => InHand(s, l)'
    BY DEF InHand, HandsStill, HandStill
  <2> QED
    BY <2>2, <2>3 DEF RowsStill
<1> QED
  BY <1>1, <1>2, <1>3, <1>4, <1>5 DEF CalmFacts

(* The only job on its row.                                                *)
LEMMA Alone ==
    ASSUME OneWriterPerRow, CalmFacts, NEW v \in Workers, NEW w \in Workers, v # w,
           Busy(v), Busy(w)
    PROVE  task[v].snap.slot # task[w].snap.slot
BY DEF OneWriterPerRow, CalmFacts, CalmJobs, ForRow, IsRow, RowId

LEMMA CalmCommit ==
    ASSUME TypeInv, Safe, RowsNeedBlob, BlobIsAcked, Calm, CalmFacts,
           NEW r \in Requests, UploadCommit(r)
    PROVE  CalmFacts'
<1>1. up[r].pc = "stored" /\ Written = {}
  BY DEF UploadCommit, Calm, Written
<1>2. blob = NoBlob /\ \A s \in Slots : ~Present(s) /\ rows[s] = NoRow
  BY <1>1, RowType DEF BlobIsAcked, RowsNeedBlob, TypeInv
<1>3. ReplicaSlots \subseteq Slots /\ \A s \in ReplicaSlots : s[1] # "PRIMARY"
  BY SlotParts
<1>4. \A s \in ReplicaSlots :
        /\ rows'[s].status = "PENDING" /\ rows'[s].loc = 0
  <2> SUFFICES ASSUME NEW s \in ReplicaSlots
               PROVE  rows'[s].status = "PENDING" /\ rows'[s].loc = 0
    OBVIOUS
  <2>1. rows'[s] = RowAfterUpload(r, s)
    BY <1>3 DEF UploadCommit
  <2>2. s # <<"PRIMARY", up[r].kind>> /\ s[1] # "PRIMARY" /\ ~Present(s)
    BY <1>2, <1>3
  <2>3. RowAfterUpload(r, s) = [by |-> r, status |-> "PENDING", loc |-> 0, attempts |-> 0]
    BY <2>2 DEF RowAfterUpload
  <2> QED
    BY <2>1, <2>3
<1>5. UNCHANGED <<store, queue, task, reader>>
  BY DEF UploadCommit, poolVars, workVars
<1>6. /\ \A q \in Queues : queue[q] = {}
      /\ \A w \in Workers : ~Busy(w)
  <2>1. \A sn : sn.slot \in Slots => ~ForRow(sn)
    BY <1>2 DEF ForRow, IsRow
  <2>2. /\ \A q \in Queues : \A sn \in queue[q] : sn.slot \in Slots
        /\ \A w \in Workers : Busy(w) => task[w].snap.slot \in Slots
    BY SlotParts DEF Safe, NoPrimaryJobs
  <2> QED
    BY <2>1, <2>2 DEF CalmFacts, CalmJobs
<1>7. \A w \in Workers : task[w].pc \notin HandPcs
  BY <1>6 DEF Busy, HandPcs
<1>8. \A s \in ReplicaSlots : CalmRow(s)'
  BY <1>4 DEF CalmRow, Far
<1>9. CalmJobs' /\ \A w \in Workers : CalmTask(w)'
  BY <1>5, <1>6, <1>7 DEF CalmJobs, CalmTask, Busy
<1>10. \A x \in Readers : \A c \in reader'[x] : CalmRef(c)'
  <2>1. \A s \in ReplicaSlots : rows[s].loc = 0 /\ rows[s].status # "ACTIVE"
    BY <1>2, <1>3 DEF NoRow
  <2> QED
    BY <1>4, <1>5, <2>1 DEF CalmFacts, CalmRef, Far
<1>11. \A s \in ReplicaSlots, l \in Locs : NoOrphan(s, l)'
  BY <1>2, <1>3, <1>5, <1>7 DEF CalmFacts, NoOrphan, InHand, Held
<1> QED
  BY <1>8, <1>9, <1>10, <1>11 DEF CalmFacts

(* The job of w writes, activates or removes its own copy: only its own    *)
(* slot and its own record change.                                         *)
LEMMA CalmElsewhere ==
    ASSUME TypeInv, Safe, OneWriterPerRow, CalmFacts, NEW w \in Workers, Busy(w),
           \A v \in Workers \ {w} : task'[v] = task[v],
           \A s \in Slots \ {task[w].snap.slot} : rows'[s] = rows[s] /\ store'[s] = store[s]
    PROVE  /\ \A s \in ReplicaSlots \ {task[w].snap.slot} : CalmRow(s)'
           /\ \A v \in Workers \ {w} : CalmTask(v)'
           /\ \A s \in ReplicaSlots \ {task[w].snap.slot}, l \in Locs : NoOrphan(s, l)'
<1>0. ReplicaSlots \subseteq Slots
  BY SlotParts
<1>1. \A s \in ReplicaSlots \ {task[w].snap.slot} : CalmRow(s)'
  BY <1>0 DEF CalmFacts, CalmRow, Held, Present, Far
<1>2. \A v \in Workers \ {w} : CalmTask(v)'
  <2> SUFFICES ASSUME NEW v \in Workers \ {w}, task[v].pc \in HandPcs
               PROVE  CalmTask(v)'
    BY DEF CalmTask
  <2> DEFINE t == task[v].snap.slot
  <2>1. t # task[w].snap.slot /\ t \in Slots
    BY <1>0, Alone DEF Busy, HandPcs, Safe, NoPrimaryJobs
  <2>2. task'[v] = task[v] /\ CalmTask(v)
    BY DEF CalmFacts
  <2>3. rows'[t] = rows[t] /\ store'[t] = store[t]
    BY <2>1
  <2> QED
    BY <2>2, <2>3 DEF CalmTask, Held, Far
<1>3. ASSUME NEW s \in ReplicaSlots \ {task[w].snap.slot}, NEW l \in Locs
      PROVE  NoOrphan(s, l)'
  <2>1. InHand(s, l) => InHand(s, l)'
    BY DEF InHand
  <2>2. rows'[s] = rows[s] /\ store'[s] = store[s] /\ NoOrphan(s, l)
    BY <1>0 DEF CalmFacts
  <2> QED
    BY <2>1, <2>2 DEF NoOrphan, Held, Present
<1> QED
  BY <1>1, <1>2, <1>3

LEMMA CalmRefsStill ==
    ASSUME CalmFacts, UNCHANGED <<rows, reader>>
    PROVE  \A x \in Readers : \A c \in reader'[x] : CalmRef(c)'
BY DEF CalmFacts, CalmRef, Far

LEMMA CalmPut ==
    ASSUME TypeInv, Fresh, Safe, JobsBytes, OneWriterPerRow, CalmFacts,
           NEW w \in Workers, PutCopy(w)
    PROVE  CalmFacts'
<1>0. /\ task \in [Workers -> Tasks \cup {IdleTask}] /\ task[w] \in Tasks
      /\ Busy(w) /\ task[w].pc = "put" /\ TypeOK
  BY TaskType DEF TypeInv, TypeOK, Tasks, PutCopy, Busy
<1>a. PICK s \in ReplicaSlots : s = task[w].snap.slot
  BY <1>0 DEF Safe, NoPrimaryJobs
<1>b. PICK b \in Requests : b = task[w].bytes
  BY <1>0, JobType DEF JobsBytes, JobBytes, Writing
<1>1. s \in Slots /\ b \in Bytes /\ b # None /\ Put(s, b)
  BY <1>a, <1>b, SlotParts, ConstantsAssumption DEF PutCopy, Bytes
<1>2. /\ task'[w].pc = "activate" /\ task'[w].snap = task[w].snap /\ task'[w].loc = PutLoc(s)
      /\ \A v \in Workers \ {w} : task'[v] = task[v]
      /\ UNCHANGED <<rows, queue, reader>>
  BY <1>0, <1>a DEF PutCopy, Tasks, dbVars
<1>3. /\ \A t \in Slots \ {s} : store'[t] = store[t]
      /\ store'[s][PutLoc(s)] = b
      /\ \A l \in Locs \ {PutLoc(s)} : store'[s][l] = store[s][l]
      /\ Far(s) => PutLoc(s) = used[s] + 1
      /\ Far(s) => \A l \in Locs : Held(s, l) => l <= used[s]
      /\ ~Far(s) => PutLoc(s) = 0
      /\ PutLoc(s) \in Locs
  BY <1>0, <1>1, PutEffect
<1>4. rows[s].loc \in Locs /\ used[s] \in Nat
  BY <1>0, <1>1, RowType, PoolTypes
<1>5. Present(s) /\ CalmRow(s)
  BY <1>0, <1>a DEF CalmFacts, CalmJobs, ForRow, IsRow
<1>6. Far(s) => PutLoc(s) \notin {0, rows[s].loc}
  <2> SUFFICES ASSUME Far(s) PROVE PutLoc(s) \notin {0, rows[s].loc}
    OBVIOUS
  <2>1. rows[s].loc = 0 \/ Held(s, rows[s].loc)
    BY <1>5 DEF CalmRow
  <2>2. rows[s].loc <= used[s]
    BY <1>3, <1>4, <2>1
  <2>3. rows[s].loc \in Nat /\ PutLoc(s) = used[s] + 1
    BY <1>0, <1>3, <1>4, PoolTypes
  <2> QED
    BY <1>4, <2>2, <2>3
<1>7. /\ \A t \in ReplicaSlots \ {s} : CalmRow(t)'
      /\ \A v \in Workers \ {w} : CalmTask(v)'
      /\ \A t \in ReplicaSlots \ {s}, l \in Locs : NoOrphan(t, l)'
  BY <1>0, <1>a, <1>2, <1>3, CalmElsewhere
<1>8. CalmRow(s)'
  <2>1. Far(s) /\ rows[s].loc # 0 => store'[s][rows[s].loc] = store[s][rows[s].loc]
    BY <1>3, <1>4, <1>6
  <2> QED
    BY <1>2, <1>5, <2>1 DEF CalmRow, Held, Far, Present
<1>9. CalmTask(w)'
  <2>1. CalmTask(w)' <=>
          (task'[w].pc \in HandPcs =>
             IF Far(s) THEN PutLoc(s) \notin {0, rows[s].loc} /\ store'[s][PutLoc(s)] # None
             ELSE PutLoc(s) = 0)
    BY <1>2, <1>a DEF CalmTask, Held, Far
  <2> QED
    BY <1>1, <1>3, <1>6, <2>1
<1>10. \A l \in Locs : NoOrphan(s, l)'
  <2> SUFFICES ASSUME NEW l \in Locs, store'[s][l] # None
               PROVE  (Present(s)' /\ rows'[s].loc = l) \/ InHand(s, l)'
    BY DEF NoOrphan, Held
  <2>1. CASE l = PutLoc(s)
    BY <1>2, <1>a, <2>1 DEF InHand, HandPcs
  <2>2. CASE l # PutLoc(s)
    <3>1. Held(s, l)
      BY <1>3, <2>2 DEF Held
    <3>2. ~InHand(s, l)
      BY <1>0, <1>a, Alone DEF InHand, HandPcs, Busy
    <3>3. Present(s) /\ rows[s].loc = l
      BY <1>1, <3>1, <3>2 DEF CalmFacts, NoOrphan
    <3> QED
      BY <1>2, <3>3 DEF Present
  <2> QED
    BY <2>1, <2>2
<1>11. CalmJobs'
  <2>1. \A sn : ForRow(sn) => ForRow(sn)'
    BY <1>2 DEF ForRow, IsRow, Present
  <2> QED
    BY <1>0, <1>2, <2>1 DEF CalmFacts, CalmJobs, Busy
<1>12. \A t \in ReplicaSlots : CalmRow(t)'
  BY <1>7, <1>8
<1>13. \A v \in Workers : CalmTask(v)'
  BY <1>7, <1>9
<1>14. \A t \in ReplicaSlots, l \in Locs : NoOrphan(t, l)'
  BY <1>7, <1>10
<1> QED
  BY <1>2, <1>11, <1>12, <1>13, <1>14, CalmRefsStill DEF CalmFacts

LEMMA CalmActivate ==
    ASSUME TypeInv, Fresh, Safe, OneWriterPerRow, CalmFacts, NEW w \in Workers, Activate(w)
    PROVE  CalmFacts'
<1>0. /\ task \in [Workers -> Tasks \cup {IdleTask}] /\ task[w] \in Tasks
      /\ Busy(w) /\ task[w].pc = "activate" /\ TypeOK
  BY TaskType DEF TypeInv, TypeOK, Tasks, Activate, Busy
<1>a. PICK s \in ReplicaSlots : s = task[w].snap.slot
  BY <1>0 DEF Safe, NoPrimaryJobs
<1>1. s \in Slots /\ s[1] # "PRIMARY"
  BY SlotParts
<1>2. /\ task'[w] = IdleTask /\ \A v \in Workers \ {w} : task'[v] = task[v]
      /\ UNCHANGED <<store, queue, reader>>
  BY <1>0, <1>1, <1>a DEF Activate, Release, poolVars
<1>3. /\ rows[s].status \in {"PENDING", "MISSING"} /\ Present(s) /\ rows[s] \in Rows
      /\ \A t \in Slots \ {s} : rows'[t] = rows[t]
      /\ rows'[s] = [rows[s] EXCEPT !.status = "ACTIVE", !.loc = task[w].loc, !.attempts = 0]
  <2>1. Activatable(task[w].snap) = {s}
    BY <1>1, <1>a DEF Activate, Activatable, IsRow
  <2>2. rows[s].status \in {"PENDING", "MISSING"} /\ Present(s)
    BY <2>1 DEF Activatable, IsRow
  <2>3. \A t \in Slots :
          rows'[t] = IF t \in {s}
                       THEN [rows[t] EXCEPT !.status = "ACTIVE", !.loc = task[w].loc, !.attempts = 0]
                       ELSE rows[t]
    BY <2>1 DEF Activate
  <2> QED
    BY <1>0, <1>1, <2>2, <2>3, RowType
<1>4. rows'[s].status = "ACTIVE" /\ rows'[s].loc = task[w].loc /\ rows'[s].by = rows[s].by
  BY <1>3 DEF Rows
<1>5. IF Far(s) THEN task[w].loc # 0 /\ Held(s, task[w].loc) ELSE task[w].loc = 0
  BY <1>0, <1>a DEF CalmFacts, CalmTask, HandPcs
<1>6. rows[s].loc = 0
  BY <1>1, <1>3 DEF CalmFacts, CalmRow
<1>7. /\ \A t \in ReplicaSlots \ {s} : CalmRow(t)'
      /\ \A v \in Workers \ {w} : CalmTask(v)'
      /\ \A t \in ReplicaSlots \ {s}, l \in Locs : NoOrphan(t, l)'
  BY <1>0, <1>a, <1>2, <1>3, CalmElsewhere
<1>8. CalmRow(s)' /\ CalmTask(w)'
  BY <1>2, <1>4, <1>5 DEF CalmRow, CalmTask, Held, Far, IdleTask, HandPcs
<1>9. \A l \in Locs : NoOrphan(s, l)'
  <2> SUFFICES ASSUME NEW l \in Locs, store[s][l] # None
               PROVE  rows'[s].loc = l
    BY <1>2, <1>4 DEF NoOrphan, Held, Present
  <2>1. rows[s].loc = l \/ InHand(s, l)
    BY <1>1 DEF CalmFacts, NoOrphan, Held
  <2>2. CASE InHand(s, l)
    BY <1>0, <1>a, <1>4, <2>2, Alone DEF InHand, HandPcs, Busy
  <2>3. CASE rows[s].loc = l
    <3>1. ~Far(s)
      BY <1>1, <1>6, <2>3 DEF Fresh, Held
    <3> QED
      BY <1>4, <1>5, <1>6, <2>3, <3>1
  <2> QED
    BY <2>1, <2>2, <2>3
<1>10. CalmJobs'
  <2>1. \A sn : sn.slot \in Slots /\ ForRow(sn) => ForRow(sn)'
    <3>1. \A t \in Slots : Present(t) => Present(t)' /\ rows'[t].by = rows[t].by
      BY <1>3, <1>4 DEF Present
    <3> QED
      BY <3>1 DEF ForRow, IsRow
  <2>2. /\ \A q \in Queues : \A sn \in queue[q] : sn.slot \in Slots
        /\ \A v \in Workers : Busy(v) => task[v].snap.slot \in Slots
    BY SlotParts DEF Safe, NoPrimaryJobs
  <2>3. \A v \in Workers : Busy(v)' => v # w
    BY <1>2 DEF Busy, IdleTask
  <2> QED
    BY <1>2, <2>1, <2>2, <2>3 DEF CalmFacts, CalmJobs, Busy
<1>11. \A x \in Readers : \A c \in reader'[x] : CalmRef(c)'
  <2> SUFFICES ASSUME NEW x \in Readers, NEW c \in reader[x], c.slot \in ReplicaSlots
               PROVE  c.loc = rows'[c.slot].loc /\ (Far(c.slot) => rows'[c.slot].status = "ACTIVE")
    BY <1>2 DEF CalmRef, Far
  <2>1. c.loc = rows[c.slot].loc /\ (Far(c.slot) => rows[c.slot].status = "ACTIVE")
    BY DEF CalmFacts, CalmRef
  <2>2. CASE c.slot = s
    <3>1. ~Far(s)
      BY <1>3, <2>1, <2>2
    <3> QED
      BY <1>4, <1>5, <1>6, <2>1, <2>2, <3>1
  <2>3. CASE c.slot # s
    BY <1>3, <2>1, <2>3, SlotParts
  <2> QED
    BY <2>2, <2>3
<1>12. \A t \in ReplicaSlots : CalmRow(t)'
  BY <1>7, <1>8
<1>13. \A v \in Workers : CalmTask(v)'
  BY <1>7, <1>8
<1>14. \A t \in ReplicaSlots, l \in Locs : NoOrphan(t, l)'
  BY <1>7, <1>9
<1> QED
  BY <1>10, <1>11, <1>12, <1>13, <1>14 DEF CalmFacts

LEMMA CalmCleanup ==
    ASSUME TypeInv, Safe, OneWriterPerRow, CalmFacts, NEW w \in Workers, Cleanup(w),
           UNCHANGED faults, faults \in Nat
    PROVE  CalmFacts'
<1>0. /\ task \in [Workers -> Tasks \cup {IdleTask}] /\ task[w] \in Tasks
      /\ Busy(w) /\ task[w].pc = "cleanup" /\ TypeOK
  BY TaskType DEF TypeInv, TypeOK, Tasks, Cleanup, Busy
<1>a. PICK s \in ReplicaSlots : s = task[w].snap.slot
  BY <1>0 DEF Safe, NoPrimaryJobs
<1>b. PICK d \in Locs : d = task[w].loc
  BY <1>0, JobType
<1>1. s \in Slots
  BY SlotParts
<1>2. /\ task'[w] = IdleTask /\ \A v \in Workers \ {w} : task'[v] = task[v]
      /\ UNCHANGED <<rows, queue, reader>>
  BY <1>0 DEF Cleanup, Release, dbVars
<1>3. store' = [store EXCEPT ![s][d] = None]
  BY <1>a, <1>b DEF Cleanup, DeleteBestEffort, Fault
<1>4. /\ \A t \in Slots \ {s} : store'[t] = store[t]
      /\ store'[s][d] = None
      /\ \A l \in Locs \ {d} : store'[s][l] = store[s][l]
  BY <1>0, <1>1, <1>3, PoolTypes
<1>5. Far(s) => d # rows[s].loc
  BY <1>0, <1>a, <1>b DEF CalmFacts, CalmTask, HandPcs
<1>6. /\ \A t \in ReplicaSlots \ {s} : CalmRow(t)'
      /\ \A v \in Workers \ {w} : CalmTask(v)'
      /\ \A t \in ReplicaSlots \ {s}, l \in Locs : NoOrphan(t, l)'
  BY <1>0, <1>a, <1>2, <1>4, CalmElsewhere
<1>7. CalmRow(s)'
  <2>1. CalmRow(s) /\ rows[s].loc \in Locs
    BY <1>0, <1>1, RowType DEF CalmFacts
  <2>2. Far(s) => store'[s][rows[s].loc] = store[s][rows[s].loc]
    BY <1>4, <1>5, <2>1
  <2> QED
    BY <1>2, <2>1, <2>2 DEF CalmRow, Held, Far, Present
<1>8. CalmTask(w)'
  BY <1>2 DEF CalmTask, IdleTask, HandPcs
<1>9. \A l \in Locs : NoOrphan(s, l)'
  <2> SUFFICES ASSUME NEW l \in Locs, store'[s][l] # None
               PROVE  Present(s) /\ rows[s].loc = l
    BY <1>2 DEF NoOrphan, Held, Present
  <2>1. l # d /\ Held(s, l)
    BY <1>4 DEF Held
  <2>2. ~InHand(s, l)
    BY <1>0, <1>a, <1>b, <2>1, Alone DEF InHand, HandPcs, Busy
  <2> QED
    BY <1>1, <2>1, <2>2 DEF CalmFacts, NoOrphan
<1>10. CalmJobs'
  <2>1. \A sn : ForRow(sn) => ForRow(sn)'
    BY <1>2 DEF ForRow, IsRow, Present
  <2>2. \A v \in Workers : Busy(v)' => v # w
    BY <1>2 DEF Busy, IdleTask
  <2> QED
    BY <1>2, <2>1, <2>2 DEF CalmFacts, CalmJobs, Busy
<1>11. \A t \in ReplicaSlots : CalmRow(t)'
  BY <1>6, <1>7
<1>12. \A v \in Workers : CalmTask(v)'
  BY <1>6, <1>8
<1>13. \A t \in ReplicaSlots, l \in Locs : NoOrphan(t, l)'
  BY <1>6, <1>9
<1> QED
  BY <1>2, <1>10, <1>11, <1>12, <1>13, CalmRefsStill DEF CalmFacts

LEMMA CalmUpload ==
    ASSUME TypeInv, Fresh, Safe, NoPrimaryJobs', PlacementsMatchBlob, BlobIsAcked, Calm, CalmFacts,
           faults' = faults, NEW r \in Requests,
           UploadPut(r) \/ UploadPutFails(r) \/ UploadCommit(r)
             \/ WriteThroughFind(r) \/ CommitManifest(r)
    PROVE  CalmFacts'
<1>0. NoPrimaryJobs /\ RowsNeedBlob /\ TypeOK /\ faults \in Nat /\ ReplicaSlots \subseteq Slots
  BY SlotParts, ConstantsAssumption DEF Safe, TypeInv, TypeOK
<1>1. CASE UploadPut(r)
  <2>1. \A s \in ReplicaSlots : store'[s] = store[s]
    <3>1. PICK kind \in PrimaryKinds : Put(<<"PRIMARY", kind>>, r)
      BY <1>1 DEF UploadPut
    <3>2. /\ <<"PRIMARY", kind>> \in Slots /\ r \in Bytes
          /\ \A s \in ReplicaSlots : s \in Slots \ {<<"PRIMARY", kind>>}
      BY DEF Slots, PrimarySlots, ReplicaSlots, Bytes
    <3> QED
      BY <1>0, <3>1, <3>2, PutEffect
  <2>2. UNCHANGED <<rows, queue, task, reader>>
    BY <1>1 DEF UploadPut, dbVars, workVars
  <2> QED
    BY <1>0, <2>1, <2>2, StillDefaults, CalmStill DEF StoreStill
<1>2. CASE UploadPutFails(r)
  BY <1>0, <1>2 DEF UploadPutFails, PutFails, Fault
<1>3. CASE UploadCommit(r)
  BY <1>0, <1>3, CalmCommit
<1>4. CASE WriteThroughFind(r)
  <2>1. UNCHANGED <<rows, store, task, reader>>
        /\ queue' = [queue EXCEPT ![r] =
                       {Snapshot(s) : s \in {t \in ReplicaSlots : rows[t].status = "PENDING"}}]
    BY <1>4 DEF WriteThroughFind, dbVars, poolVars
  <2>2. \A s \in ReplicaSlots : rows[s].status = "PENDING" => ForRow(Snapshot(s))
    BY DEF CalmFacts, CalmRow, ForRow, IsRow, Present, Snapshot
  <2>3. QueuesCalm
    <3>1. \A q \in Queues : q # r => queue'[q] = queue[q]
      BY <1>0, <2>1 DEF TypeOK
    <3>2. \A sn \in queue'[r] : ForRow(sn)
      BY <1>0, <2>1, <2>2 DEF TypeOK, Queues
    <3> QED
      BY <3>1, <3>2 DEF QueuesCalm, CalmFacts, CalmJobs
  <2> QED
    BY <1>0, <2>1, <2>3, StillDefaults, CalmStill
<1>5. CASE CommitManifest(r)
  <2>1. UNCHANGED <<store, queue, task, reader>>
        /\ \A s \in Slots : rows'[s] = RowAfterManifest(r, s)
    BY <1>5 DEF CommitManifest, poolVars, workVars
  <2>2. blob # NoBlob
    BY <1>5 DEF CommitManifest, TypeInv, AckedHasBlob, Calm
  <2>3. \A s \in ReplicaSlots : rows'[s] = rows[s]
    BY <1>0, <2>1, <2>2 DEF PlacementsMatchBlob, RowAfterManifest
  <2> QED
    BY <1>0, <2>1, <2>3, StillDefaults, CalmStill DEF RowsStill, Present
<1> QED
  BY <1>1, <1>2, <1>3, <1>4, <1>5

LEMMA CalmSweep ==
    ASSUME TypeInv, Safe, NoPrimaryJobs', CalmFacts, SweepFind
    PROVE  CalmFacts'
<1>1. PICK batch \in SUBSET Due : queue' = [queue EXCEPT !["sweep"] = {Snapshot(s) : s \in batch}]
  BY DEF SweepFind
<1>2. UNCHANGED <<rows, store, task, reader>>
  BY DEF SweepFind, dbVars, poolVars
<1>3. \A s \in Due : ForRow(Snapshot(s))
  <2> SUFFICES ASSUME NEW s \in Due PROVE ForRow(Snapshot(s))
    OBVIOUS
  <2>1. s \in ReplicaSlots /\ rows[s].status \in {"PENDING", "MISSING"}
    BY DEF Due, Safe, PrimaryRowsServe, Serves, Present, Slots
  <2>2. Present(s) /\ rows[s].loc = 0
    BY <2>1 DEF CalmFacts, CalmRow, Present
  <2> QED
    BY <2>2 DEF ForRow, IsRow, Snapshot
<1>4. QueuesCalm
  <2>1. \A q \in Queues : q # "sweep" => queue'[q] = queue[q]
    BY <1>1 DEF TypeInv, TypeOK
  <2>2. \A sn \in queue'["sweep"] : ForRow(sn)
    BY <1>1, <1>3 DEF TypeInv, TypeOK, Queues
  <2> QED
    BY <2>1, <2>2 DEF QueuesCalm, CalmFacts, CalmJobs
<1> QED
  BY <1>2, <1>4, StillDefaults, CalmStill DEF Safe

LEMMA CalmReplication ==
    ASSUME TypeInv, Fresh, Safe, NoPrimaryJobs', JobsBytes, OneWriterPerRow, CalmFacts,
           faults' = faults, NEW w \in Workers, ReplicationStep(w)
    PROVE  CalmFacts'
<1>0. /\ NoPrimaryJobs /\ TypeOK /\ faults \in Nat /\ ReplicaSlots \subseteq Slots
      /\ task \in [Workers -> Tasks \cup {IdleTask}] /\ queue \in [Queues -> SUBSET Snapshots]
      /\ store \in [Slots -> [Locs -> Bytes]] /\ 0 \in Locs
  BY SlotParts, PoolTypes, ConstantsAssumption DEF Safe, TypeInv, TypeOK, Tasks
<1>1. Busy(w) => /\ task[w] \in Tasks /\ ForRow(task[w].snap)
                 /\ task[w].snap.slot \in ReplicaSlots
  BY <1>0, TaskType DEF CalmFacts, CalmJobs, NoPrimaryJobs
<1>2. \A v \in Workers \ {w} : HandStill(v)
  <2>1. \A v \in Workers \ {w} : task'[v] = task[v]
    BY <1>0, OtherTasks
  <2> QED
    BY <2>1 DEF HandStill, CalmFacts, CalmJobs, Busy
<1>3. HandStill(w) => HandsStill
  BY <1>2 DEF HandsStill
<1>4. CASE Claim(w)
  <2>1. PICK sn \in queue[QueueOf(w)] :
          /\ queue' = [queue EXCEPT ![QueueOf(w)] = @ \ {sn}]
          /\ IF RowId(sn) \in inFlight
               THEN UNCHANGED <<task, inFlight>>
               ELSE /\ inFlight' = inFlight \cup {RowId(sn)}
                    /\ task' = [task EXCEPT ![w] = [pc |-> "source", snap |-> sn,
                                                    bytes |-> None, loc |-> 0]]
    BY <1>4 DEF Claim
  <2>2. QueueOf(w) \in Queues
    BY DEF QueueOf, Queues
  <2>3. QueuesCalm
    BY <1>0, <2>1, <2>2 DEF QueuesCalm, CalmFacts, CalmJobs
  <2>4. ForRow(sn)
    BY <2>1, <2>2 DEF CalmFacts, CalmJobs
  <2>5. HandStill(w)
    <3>1. CASE task' = task
      BY <1>1, <3>1 DEF HandStill, Busy
    <3>2. CASE task' = [task EXCEPT ![w] = [pc |-> "source", snap |-> sn,
                                            bytes |-> None, loc |-> 0]]
      <4>1. task'[w] = [pc |-> "source", snap |-> sn, bytes |-> None, loc |-> 0]
        BY <1>0, <3>2
      <4>2. task[w].pc = "idle"
        BY <1>4 DEF Claim
      <4> QED
        BY <2>4, <4>1, <4>2 DEF HandStill, HandPcs
    <3> QED
      BY <2>1, <3>1, <3>2
  <2>6. UNCHANGED <<rows, store, reader>>
    BY <1>4 DEF Claim, dbVars, poolVars
  <2> QED
    BY <1>0, <1>3, <2>3, <2>5, <2>6, StillDefaults, CalmStill
<1>5. CASE FetchSource(w)
  <2>1. task'[w].pc \in {"drop", "put"} /\ task'[w].snap = task[w].snap /\ task[w].pc = "source"
        /\ Busy(w)
    BY <1>0, <1>1, <1>5 DEF FetchSource, Tasks, Busy
  <2>2. HandStill(w)
    BY <1>1, <2>1 DEF HandStill, HandPcs
  <2>3. UNCHANGED <<rows, store, queue, reader>>
    BY <1>5 DEF FetchSource, dbVars, poolVars
  <2> QED
    BY <1>0, <1>3, <2>2, <2>3, StillDefaults, CalmStill
<1>6. CASE FetchFails(w)
  <2>1. task'[w] = IdleTask /\ task[w].pc = "source" /\ UNCHANGED <<store, queue, reader>>
    BY <1>0, <1>6 DEF FetchFails, GiveUp, Release, poolVars
  <2>2. HandStill(w)
    BY <2>1 DEF HandStill, HandPcs, IdleTask
  <2>3. RowsStill
    <3> SUFFICES ASSUME NEW s \in ReplicaSlots
                 PROVE  /\ Present(s)' = Present(s) /\ rows'[s].by = rows[s].by
                        /\ rows'[s].loc = rows[s].loc /\ rows'[s].status = rows[s].status
      BY DEF RowsStill
    <3>1. rows'[s] = rows[s] \/ (rows[s] \in Rows
                                /\ rows'[s] = [rows[s] EXCEPT !.attempts = @ + 1])
      <4>1. s \in Slots /\ (Present(s) => rows[s] \in Rows)
        BY <1>0, RowType
      <4>2. rows'[s] = IF IsRow(s, task[w].snap) /\ rows[s].attempts < MaxAttempts
                         THEN [rows[s] EXCEPT !.attempts = @ + 1] ELSE rows[s]
        BY <1>6, <4>1 DEF FetchFails, GiveUp
      <4> QED
        BY <4>1, <4>2 DEF IsRow
    <3> QED
      BY <3>1 DEF Rows, Present
  <2> QED
    BY <1>0, <1>3, <2>1, <2>2, <2>3, StillDefaults, CalmStill
<1>7. CASE DropOld(w)
  <2>1. /\ task'[w].pc = "put" /\ task'[w].snap = task[w].snap /\ task[w].pc = "drop" /\ Busy(w)
    BY <1>0, <1>1, <1>7 DEF DropOld, Tasks, Busy
  <2>2. HandStill(w)
    BY <1>1, <2>1 DEF HandStill, HandPcs
  <2>3. UNCHANGED <<rows, queue, reader>>
    BY <1>7 DEF DropOld, dbVars
  <2>4. StoreStill
    <3>1. PICK s \in ReplicaSlots : s = task[w].snap.slot
      BY <1>1, <2>1
    <3>2. store' = [store EXCEPT ![s][0] = None]
      <4>1. ~Fault("delete")
        BY <1>0 DEF Fault
      <4>2. store' = [store EXCEPT ![task[w].snap.slot][task[w].snap.loc] = None]
        BY <1>7, <4>1 DEF DropOld, DeleteBestEffort
      <4>3. task[w].snap.loc = 0
        BY <1>1, <2>1 DEF ForRow
      <4> QED
        BY <3>1, <4>2, <4>3
    <3> QED
      BY <1>0, <3>2 DEF StoreStill
  <2> QED
    BY <1>0, <1>3, <2>2, <2>3, <2>4, StillDefaults, CalmStill
<1>8. CASE PutCopy(w)
  BY <1>8, CalmPut
<1>9. CASE PutCopyFails(w)
  BY <1>0, <1>9 DEF PutCopyFails, PutFails, Fault
<1>10. CASE Activate(w)
  BY <1>10, CalmActivate
<1>11. CASE ActivateMisses(w)
  <2>1. /\ task'[w].pc = "cleanup" /\ task'[w].snap = task[w].snap /\ task'[w].loc = task[w].loc
        /\ task[w].pc = "activate" /\ Busy(w)
    BY <1>0, <1>1, <1>11 DEF ActivateMisses, Tasks, Busy
  <2>2. HandStill(w)
    BY <1>1, <2>1 DEF HandStill, HandPcs
  <2>3. UNCHANGED <<rows, store, queue, reader>>
    BY <1>11 DEF ActivateMisses, dbVars, poolVars
  <2> QED
    BY <1>0, <1>3, <2>2, <2>3, StillDefaults, CalmStill
<1>12. CASE Cleanup(w)
  BY <1>0, <1>12, CalmCleanup
<1>13. CASE RefreshMirror(w)
  BY <1>1, <1>13, SlotParts DEF RefreshMirror, Busy, TypeInv, MirrorTask
<1> QED
  BY <1>4, <1>5, <1>6, <1>7, <1>8, <1>9, <1>10, <1>11, <1>12, <1>13 DEF ReplicationStep

LEMMA CalmRead ==
    ASSUME TypeInv, Safe, NoPrimaryJobs', CalmFacts, NEW x \in Readers,
           ReadStart(x) \/ ReadHit(x) \/ ReadMiss(x) \/ ReadError(x)
    PROVE  CalmFacts'
<1>0. reader \in [Readers -> SUBSET Refs] /\ ReplicaSlots \subseteq Slots
  BY SlotParts DEF TypeInv, TypeOK
<1>1. UNCHANGED <<store, queue, task>>
  BY DEF ReadStart, ReadHit, ReadMiss, ReadError, poolVars, workVars
<1>2. ReadsCalm
  <2>1. CASE ReadStart(x)
    <3>1. \A y \in Readers : y # x => reader'[y] = reader[y]
      BY <1>0, <2>1 DEF ReadStart
    <3>2. reader'[x] = {Ref(s) : s \in {t \in Slots : Serves(rows[t].status)}}
      BY <1>0, <2>1 DEF ReadStart
    <3>3. \A s \in Slots : Serves(rows[s].status) => CalmRef(Ref(s))
      BY DEF CalmRef, Ref, CalmFacts, CalmRow, Serves, Present
    <3> QED
      BY <3>1, <3>2, <3>3 DEF ReadsCalm, CalmFacts
  <2>2. CASE ReadHit(x) \/ ReadMiss(x) \/ ReadError(x)
    <3>1. \A y \in Readers : reader'[y] \subseteq reader[y]
      BY <1>0, <2>2 DEF ReadHit, ReadMiss, ReadError
    <3> QED
      BY <3>1 DEF ReadsCalm, CalmFacts
  <2> QED
    BY <2>1, <2>2
<1>3. RowsStill
  <2>1. CASE ReadMiss(x)
    <3>1. PICK c \in ReadFirst(reader[x]) :
            /\ Copy(c) = None
            /\ rows' = [s \in Slots |->
                          IF IsRow(s, c) /\ Serves(rows[s].status)
                            THEN [rows[s] EXCEPT !.status = "MISSING", !.attempts = 0]
                            ELSE rows[s]]
      BY <2>1 DEF ReadMiss
    <3>2. c \in reader[x]
      BY <3>1 DEF ReadFirst
    <3> SUFFICES ASSUME NEW s \in ReplicaSlots
                 PROVE  /\ Present(s)' = Present(s) /\ rows'[s].by = rows[s].by
                        /\ rows'[s].loc = rows[s].loc
                        /\ Far(s) => rows'[s].status = rows[s].status
      BY DEF RowsStill
    <3>3. CASE IsRow(s, c) /\ Serves(rows[s].status)
      <4>1. s \in Slots /\ Present(s) /\ rows[s] \in Rows /\ c.slot = s
        BY <1>0, <3>3, RowType DEF IsRow, TypeInv
      <4>2. rows'[s] = [rows[s] EXCEPT !.status = "MISSING", !.attempts = 0]
        BY <3>1, <3>3, <4>1
      <4>3. ~Far(s)
        <5> SUFFICES ASSUME Far(s) PROVE FALSE
          OBVIOUS
        <5>1. c.loc = rows[s].loc /\ rows[s].status = "ACTIVE"
          BY <3>2, <4>1 DEF CalmFacts, CalmRef
        <5>2. Held(s, rows[s].loc)
          BY <4>1, <5>1 DEF CalmFacts, CalmRow
        <5> QED
          BY <3>1, <4>1, <5>1, <5>2 DEF Copy, Held
      <4>4. /\ rows'[s].status = "MISSING" /\ rows'[s].by = rows[s].by
            /\ rows'[s].loc = rows[s].loc
        BY <4>1, <4>2 DEF Rows
      <4> QED
        BY <4>1, <4>3, <4>4 DEF Present
    <3>4. CASE ~(IsRow(s, c) /\ Serves(rows[s].status))
      <4>1. rows'[s] = rows[s]
        BY <1>0, <3>1, <3>4
      <4> QED
        BY <4>1 DEF Present
    <3> QED
      BY <3>3, <3>4
  <2> QED
    BY <2>1, StillDefaults DEF ReadStart, ReadHit, ReadMiss, ReadError, dbVars
<1> QED
  BY <1>1, <1>2, <1>3, StillDefaults, CalmStill DEF Safe

LEMMA CalmProbe ==
    ASSUME TypeInv, Safe, NoPrimaryJobs', CalmFacts,
           ProbeList \/ ProbeCheck \/ ProbeSkip \/ ProbeFlush
    PROVE  CalmFacts'
<1>1. UNCHANGED <<store, queue, task, reader>>
  BY DEF ProbeList, ProbeCheck, ProbeSkip, ProbeFlush, poolVars, workVars
<1>2. \A s \in ReplicaSlots : rows'[s] = rows[s]
  BY SlotParts DEF ProbeList, ProbeCheck, ProbeSkip, ProbeFlush, dbVars
<1>3. RowsStill
  BY <1>2 DEF RowsStill, Present
<1> QED
  BY <1>1, <1>3, StillDefaults, CalmStill DEF Safe

LEMMA CalmNext ==
    ASSUME TypeInv, TypeInv', DurableInv, DurableInv', JobsBytes, OneWriterPerRow,
           PlacementsMatchBlob, CalmInv, [Next]_vars
    PROVE  CalmInv'
<1>1. NoLosses' /\ BlobIsAcked'
  BY NoLossesNext, BlobIsAckedNext DEF CalmInv
<1> SUFFICES ASSUME Calm' PROVE CalmFacts'
  BY <1>1 DEF CalmInv
<1>2. Calm /\ faults' = faults /\ faults = 0
  BY CalmBefore DEF Calm
<1>3. Unharmed /\ Unharmed'
  BY <1>1, <1>2 DEF CalmInv, NoLosses, Unharmed, Calm
<1>4. Fresh /\ Safe /\ NoPrimaryJobs' /\ CalmFacts
  BY <1>2, <1>3 DEF DurableInv, Safe, CalmInv
<1>5. CASE PurgeStart \/ PurgeDelete \/ PurgeCommit
  BY <1>5 DEF PurgeStart, PurgeDelete, PurgeCommit, Calm, TypeInv, TypeOK
<1>6. \A kind : ~Fault(kind)
  BY <1>2 DEF Fault
<1>7. CASE Crash \/ \E s \in Slots, l \in Locs : LoseCopy(s, l)
  BY <1>6, <1>7 DEF Crash, LoseCopy
<1>8. CASE UNCHANGED vars
  BY <1>4, <1>8, StillDefaults, CalmStill DEF vars, Safe
<1>9. BlobIsAcked
  BY DEF CalmInv
<1> QED
  BY <1>2, <1>4, <1>5, <1>7, <1>8, <1>9, CalmUpload, CalmSweep, CalmReplication, CalmRead,
     CalmProbe DEF Next

(* No orphans: with no fault, one upload and until the file is purged, a   *)
(* message in a replica pool is the one its row names or still in the      *)
(* hands of the job that posted it, which records it or removes it: sweep  *)
(* and write-through, each working from its own snapshot of the row, never *)
(* leave a second copy behind.                                             *)
THEOREM NoLeak == Spec => []NoReplicaLeak
<1>1. Init => CalmInv
  <2> SUFFICES ASSUME Init PROVE NoLosses /\ BlobIsAcked /\ CalmFacts
    BY DEF CalmInv
  <2>1. NoLosses /\ BlobIsAcked
    BY DEF Init, NoLosses, BlobIsAcked
  <2>2. \A s \in ReplicaSlots : CalmRow(s)
    BY SlotParts DEF Init, CalmRow, Present, NoRow
  <2>3. CalmJobs /\ (\A w \in Workers : CalmTask(w))
        /\ \A x \in Readers : \A c \in reader[x] : CalmRef(c)
    BY DEF Init, CalmJobs, CalmTask, Busy, IdleTask, HandPcs
  <2>4. \A s \in ReplicaSlots, l \in Locs : NoOrphan(s, l)
    BY SlotParts DEF Init, NoOrphan, Held
  <2> QED
    BY <2>1, <2>2, <2>3, <2>4 DEF CalmFacts
<1>2. TypeInv /\ TypeInv' /\ DurableInv /\ DurableInv' /\ JobsBytes /\ OneWriterPerRow
        /\ PlacementsMatchBlob /\ CalmInv /\ [Next]_vars => CalmInv'
  BY CalmNext
<1>3. CalmInv => NoReplicaLeak
  BY DEF CalmInv, CalmFacts, NoOrphan, InHand, HandPcs, Held, NoReplicaLeak
<1> QED
  BY <1>1, <1>2, <1>3, TypeInvAlways, DurableAlways, JobsBytesAlways, OneWriter, Placements,
     PTL DEF Spec

=============================================================================
