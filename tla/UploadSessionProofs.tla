------------------------ MODULE UploadSessionProofs ------------------------
(* Proofs about UploadSession, for every value of its constants.           *)
EXTENDS UploadSession, TLAPS

-----------------------------------------------------------------------------
(* The inductive invariant                                                 *)

InHand(w) == worker[w].pc \in {"send", "backoff"}

(* Retries and resumes are counted before they are started. *)
Bounds ==
    /\ \A w \in Workers : worker[w].pc = "backoff" => worker[w].attempt < Attempts
    /\ phase \in {"query", "resume"} => pass < Passes
    /\ phase = "again" => commit.attempt < Attempts

(* The iterator is past every chunk a worker has in hand. *)
Behind ==
    /\ iter.at <= count
    /\ \A w \in Workers : InHand(w) => worker[w].chunk < iter.at

(* Who waits for the iterator waits once, and does nothing else. *)
Queue ==
    /\ \A i \in DOMAIN iter.waiters : worker[iter.waiters[i]].pc = "wait"
    /\ \A i, j \in DOMAIN iter.waiters : iter.waiters[i] = iter.waiters[j] => i = j

(* Outside a pass no worker is under way, except after an upload that threw:*)
(* the anonymous pipeline leaves its stragglers.                           *)
Quiet == phase \notin {"pass", "thrown"} => \A w \in Workers : Settled(w)

(* A chunk the iterator gave out is done with or in somebody's hands,      *)
(* unless a worker failed.                                                 *)
Covered ==
    \A c \in Chunks : c < iter.at =>
        \/ done[c] # "no"
        \/ \E w \in Workers : InHand(w) /\ worker[w].chunk = c
        \/ \E w \in Workers : worker[w].pc = "failed"

(* A worker ends well only at the end of the file, and a pass over a file  *)
(* that has chunks has a worker.                                           *)
Exhausted ==
    /\ \A w \in Workers : worker[w].pc = "ok" => iter.at = count
    /\ phase = "pass" /\ count > 0 => \E w \in Workers : worker[w].pc # "off"

(* No commit is sent before every chunk is done with. *)
AllDone == \A c \in Chunks : done[c] # "no"
CommitsAreWhole ==
    phase \in {"commit", "again", "recover"} \/ commit.ghost => AllDone

(* What a resume skips, the server holds. *)
SkippedStored ==
    /\ serverHas \subseteq server.stored
    /\ \A c \in Chunks : done[c] = "skipped" => c \in server.stored

AnswerKnown == commit.answer = "ok" => server.status = "READY"

(* A cancelled upload is one of the signed-in pipeline. *)
Aborted ==
    /\ mode = "anon" => row = "absent" /\ ~aborted
    /\ cancelled => aborted /\ row \in {"CANCELLED", "absent"}

Inv ==
    /\ TypeOK /\ Bounds /\ Behind /\ Queue /\ Quiet /\ Covered /\ Exhausted
    /\ CommitsAreWhole /\ SkippedStored /\ AnswerKnown /\ Aborted
    /\ OneSenderPerChunk /\ ReadyIsComplete /\ DoneIsReady

-----------------------------------------------------------------------------
(* What a step does to the workers                                         *)

States ==
    [pc : {"off", "next", "wait", "woken", "read", "send", "backoff", "ok",
           "failed"},
     chunk : Nat, attempt : 0 .. Attempts, landed : BOOLEAN,
     why : {"none", "abort", "definitive", "network"}]

Bystander(v) ==
    \/ worker'[v] = worker[v]
    \/ worker[v].pc = "wait" /\ worker'[v] = At("woken")

Moves(w, state) ==
    /\ worker' \in [Workers -> States] /\ worker'[w] = state
    /\ \A v \in Workers \ {w} : Bystander(v)

LEMMA OffType == Off \in States
BY UploadAssumption DEF States, Off

LEMMA AtType ==
    ASSUME NEW pc \in {"next", "wait", "woken", "read", "ok"}
    PROVE  At(pc) \in States /\ At(pc).pc = pc
BY OffType DEF States, At, Off

LEMMA FailedType ==
    ASSUME NEW why \in {"abort", "definitive", "network"}
    PROVE  Failed(why) \in States /\ Failed(why).pc = "failed"
BY OffType DEF States, Failed, Off

LEMMA SendingType ==
    ASSUME NEW c \in Nat, NEW n \in 1 .. Attempts
    PROVE  /\ Sending(c, n) \in States
           /\ Sending(c, n).pc = "send" /\ Sending(c, n).chunk = c
<1>1. n \in 0 .. Attempts
  BY UploadAssumption
<1> QED
  BY <1>1, OffType DEF States, Sending, Off

LEMMA GoMoves ==
    ASSUME TypeOK, NEW w \in Workers, NEW state \in States, Go(w, state)
    PROVE  Moves(w, state) /\ \A v \in Workers \ {w} : worker'[v] = worker[v]
BY DEF TypeOK, Go, Moves, Bystander, States

(* The iterator is given back to the first who waits.                      *)
LEMMA UnlockMoves ==
    ASSUME TypeOK, Queue, NEW w \in Workers, worker[w].pc = "read",
           NEW state \in States, NEW at \in 0 .. MaxChunks, Unlock(w, at, state)
    PROVE  /\ Moves(w, state)
           /\ iter' \in [locked : BOOLEAN, at : 0 .. MaxChunks, waiters : Seq(Workers)]
           /\ iter'.at = at
           /\ Queue'
<1> DEFINE q == iter.waiters
<1>1. q \in Seq(Workers) /\ worker \in [Workers -> States]
  BY DEF TypeOK, States
<1>2. \A i \in DOMAIN q : q[i] # w
  BY DEF Queue
<1>3. iter'.at = at /\ iter'.locked = FALSE
  BY DEF Unlock
<1>4. CASE q = <<>>
  <2>1. iter' = [locked |-> FALSE, at |-> at, waiters |-> <<>>]
    BY <1>4 DEF Unlock
  <2>2. worker' = [v \in Workers |-> IF v = w THEN state ELSE worker[v]]
    BY <1>4 DEF Unlock
  <2>3. Moves(w, state)
    BY <1>1, <2>2 DEF Moves, Bystander
  <2>4. Queue'
    BY <2>1 DEF Queue
  <2> QED
    BY <1>3, <2>1, <2>3, <2>4
<1>5. CASE q # <<>>
  <2>1. /\ iter' = [locked |-> FALSE, at |-> at, waiters |-> Tail(q)]
        /\ worker' = [v \in Workers |-> IF v = w THEN state
                        ELSE IF v = Head(q) THEN At("woken") ELSE worker[v]]
    BY <1>5 DEF Unlock
  <2>2. /\ Tail(q) \in Seq(Workers) /\ Head(q) = q[1] /\ 1 \in DOMAIN q
        /\ \A i \in DOMAIN Tail(q) : i + 1 \in DOMAIN q /\ i \in Nat \ {0}
                                     /\ Tail(q)[i] = q[i + 1]
    BY <1>1, <1>5
  <2>3. worker[Head(q)].pc = "wait" /\ Head(q) \in Workers
    BY <1>1, <2>2 DEF Queue
  <2>4. Moves(w, state)
    BY <1>1, <2>1, <2>3, AtType DEF Moves, Bystander
  <2>5. ASSUME NEW i \in DOMAIN Tail(q)
        PROVE  Tail(q)[i] # w /\ Tail(q)[i] # Head(q) /\ Tail(q)[i] \in Workers
               /\ worker[Tail(q)[i]].pc = "wait"
    BY <1>1, <1>2, <2>2 DEF Queue
  <2>6. \A i \in DOMAIN Tail(q) : worker'[Tail(q)[i]].pc = "wait"
    BY <2>1, <2>5
  <2>7. \A i, j \in DOMAIN Tail(q) : Tail(q)[i] = Tail(q)[j] => i = j
    BY <2>2 DEF Queue
  <2>8. Queue'
    <3>1. iter'.waiters = Tail(q)
      BY <2>1
    <3> QED
      BY <2>6, <2>7, <3>1 DEF Queue
  <2> QED
    BY <1>3, <2>1, <2>2, <2>4, <2>8
<1> QED
  BY <1>4, <1>5

(* The iterator is taken, or its taker joins the queue.                    *)
LEMMA LockMoves ==
    ASSUME TypeOK, Queue, NEW w \in Workers, worker[w].pc \in {"next", "woken"},
           Lock(w)
    PROVE  /\ \E pc \in {"wait", "read"} : Moves(w, At(pc))
           /\ iter' \in [locked : BOOLEAN, at : 0 .. MaxChunks, waiters : Seq(Workers)]
           /\ iter'.at = iter.at
           /\ Queue'
<1> DEFINE q == iter.waiters
<1>1. q \in Seq(Workers) /\ worker \in [Workers -> States]
      /\ iter \in [locked : BOOLEAN, at : 0 .. MaxChunks, waiters : Seq(Workers)]
  BY DEF TypeOK, States
<1>2. \A i \in DOMAIN q : q[i] # w /\ q[i] \in Workers
  BY <1>1 DEF Queue
<1>3. CASE iter.locked
  <2>1. /\ iter' = [iter EXCEPT !.waiters = Append(q, w)]
        /\ Go(w, At("wait"))
    BY <1>3 DEF Lock
  <2>2. /\ Moves(w, At("wait"))
        /\ \A v \in Workers \ {w} : worker'[v] = worker[v]
    BY <2>1, GoMoves, AtType
  <2>3. /\ Append(q, w) \in Seq(Workers)
        /\ \A i \in DOMAIN Append(q, w) :
             \/ i \in DOMAIN q /\ Append(q, w)[i] = q[i]
             \/ i \notin DOMAIN q /\ i = Len(q) + 1 /\ Append(q, w)[i] = w
    BY <1>1
  <2>4. iter'.waiters = Append(q, w) /\ iter'.at = iter.at
        /\ iter' \in [locked : BOOLEAN, at : 0 .. MaxChunks, waiters : Seq(Workers)]
    BY <1>1, <2>1, <2>3
  <2>5. worker'[w].pc = "wait"
    BY <2>2, AtType DEF Moves
  <2>6. \A i \in DOMAIN Append(q, w) : worker'[Append(q, w)[i]].pc = "wait"
    BY <1>2, <2>2, <2>3, <2>5 DEF Queue
  <2>7. \A i, j \in DOMAIN Append(q, w) : Append(q, w)[i] = Append(q, w)[j] => i = j
    BY <1>2, <2>3 DEF Queue
  <2>8. Queue'
    BY <2>4, <2>6, <2>7 DEF Queue
  <2> QED
    BY <2>2, <2>4, <2>8
<1>4. CASE ~iter.locked
  <2>1. /\ iter' = [iter EXCEPT !.locked = TRUE]
        /\ Go(w, At("read"))
    BY <1>4 DEF Lock
  <2>2. /\ Moves(w, At("read"))
        /\ \A v \in Workers \ {w} : worker'[v] = worker[v]
    BY <2>1, GoMoves, AtType
  <2>3. iter'.waiters = q /\ iter'.at = iter.at
        /\ iter' \in [locked : BOOLEAN, at : 0 .. MaxChunks, waiters : Seq(Workers)]
    BY <1>1, <2>1
  <2>4. Queue'
    BY <1>2, <2>2, <2>3 DEF Queue
  <2> QED
    BY <2>2, <2>3, <2>4
<1> QED
  BY <1>3, <1>4

(* A worker that does not wait leaves the queue as it is.                  *)
LEMMA GoQueue ==
    ASSUME TypeOK, Queue, NEW w \in Workers, worker[w].pc # "wait",
           NEW state \in States, Go(w, state), iter' = iter
    PROVE  Queue'
<1>1. \A i \in DOMAIN iter.waiters : iter.waiters[i] \in Workers \ {w}
  BY DEF Queue, TypeOK
<1>2. \A v \in Workers \ {w} : worker'[v] = worker[v]
  BY GoMoves
<1> QED
  BY <1>1, <1>2 DEF Queue

-----------------------------------------------------------------------------
(* The steps of a worker, by what they do to the chunks                    *)

IterType == [locked : BOOLEAN, at : 0 .. MaxChunks, waiters : Seq(Workers)]
DoneType == [AllChunks -> {"no", "acked", "skipped"}]

(* The worker waits for the iterator, or has it.                           *)
Locks(w) ==
    /\ \E pc \in {"wait", "read"} : Moves(w, At(pc))
    /\ iter'.at = iter.at /\ done' = done /\ ~InHand(w)

Fails(w) ==
    /\ \E why \in {"abort", "definitive", "network"} : Moves(w, Failed(why))
    /\ iter.at <= iter'.at /\ iter'.at <= count /\ done' = done

Ends(w) ==
    /\ Moves(w, At("ok"))
    /\ iter.at = count /\ iter'.at = count /\ done' = done /\ ~InHand(w)

Skips(w) ==
    /\ Moves(w, At("next"))
    /\ iter.at < count /\ iter'.at = iter.at + 1 /\ ~InHand(w)
    /\ \/ done' = done /\ done[iter.at] # "no"
       \/ done' = [done EXCEPT ![iter.at] = "skipped"] /\ iter.at \in serverHas

Takes(w) ==
    /\ Moves(w, Sending(iter.at, 1))
    /\ iter.at < count /\ iter'.at = iter.at + 1 /\ done' = done /\ ~InHand(w)

Holds(w) ==
    /\ \E state \in States :
         /\ Moves(w, state)
         /\ state.pc \in {"send", "backoff"} /\ state.chunk = worker[w].chunk
         /\ state.pc = "backoff" => state.attempt < Attempts
    /\ InHand(w) /\ iter' = iter /\ done' = done

Acks(w) ==
    /\ Moves(w, At("next"))
    /\ InHand(w) /\ iter' = iter
    /\ done' = [done EXCEPT ![worker[w].chunk] = "acked"]

(* What every step of a worker leaves alone, or only adds to.              *)
Beside(w) ==
    /\ UNCHANGED <<mode, count, phase, pass, row, aborted, serverHas, commit,
                   cancelled>>
    /\ ~Settled(w)
    /\ iter' \in IterType /\ Queue'
    /\ server' \in [status : {"none", "UPLOADING", "READY"}, stored : SUBSET AllChunks]
    /\ server'.status = server.status /\ server.stored \subseteq server'.stored
    /\ ghosts' \subseteq AllChunks
    /\ faults' \in 0 .. MaxFaults

LEMMA FaultType ==
    ASSUME TypeOK, Fault
    PROVE  faults' \in 0 .. MaxFaults
BY UploadAssumption DEF TypeOK, Fault

LEMMA ChunkType ==
    ASSUME TypeOK, Behind, NEW w \in Workers, InHand(w)
    PROVE  worker[w].chunk \in AllChunks /\ worker[w].chunk \in Chunks
BY UploadAssumption DEF TypeOK, Behind, AllChunks, Chunks, Last

LEMMA ForsakeType ==
    ASSUME TypeOK, Behind, NEW w \in Workers, InHand(w), Forsake(w)
    PROVE  ghosts' \subseteq AllChunks
BY ChunkType DEF TypeOK, Forsake

LEMMA LoopShape ==
    ASSUME TypeOK, Queue, Behind, NEW w \in Workers, Loop(w) \/ Woken(w)
    PROVE  Beside(w) /\ (Locks(w) \/ Fails(w))
<1>0. worker[w].pc \in {"next", "woken"} /\ done' = done
  BY DEF Loop, Woken
<1>1. Beside(w) \/ ~Queue' \/ iter' \notin IterType
  BY <1>0 DEF Loop, Woken, Elsewhere, Beside, TypeOK, Settled
<1>2. CASE Lock(w)
  <2>1. Queue' /\ iter' \in IterType /\ Locks(w)
    BY <1>0, <1>2, LockMoves DEF Locks, InHand, IterType
  <2> QED
    BY <1>1, <2>1
<1>3. CASE Go(w, Failed("abort")) /\ iter' = iter
  <2>1. Queue' /\ Moves(w, Failed("abort"))
    BY <1>0, <1>3, GoMoves, GoQueue, FailedType
  <2>2. iter' \in IterType /\ iter.at \in Nat
    BY <1>3 DEF TypeOK, IterType
  <2>3. Fails(w)
    BY <1>0, <1>3, <2>1, <2>2 DEF Fails, Behind, TypeOK
  <2> QED
    BY <1>1, <2>1, <2>2, <2>3
<1> QED
  BY <1>2, <1>3 DEF Loop, Woken

LEMMA ReadShape ==
    ASSUME TypeOK, Queue, Behind, NEW w \in Workers, Read(w) \/ ReadFails(w)
    PROVE  Beside(w) /\ (Fails(w) \/ Ends(w) \/ Skips(w) \/ Takes(w))
<1>0. worker[w].pc = "read" /\ ~InHand(w) /\ UNCHANGED count
  BY DEF Read, ReadFails, Elsewhere, InHand
<1>1. /\ iter.at \in Nat /\ count \in Nat /\ iter.at <= count /\ count <= MaxChunks
      /\ count \in 0 .. MaxChunks /\ MaxChunks \in Nat
  BY UploadAssumption DEF TypeOK, Behind
<1>2. iter.at < count => iter.at + 1 \in 0 .. MaxChunks
  BY <1>1
<1>3. Beside(w) \/ ~Queue' \/ iter' \notin IterType
  BY <1>0, FaultType DEF Read, ReadFails, Elsewhere, Beside, TypeOK, Settled
<1>4. ASSUME NEW state \in States, NEW at \in 0 .. MaxChunks, Unlock(w, at, state)
      PROVE  Beside(w) /\ Moves(w, state) /\ iter'.at = at
  BY <1>0, <1>3, <1>4, UnlockMoves DEF IterType
<1>5. CASE ReadFails(w)
  <2>1. Unlock(w, count, Failed("network")) /\ done' = done
    BY <1>5 DEF ReadFails
  <2> QED
    BY <1>1, <1>4, <2>1, FailedType DEF Fails
<1>6. CASE Read(w) /\ iter.at = count
  <2>1. Unlock(w, count, At("ok")) /\ done' = done
    BY <1>6, <1>1 DEF Read
  <2> QED
    BY <1>0, <1>1, <1>4, <1>6, <2>1, AtType DEF Ends
<1>7. CASE Read(w) /\ iter.at < count /\ Unlock(w, iter.at + 1, Failed("abort"))
           /\ done' = done
  BY <1>1, <1>2, <1>4, <1>7, FailedType DEF Fails
<1>8. CASE /\ Read(w) /\ iter.at < count /\ Unlock(w, iter.at + 1, At("next"))
           /\ \/ done' = done /\ done[iter.at] # "no"
              \/ done' = [done EXCEPT ![iter.at] = "skipped"] /\ iter.at \in serverHas
  BY <1>0, <1>1, <1>2, <1>4, <1>8, AtType DEF Skips
<1>9. CASE /\ Read(w) /\ iter.at < count /\ Unlock(w, iter.at + 1, Sending(iter.at, 1))
           /\ done' = done
  <2>1. 1 \in 1 .. Attempts
    BY UploadAssumption
  <2> QED
    BY <1>0, <1>1, <1>2, <1>4, <1>9, <2>1, SendingType DEF Takes
<1> QED
  BY <1>5, <1>6, <1>7, <1>8, <1>9 DEF Read

LEMMA PutShape ==
    ASSUME TypeOK, Queue, Behind, Bounds, NEW w \in Workers,
           PutLands(w) \/ Ack(w) \/ PutFails(w) \/ PutRefused(w) \/ BackoffOver(w)
             \/ SignalStops(w)
    PROVE  Beside(w) /\ (Fails(w) \/ Holds(w) \/ Acks(w))
<1>0. /\ InHand(w) /\ worker[w].pc \in {"send", "backoff"} /\ iter' = iter
      /\ worker \in [Workers -> States] /\ worker[w] \in States
      /\ iter \in IterType /\ iter.at \in Nat /\ iter.at <= count
  BY DEF PutLands, Ack, PutFails, PutRefused, BackoffOver, SignalStops, transfer,
         InHand, TypeOK, States, IterType, Behind
<1>1. /\ server' \in [status : {"none", "UPLOADING", "READY"}, stored : SUBSET AllChunks]
      /\ server'.status = server.status /\ server.stored \subseteq server'.stored
  <2>1. server \in [status : {"none", "UPLOADING", "READY"}, stored : SUBSET AllChunks]
    BY DEF TypeOK
  <2>2. server' = server \/ server' = [server EXCEPT !.stored = @ \cup {worker[w].chunk}]
    BY DEF PutLands, Ack, PutFails, PutRefused, BackoffOver, SignalStops, Elsewhere
  <2>3. worker[w].chunk \in AllChunks
    BY <1>0, ChunkType
  <2> QED
    BY <2>1, <2>2, <2>3
<1>2. ghosts' \subseteq AllChunks
  BY <1>0, ForsakeType DEF TypeOK, PutLands, Ack, PutFails, PutRefused, BackoffOver, SignalStops
<1>3. faults' \in 0 .. MaxFaults
  BY FaultType DEF TypeOK, PutLands, Ack, PutFails, PutRefused, BackoffOver, SignalStops
<1>4. UNCHANGED <<mode, count, phase, pass, row, aborted, serverHas, commit, cancelled>>
  BY DEF PutLands, Ack, PutFails, PutRefused, BackoffOver, SignalStops, Elsewhere
<1>5. ASSUME NEW state \in States, Go(w, state)
      PROVE  Beside(w) /\ Moves(w, state)
  BY <1>0, <1>1, <1>2, <1>3, <1>4, <1>5, GoMoves, GoQueue DEF Beside, Settled
<1>6. CASE PutLands(w)
  <2> DEFINE state == [worker[w] EXCEPT !.landed = TRUE]
  <2>1. state \in States /\ state.pc = "send" /\ state.chunk = worker[w].chunk
    BY <1>0, <1>6 DEF PutLands, States
  <2>2. Go(w, state) /\ done' = done
    BY <1>6 DEF PutLands
  <2> QED
    BY <1>0, <1>5, <2>1, <2>2 DEF Holds
<1>7. CASE Ack(w)
  BY <1>0, <1>5, <1>7, AtType DEF Ack, Acks
<1>8. CASE \E why \in {"abort", "definitive", "network"} : Go(w, Failed(why)) /\ done' = done
  BY <1>0, <1>4, <1>5, <1>8, FailedType DEF Fails
<1>9. CASE /\ worker[w].attempt # Attempts
           /\ Go(w, [worker[w] EXCEPT !.pc = "backoff", !.landed = FALSE])
           /\ done' = done
  <2> DEFINE state == [worker[w] EXCEPT !.pc = "backoff", !.landed = FALSE]
  <2>1. state \in States /\ state.pc = "backoff" /\ state.chunk = worker[w].chunk
        /\ state.attempt = worker[w].attempt
    BY <1>0 DEF States
  <2>2. state.attempt < Attempts
    BY <1>0, <1>9, <2>1, UploadAssumption DEF States
  <2> QED
    BY <1>0, <1>5, <1>9, <2>1, <2>2 DEF Holds
<1>10. CASE BackoffOver(w)
  <2> DEFINE n == worker[w].attempt + 1
  <2>1. worker[w].chunk \in Nat /\ n \in 1 .. Attempts
    BY <1>0, <1>10, UploadAssumption DEF BackoffOver, Bounds, States
  <2>2. Go(w, Sending(worker[w].chunk, n)) /\ done' = done
    BY <1>10 DEF BackoffOver
  <2> QED
    BY <1>0, <1>5, <2>1, <2>2, SendingType DEF Holds
<1>11. PutFails(w) \/ PutRefused(w) \/ SignalStops(w) =>
         \/ \E why \in {"abort", "definitive", "network"} : Go(w, Failed(why)) /\ done' = done
         \/ /\ worker[w].attempt # Attempts
            /\ Go(w, [worker[w] EXCEPT !.pc = "backoff", !.landed = FALSE])
            /\ done' = done
  BY DEF PutFails, PutRefused, SignalStops
<1> QED
  BY <1>6, <1>7, <1>8, <1>9, <1>10, <1>11

LEMMA WorkerShape ==
    ASSUME TypeOK, Queue, Behind, Bounds, NEW w \in Workers, WorkerStep(w)
    PROVE  /\ Beside(w)
           /\ \/ Locks(w) \/ Fails(w) \/ Ends(w) \/ Skips(w) \/ Takes(w)
              \/ Holds(w) \/ Acks(w)
BY LoopShape, ReadShape, PutShape DEF WorkerStep

-----------------------------------------------------------------------------
(* The steps of a worker keep the invariant                                *)

LEMMA MovesTo ==
    ASSUME NEW w \in Workers, NEW state, Moves(w, state), NEW v \in Workers
    PROVE  /\ v = w => worker'[v] = state
           /\ v # w => \/ worker'[v] = worker[v]
                       \/ worker[v].pc = "wait" /\ worker'[v].pc = "woken"
BY AtType DEF Moves, Bystander

LEMMA WorkerType ==
    ASSUME TypeOK, Behind, NEW w \in Workers, Beside(w),
           \/ Locks(w) \/ Fails(w) \/ Ends(w) \/ Skips(w) \/ Takes(w)
           \/ Holds(w) \/ Acks(w)
    PROVE  TypeOK'
<1>1. worker' \in [Workers -> States]
  BY DEF Locks, Fails, Ends, Skips, Takes, Holds, Acks, Moves
<1>2. done' \in DoneType
  BY DEF TypeOK, DoneType, Locks, Fails, Ends, Skips, Takes, Holds, Acks
<1>3. serverHas' \subseteq AllChunks
  BY DEF TypeOK, Beside
<1> QED
  BY <1>1, <1>2, <1>3 DEF TypeOK, Beside, States, IterType, DoneType

LEMMA WorkerBounds ==
    ASSUME TypeOK, Bounds, NEW w \in Workers, Beside(w),
           \/ Locks(w) \/ Fails(w) \/ Ends(w) \/ Skips(w) \/ Takes(w)
           \/ Holds(w) \/ Acks(w)
    PROVE  Bounds'
<1>1. ASSUME NEW v \in Workers, worker'[v].pc = "backoff"
      PROVE  worker'[v].attempt < Attempts
  <2>1. CASE v # w
    BY <1>1, <2>1, MovesTo DEF Bounds, Locks, Fails, Ends, Skips, Takes, Holds, Acks
  <2>2. CASE v = w
    <3>1. ~Takes(w)
      BY <1>1, <2>2 DEF Takes, Moves, Sending, Off
    <3> QED
      BY <1>1, <2>2, <3>1, AtType, FailedType
      DEF Locks, Fails, Ends, Skips, Holds, Acks, Moves
  <2> QED
    BY <2>1, <2>2
<1> QED
  BY <1>1 DEF Bounds, Beside

(* The iterator only moves on, and what it gave out is below it.           *)
LEMMA WorkerBehind ==
    ASSUME TypeOK, Behind, OneSenderPerChunk, NEW w \in Workers, Beside(w),
           \/ Locks(w) \/ Fails(w) \/ Ends(w) \/ Skips(w) \/ Takes(w)
           \/ Holds(w) \/ Acks(w)
    PROVE  Behind' /\ OneSenderPerChunk'
<1>1. /\ iter.at \in Nat /\ iter'.at \in Nat /\ count' = count /\ count \in Nat
      /\ iter.at <= iter'.at /\ iter'.at <= count
  BY DEF TypeOK, Beside, Behind, IterType, Locks, Fails, Ends, Skips, Takes, Holds, Acks
<1>2. \A v \in Workers : worker[v].chunk \in Nat
  BY DEF TypeOK
<1>3. ASSUME NEW v \in Workers \ {w}, InHand(v)'
      PROVE  InHand(v) /\ worker'[v].chunk = worker[v].chunk
  BY <1>3, MovesTo DEF InHand, Locks, Fails, Ends, Skips, Takes, Holds, Acks
<1>4. CASE Takes(w)
  <2>1. worker'[w].chunk = iter.at /\ iter'.at = iter.at + 1
    BY <1>4 DEF Takes, Moves, Sending, Off
  <2> QED
    BY <1>1, <1>2, <1>3, <2>1 DEF Behind, OneSenderPerChunk, InHand
<1>5. CASE Holds(w)
  <2>1. worker'[w].chunk = worker[w].chunk /\ InHand(w) /\ iter' = iter
    BY <1>5 DEF Holds, Moves
  <2> QED
    BY <1>1, <1>2, <1>3, <2>1 DEF Behind, OneSenderPerChunk, InHand
<1>6. CASE Locks(w) \/ Fails(w) \/ Ends(w) \/ Skips(w) \/ Acks(w)
  <2>1. ~InHand(w)'
    BY <1>6, AtType, FailedType DEF Locks, Fails, Ends, Skips, Acks, Moves, InHand
  <2> QED
    BY <1>1, <1>2, <1>3, <2>1 DEF Behind, OneSenderPerChunk, InHand
<1> QED
  BY <1>4, <1>5, <1>6

(* A chunk leaves a worker's hands done, or with the worker's failure.     *)
LEMMA WorkerCovered ==
    ASSUME TypeOK, Behind, Covered, NEW w \in Workers, Beside(w),
           \/ Locks(w) \/ Fails(w) \/ Ends(w) \/ Skips(w) \/ Takes(w)
           \/ Holds(w) \/ Acks(w)
    PROVE  Covered'
<1> SUFFICES ASSUME NEW c \in Chunks, c < iter'.at
             PROVE  \/ done'[c] # "no"
                    \/ \E v \in Workers : InHand(v)' /\ worker'[v].chunk = c
                    \/ \E v \in Workers : worker'[v].pc = "failed"
  BY DEF Covered, Beside, Chunks, Last
<1>1. c \in AllChunks /\ iter.at \in Nat /\ c \in Nat /\ done \in DoneType
  BY UploadAssumption DEF TypeOK, Chunks, AllChunks, Last, IterType, DoneType
<1>2. CASE Fails(w)
  BY <1>2, FailedType DEF Fails, Moves
<1>3. CASE Takes(w) /\ c = iter.at
  BY <1>3 DEF Takes, Moves, Sending, Off, InHand
<1>4. CASE Skips(w) /\ c = iter.at
  BY <1>1, <1>4 DEF Skips, DoneType
<1>5. CASE ~Fails(w) /\ ~((Takes(w) \/ Skips(w)) /\ c = iter.at)
  <2>1. c < iter.at
    BY <1>1, <1>5 DEF Locks, Ends, Skips, Takes, Holds, Acks, Behind, Beside
  <2>2. done[c] # "no" => done'[c] # "no"
    BY <1>1, <1>5 DEF Locks, Ends, Skips, Takes, Holds, Acks, DoneType
  <2>3. ASSUME NEW v \in Workers, worker[v].pc = "failed"
        PROVE  worker'[v].pc = "failed"
    BY <1>5, <2>3, MovesTo DEF Locks, Ends, Skips, Takes, Holds, Acks, InHand, Beside, Settled
  <2>4. ASSUME NEW v \in Workers, InHand(v), worker[v].chunk = c
        PROVE  (InHand(v)' /\ worker'[v].chunk = c) \/ done'[c] # "no"
    <3>1. CASE v # w
      BY <1>5, <2>4, <3>1, MovesTo DEF Locks, Ends, Skips, Takes, Holds, Acks, InHand
    <3>2. CASE v = w /\ Acks(w)
      BY <1>1, <2>4, <3>2 DEF Acks, DoneType
    <3>3. CASE v = w /\ Holds(w)
      BY <2>4, <3>3 DEF Holds, Moves, InHand
    <3> QED
      BY <1>5, <2>4, <3>1, <3>2, <3>3 DEF Locks, Ends, Skips, Takes
  <2> QED
    BY <2>1, <2>2, <2>3, <2>4 DEF Covered
<1> QED
  BY <1>2, <1>3, <1>4, <1>5

LEMMA WorkerExhausted ==
    ASSUME TypeOK, Behind, Exhausted, NEW w \in Workers, Beside(w),
           \/ Locks(w) \/ Fails(w) \/ Ends(w) \/ Skips(w) \/ Takes(w)
           \/ Holds(w) \/ Acks(w)
    PROVE  Exhausted'
<1>1. worker'[w].pc # "off"
  BY AtType, FailedType DEF Locks, Fails, Ends, Skips, Takes, Holds, Acks, Moves, Sending, Off
<1>2. ASSUME worker'[w].pc = "ok" PROVE Ends(w)
  <2>1. ~Locks(w) /\ ~Fails(w) /\ ~Skips(w) /\ ~Acks(w)
    BY <1>2, AtType, FailedType DEF Locks, Fails, Skips, Acks, Moves
  <2>2. ~Takes(w) /\ ~Holds(w)
    BY <1>2 DEF Takes, Holds, Moves, Sending, Off
  <2> QED
    BY <2>1, <2>2
<1>3. iter.at = count => iter'.at = count
  BY DEF TypeOK, Beside, IterType, Locks, Fails, Ends, Skips, Takes, Holds, Acks
<1>4. \A v \in Workers \ {w} : worker'[v].pc = "ok" => worker[v].pc = "ok"
  BY MovesTo DEF Locks, Fails, Ends, Skips, Takes, Holds, Acks
<1>5. \A v \in Workers : worker'[v].pc = "ok" => iter'.at = count
  BY <1>2, <1>3, <1>4 DEF Exhausted, Ends
<1> QED
  BY <1>1, <1>5 DEF Exhausted, Beside

(* done only ever says more, and says skipped of what the server holds.    *)
LEMMA WorkerServer ==
    ASSUME TypeOK, Behind, Quiet, CommitsAreWhole, SkippedStored, AnswerKnown,
           ReadyIsComplete, DoneIsReady, Aborted, NEW w \in Workers, Beside(w),
           \/ Locks(w) \/ Fails(w) \/ Ends(w) \/ Skips(w) \/ Takes(w)
           \/ Holds(w) \/ Acks(w)
    PROVE  Quiet' /\ CommitsAreWhole' /\ SkippedStored' /\ AnswerKnown'
             /\ ReadyIsComplete' /\ DoneIsReady' /\ Aborted'
<1>1. phase \in {"pass", "thrown"} /\ phase' = phase /\ Chunks' = Chunks /\ commit' = commit
  BY DEF Quiet, Beside, Chunks, Last
<1>2. Chunks \subseteq AllChunks /\ done \in DoneType
  BY UploadAssumption DEF TypeOK, Chunks, AllChunks, Last, DoneType
<1>3. \A c \in Chunks :
        /\ done[c] # "no" => done'[c] # "no"
        /\ done'[c] = "skipped" => done[c] = "skipped" \/ c \in serverHas
  BY <1>2 DEF Locks, Fails, Ends, Skips, Takes, Holds, Acks, DoneType
<1>4. CommitsAreWhole'
  BY <1>1, <1>3 DEF CommitsAreWhole, AllDone
<1>5. SkippedStored'
  BY <1>1, <1>3 DEF SkippedStored, Beside
<1>6. Quiet' /\ AnswerKnown' /\ ReadyIsComplete' /\ DoneIsReady' /\ Aborted'
  BY <1>1 DEF Quiet, AnswerKnown, ReadyIsComplete, DoneIsReady, Aborted, Beside
<1> QED
  BY <1>4, <1>5, <1>6

LEMMA WorkerInv ==
    ASSUME Inv, NEW w \in Workers, WorkerStep(w)
    PROVE  Inv'
<1>1. /\ Beside(w)
      /\ \/ Locks(w) \/ Fails(w) \/ Ends(w) \/ Skips(w) \/ Takes(w)
         \/ Holds(w) \/ Acks(w)
  BY WorkerShape DEF Inv
<1>2. TypeOK' /\ Bounds'
  BY <1>1, WorkerType, WorkerBounds DEF Inv
<1>3. Behind' /\ OneSenderPerChunk' /\ Covered' /\ Exhausted'
  BY <1>1, WorkerBehind, WorkerCovered, WorkerExhausted DEF Inv
<1>4. Quiet' /\ CommitsAreWhole' /\ SkippedStored' /\ AnswerKnown'
        /\ ReadyIsComplete' /\ DoneIsReady' /\ Aborted'
  BY <1>1, WorkerServer DEF Inv
<1>5. Queue'
  BY <1>1 DEF Beside
<1> QED
  BY <1>2, <1>3, <1>4, <1>5 DEF Inv

-----------------------------------------------------------------------------
(* The other steps                                                         *)

LEMMA SettledOnes ==
    ASSUME TypeOK, NEW w \in Workers, Settled(w)
    PROVE  ~InHand(w)
BY DEF Settled, InHand

(* A pass starts with every worker settled and the iterator at the start.  *)
LEMMA StartPassInv ==
    ASSUME TypeOK, \A w \in Workers : Settled(w), NEW n \in 1 .. Passes,
           StartPass(n), count' = count
    PROVE  /\ worker' \in [Workers -> States] /\ iter' \in IterType
           /\ pass' \in 0 .. Passes /\ phase' = "pass"
           /\ \A w \in Workers : worker'[w].pc \in {"next", "off"}
           /\ Queue' /\ Behind' /\ OneSenderPerChunk' /\ Covered' /\ Exhausted'
<1>1. worker' = [w \in Workers |-> IF w <= count THEN At("next") ELSE Off]
  BY DEF StartPass
<1>2. iter' = [locked |-> FALSE, at |-> 0, waiters |-> <<>>]
  BY DEF StartPass
<1>3. /\ worker' \in [Workers -> States] /\ Off.pc = "off"
      /\ \A w \in Workers : worker'[w].pc \in {"next", "off"}
  BY <1>1, AtType, OffType DEF Off
<1>4. iter' \in IterType /\ iter'.at = 0
  BY <1>2, UploadAssumption DEF IterType
<1>5. Queue'
  BY <1>2 DEF Queue
<1>6. Behind' /\ OneSenderPerChunk'
  <2>1. \A w \in Workers : ~InHand(w)'
    BY <1>3 DEF InHand
  <2>2. iter'.at <= count'
    BY <1>4, UploadAssumption DEF TypeOK
  <2> QED
    BY <2>1, <2>2 DEF Behind, OneSenderPerChunk, InHand
<1>7. Covered'
  BY <1>4 DEF Covered, Chunks, Last, TypeOK
<1>8. Exhausted'
  <2>1. 1 \in Workers
    BY UploadAssumption DEF Workers
  <2>2. count > 0 => worker'[1] = At("next")
    BY <1>1, <2>1 DEF TypeOK
  <2> QED
    BY <1>3, <2>1, <2>2, AtType DEF Exhausted
<1> QED
  BY <1>3, <1>4, <1>5, <1>6, <1>7, <1>8 DEF StartPass

(* What holds of the pass holds while nobody touches it.                   *)
LEMMA TransferInv ==
    ASSUME Inv, UNCHANGED <<transfer, count>>, phase' = "pass" => phase = "pass"
    PROVE  Queue' /\ Behind' /\ OneSenderPerChunk' /\ Covered' /\ Exhausted'
BY DEF Inv, transfer, Queue, Behind, OneSenderPerChunk, Covered, Exhausted, InHand,
       Chunks, Last

LEMMA CommitTypes ==
    ASSUME TypeOK
    PROVE  /\ commit.attempt \in 0 .. Attempts
           /\ commit.answer \in {"none", "ok", "error"} /\ commit.ghost \in BOOLEAN
BY DEF TypeOK

(* commitManifest: a file becomes READY with the rows it already has and   *)
(* those the commit names.                                                 *)
LEMMA CommitServer ==
    ASSUME Inv, Commit, AllDone, UNCHANGED <<count, done, serverHas>>
    PROVE  /\ server' \in [status : {"none", "UPLOADING", "READY"}, stored : SUBSET AllChunks]
           /\ server.status = "READY" => server'.status = "READY"
           /\ Committable => server'.status = "READY"
           /\ ReadyIsComplete' /\ SkippedStored'
<1>1. /\ server \in [status : {"none", "UPLOADING", "READY"}, stored : SUBSET AllChunks]
      /\ done \in DoneType
  BY DEF Inv, TypeOK, DoneType
<1>2. Records \subseteq AllChunks /\ Chunks \subseteq AllChunks
  BY UploadAssumption DEF Inv, TypeOK, Records, Chunks, AllChunks, Last
<1>3. Chunks \subseteq server.stored \cup Records
  BY <1>1, <1>2 DEF Inv, AllDone, SkippedStored, Records, DoneType
<1>4. CASE Committable
  <2>1. server' = [status |-> "READY", stored |-> server.stored \cup Records]
    BY <1>4 DEF Commit
  <2> QED
    BY <1>1, <1>2, <1>3, <2>1 DEF Inv, ReadyIsComplete, SkippedStored, Chunks, Last
<1>5. CASE ~Committable
  <2>1. server' = server
    BY <1>5 DEF Commit
  <2> QED
    BY <1>1, <1>5, <2>1 DEF Inv, ReadyIsComplete, SkippedStored, Chunks, Last
<1> QED
  BY <1>4, <1>5

(* After allSettled without a failure every chunk is done with.            *)
LEMMA PassIsWhole ==
    ASSUME Inv, phase = "pass", \A w \in Workers : worker[w].pc \in {"off", "ok"}
    PROVE  AllDone
<1> SUFFICES ASSUME NEW c \in Chunks PROVE done[c] # "no"
  BY DEF AllDone
<1>1. count \in Nat /\ c \in 0 .. count - 1
  BY DEF Inv, TypeOK, Chunks, Last
<1>2. PICK w \in Workers : worker[w].pc # "off"
  BY <1>1 DEF Inv, Exhausted
<1>3. iter.at = count
  BY <1>2 DEF Inv, Exhausted
<1> QED
  BY <1>1, <1>3 DEF Inv, Covered, InHand

LEMMA InitInv == Init => Inv
<1> SUFFICES ASSUME Init PROVE Inv
  OBVIOUS
<1>1. /\ worker \in [Workers -> States]
      /\ \A w \in Workers : worker[w].pc = "off"
  BY OffType DEF Init, Off
<1>2. iter \in IterType /\ iter.at = 0 /\ iter.waiters = <<>> /\ count \in Nat
  BY UploadAssumption DEF Init, IterType
<1>3. commit \in [attempt : 0 .. Attempts, answer : {"none", "ok", "error"},
                  ghost : BOOLEAN]
      /\ 0 \in 0 .. Passes /\ 0 \in 0 .. MaxFaults
  BY UploadAssumption DEF Init, NoCommit
<1>4. TypeOK
  BY <1>1, <1>2, <1>3 DEF Init, TypeOK, States, IterType
<1>5. Bounds /\ Behind /\ Queue /\ Quiet /\ OneSenderPerChunk
  BY <1>1, <1>2 DEF Init, Bounds, Behind, Queue, Quiet, OneSenderPerChunk, InHand, Settled
<1>6. Covered /\ Exhausted
  BY <1>1, <1>2 DEF Init, Covered, Exhausted, Chunks, Last
<1>7. CommitsAreWhole /\ SkippedStored /\ AnswerKnown /\ Aborted /\ ReadyIsComplete
        /\ DoneIsReady
  <2>1. \A c \in Chunks : done[c] # "skipped"
    BY UploadAssumption DEF Init, Chunks, AllChunks, Last
  <2> QED
    BY <2>1 DEF Init, CommitsAreWhole, SkippedStored, AnswerKnown, Aborted,
                ReadyIsComplete, DoneIsReady, NoCommit
<1> QED
  BY <1>4, <1>5, <1>6, <1>7 DEF Inv

-----------------------------------------------------------------------------
(* Each action outside the workers                                         *)

LEMMA BeginInv ==
    ASSUME Inv, InitLands \/ InitAnswered \/ InitFails
    PROVE  Inv'
<1>1. phase = "init" /\ \A w \in Workers : Settled(w)
  BY DEF InitLands, InitAnswered, InitFails, Inv, Quiet
<1>2. server' = server \/ (server.status = "none" /\ server' = [server EXCEPT !.status = "UPLOADING"])
  BY DEF InitLands, InitAnswered, InitFails
<1>3. /\ server' \in [status : {"none", "UPLOADING", "READY"}, stored : SUBSET AllChunks]
      /\ server'.stored = server.stored
      /\ server'.status = "READY" <=> server.status = "READY"
  BY <1>2 DEF Inv, TypeOK
<1>4. UNCHANGED <<mode, count, done, serverHas, ghosts, commit, cancelled>>
  BY DEF InitLands, InitAnswered, InitFails, transfer
<1>5. CommitsAreWhole' \/ phase' \in {"commit", "again", "recover"}
  BY <1>4 DEF Inv, CommitsAreWhole, AllDone, Chunks, Last
<1>6. SkippedStored' /\ AnswerKnown' /\ ReadyIsComplete'
  BY <1>3, <1>4 DEF Inv, SkippedStored, AnswerKnown, ReadyIsComplete, Chunks, Last
<1>7. CASE InitLands
  <2>1. UNCHANGED <<transfer, count, phase>>
    BY <1>7 DEF InitLands
  <2>2. Queue' /\ Behind' /\ OneSenderPerChunk' /\ Covered' /\ Exhausted'
    BY <2>1, TransferInv
  <2>3. TypeOK' /\ Bounds' /\ Quiet' /\ Aborted' /\ DoneIsReady'
    BY <1>3, <1>7 DEF Inv, InitLands, TypeOK, Bounds, Quiet, Aborted, DoneIsReady,
                      transfer, Settled
  <2> QED
    BY <1>1, <1>5, <1>6, <2>1, <2>2, <2>3 DEF Inv
<1>8. CASE InitAnswered /\ aborted
  <2>1. UNCHANGED <<transfer, count>> /\ phase' = "thrown"
    BY <1>4, <1>8 DEF InitAnswered, transfer
  <2>2. Queue' /\ Behind' /\ OneSenderPerChunk' /\ Covered' /\ Exhausted'
    BY <2>1, TransferInv
  <2>3. TypeOK' /\ Bounds' /\ Quiet' /\ Aborted' /\ DoneIsReady'
    BY <1>1, <1>3, <1>8, <2>1 DEF Inv, InitAnswered, TypeOK, Bounds, Quiet, Aborted, DoneIsReady,
                      transfer, Terminal
  <2> QED
    BY <1>5, <1>6, <2>1, <2>2, <2>3 DEF Inv
<1>9. CASE InitAnswered /\ ~aborted
  <2>1. StartPass(1) /\ 1 \in 1 .. Passes
    BY <1>9, UploadAssumption DEF InitAnswered
  <2>2. /\ worker' \in [Workers -> States] /\ iter' \in IterType
        /\ pass' \in 0 .. Passes /\ phase' = "pass"
        /\ \A w \in Workers : worker'[w].pc \in {"next", "off"}
        /\ Queue' /\ Behind' /\ OneSenderPerChunk' /\ Covered' /\ Exhausted'
    BY <1>1, <1>4, <2>1, StartPassInv DEF Inv
  <2>3. TypeOK'
    BY <1>3, <1>9, <2>2 DEF Inv, InitAnswered, TypeOK, States, IterType
  <2>4. Bounds' /\ Quiet' /\ Aborted' /\ DoneIsReady'
    BY <1>3, <1>9, <2>2 DEF Inv, InitAnswered, Bounds, Quiet, Aborted, DoneIsReady
  <2> QED
    BY <1>5, <1>6, <2>2, <2>3, <2>4 DEF Inv
<1>10. CASE InitFails
  <2>1. UNCHANGED <<transfer, count>> /\ phase' = "thrown"
    BY <1>10 DEF InitFails, Throw
  <2>2. Queue' /\ Behind' /\ OneSenderPerChunk' /\ Covered' /\ Exhausted'
    BY <2>1, TransferInv
  <2>3. faults' \in 0 .. MaxFaults
    BY <1>10, FaultType DEF Inv, InitFails
  <2>4. TypeOK'
    BY <1>10, <2>3 DEF Inv, InitFails, Throw, Update, TypeOK, transfer, Terminal
  <2>5. Bounds' /\ Quiet' /\ Aborted' /\ DoneIsReady'
    BY <1>10, <2>1 DEF Inv, InitFails, Throw, Update, Bounds, Quiet, Aborted, DoneIsReady,
                      transfer, TypeOK
  <2> QED
    BY <1>5, <1>6, <2>1, <2>2, <2>4, <2>5 DEF Inv
<1> QED
  BY <1>7, <1>8, <1>9, <1>10 DEF InitAnswered

(* Throw settles the row, and only the signed-in pipeline has a signal.    *)
LEMMA ThrowInv ==
    ASSUME Inv, Throw, UNCHANGED <<mode, count, pass, transfer, serverHas, server,
             ghosts, cancelled>>, faults' \in 0 .. MaxFaults,
           commit' \in [attempt : 0 .. Attempts, answer : {"none", "ok", "error"},
                        ghost : BOOLEAN],
           commit'.answer = commit.answer, commit'.ghost => AllDone
    PROVE  Inv'
<1>1. UNCHANGED <<transfer, count>> /\ phase' = "thrown"
  BY DEF Throw
<1>2. Queue' /\ Behind' /\ OneSenderPerChunk' /\ Covered' /\ Exhausted'
  BY <1>1, TransferInv
<1>3. TypeOK'
  BY DEF Inv, Throw, Update, TypeOK, transfer, Terminal
<1>4. CommitsAreWhole' /\ SkippedStored' /\ AnswerKnown' /\ ReadyIsComplete'
  BY <1>1 DEF Inv, CommitsAreWhole, SkippedStored, AnswerKnown, ReadyIsComplete,
              AllDone, Chunks, Last, transfer
<1>5. Bounds' /\ Quiet' /\ Aborted' /\ DoneIsReady'
  BY <1>1 DEF Inv, Throw, Update, Bounds, Quiet, Aborted, DoneIsReady, transfer, TypeOK
<1> QED
  BY <1>2, <1>3, <1>4, <1>5 DEF Inv

LEMMA StartCommitInv ==
    ASSUME Inv, StartCommit, AllDone, \A w \in Workers : Settled(w),
           UNCHANGED <<mode, count, pass, transfer, serverHas, server, ghosts,
                       cancelled, faults>>
    PROVE  Inv'
<1>1. CASE Stop
  BY <1>1, ThrowInv DEF StartCommit, Inv, TypeOK
<1>2. CASE ~Stop
  <2>1. /\ phase' = "commit" /\ commit' = [commit EXCEPT !.attempt = 1]
        /\ Update("COMMITTING_MANIFEST") /\ aborted' = aborted
    BY <1>2 DEF StartCommit
  <2>2. Queue' /\ Behind' /\ OneSenderPerChunk' /\ Covered' /\ Exhausted'
    BY <2>1, TransferInv
  <2>3. commit' \in [attempt : 0 .. Attempts, answer : {"none", "ok", "error"},
                     ghost : BOOLEAN]
        /\ commit'.answer = commit.answer
    <3>1. commit \in [attempt : 0 .. Attempts, answer : {"none", "ok", "error"},
                      ghost : BOOLEAN]
      BY DEF Inv, TypeOK
    <3>2. 1 \in 0 .. Attempts
      BY UploadAssumption
    <3> QED
      BY <2>1, <3>1, <3>2
  <2>4. TypeOK'
    BY <2>1, <2>3 DEF Inv, Update, TypeOK, transfer
  <2>5. CommitsAreWhole' /\ SkippedStored' /\ AnswerKnown' /\ ReadyIsComplete'
    BY <2>3 DEF Inv, CommitsAreWhole, SkippedStored, AnswerKnown, ReadyIsComplete,
                AllDone, Chunks, Last, transfer
  <2>6. Bounds' /\ Quiet' /\ Aborted' /\ DoneIsReady'
    BY <2>1 DEF Inv, Update, Bounds, Quiet, Aborted, DoneIsReady, transfer, Settled
  <2> QED
    BY <2>2, <2>4, <2>5, <2>6 DEF Inv
<1> QED
  BY <1>1, <1>2

LEMMA PassInv ==
    ASSUME Inv, PassEnds \/ AnonPassEnds
    PROVE  Inv'
<1>1. /\ phase = "pass"
      /\ UNCHANGED <<mode, count, pass, transfer, serverHas, server, ghosts,
                     cancelled, faults>>
  BY DEF PassEnds, AnonPassEnds
<1>2. CASE Throw /\ commit' = commit
  BY <1>1, <1>2, ThrowInv DEF Inv, TypeOK, CommitsAreWhole
<1>3. CASE StartCommit /\ \A w \in Workers : worker[w].pc \in {"off", "ok"}
  <2>1. AllDone /\ \A w \in Workers : Settled(w)
    BY <1>1, <1>3, PassIsWhole DEF Settled
  <2> QED
    BY <1>1, <1>3, <2>1, StartCommitInv
<1>4. CASE /\ phase' = "query" /\ pass < Passes /\ \A w \in Workers : Settled(w)
           /\ UNCHANGED <<row, aborted, commit>>
  <2>1. Queue' /\ Behind' /\ OneSenderPerChunk' /\ Covered' /\ Exhausted'
    BY <1>1, <1>4, TransferInv
  <2>2. TypeOK' /\ Bounds' /\ Quiet' /\ Aborted'
    BY <1>1, <1>4 DEF Inv, TypeOK, Bounds, Quiet, Aborted, transfer, Settled
  <2>3. CommitsAreWhole' /\ SkippedStored' /\ AnswerKnown' /\ ReadyIsComplete' /\ DoneIsReady'
    BY <1>1, <1>4 DEF Inv, CommitsAreWhole, SkippedStored, AnswerKnown, ReadyIsComplete,
                DoneIsReady, AllDone, Chunks, Last, transfer
  <2> QED
    BY <2>1, <2>2, <2>3 DEF Inv
<1>5. CASE AnonPassEnds
  BY <1>2, <1>3, <1>5 DEF AnonPassEnds
<1>6. CASE PassEnds
  <2>1. \A w \in Workers : Settled(w)
    BY <1>6 DEF PassEnds
  <2>2. {w \in Workers : worker[w].pc = "failed"} = {} =>
          \A w \in Workers : worker[w].pc \in {"off", "ok"}
    BY <2>1 DEF Settled
  <2>3. \/ {w \in Workers : worker[w].pc = "failed"} = {} /\ StartCommit
        \/ Throw /\ commit' = commit
        \/ phase' = "query" /\ pass < Passes /\ UNCHANGED <<row, aborted, commit>>
    BY <1>6 DEF PassEnds
  <2> QED
    BY <1>2, <1>3, <1>4, <2>1, <2>2, <2>3
<1> QED
  BY <1>5, <1>6

LEMMA ResumeInv ==
    ASSUME Inv, Query \/ Resume
    PROVE  Inv'
<1>1. \A w \in Workers : Settled(w)
  BY DEF Inv, Quiet, Query, Resume
<1>2. CASE Query
  <2>1. Queue' /\ Behind' /\ OneSenderPerChunk' /\ Covered' /\ Exhausted'
    BY <1>2, TransferInv DEF Query
  <2>2. TypeOK'
    BY <1>2, FaultType DEF Inv, Query, TypeOK, transfer
  <2>3. Bounds' /\ Quiet' /\ Aborted'
    BY <1>1, <1>2 DEF Inv, Query, Bounds, Quiet, Aborted, transfer, Settled
  <2>4. CommitsAreWhole' /\ SkippedStored' /\ AnswerKnown' /\ ReadyIsComplete' /\ DoneIsReady'
    BY <1>2 DEF Inv, Query, CommitsAreWhole, SkippedStored, AnswerKnown, ReadyIsComplete,
                DoneIsReady, AllDone, Chunks, Last, transfer
  <2> QED
    BY <2>1, <2>2, <2>3, <2>4 DEF Inv
<1>3. CASE Resume
  <2>1. StartPass(pass + 1) /\ pass + 1 \in 1 .. Passes /\ count' = count
    BY <1>3, UploadAssumption DEF Resume, Inv, Bounds, TypeOK
  <2>2. /\ worker' \in [Workers -> States] /\ iter' \in IterType
        /\ pass' \in 0 .. Passes /\ phase' = "pass"
        /\ \A w \in Workers : worker'[w].pc \in {"next", "off"}
        /\ Queue' /\ Behind' /\ OneSenderPerChunk' /\ Covered' /\ Exhausted'
    BY <1>1, <2>1, StartPassInv DEF Inv
  <2>3. TypeOK'
    BY <1>3, <2>2 DEF Inv, Resume, TypeOK, States, IterType
  <2>4. Bounds' /\ Quiet' /\ Aborted' /\ DoneIsReady'
    BY <1>3, <2>2 DEF Inv, Resume, Bounds, Quiet, Aborted, DoneIsReady
  <2>5. CommitsAreWhole' /\ SkippedStored' /\ AnswerKnown' /\ ReadyIsComplete'
    BY <1>3, <2>2 DEF Inv, Resume, CommitsAreWhole, SkippedStored, AnswerKnown,
                ReadyIsComplete, AllDone, Chunks, Last
  <2> QED
    BY <2>2, <2>3, <2>4, <2>5 DEF Inv
<1> QED
  BY <1>2, <1>3

(* A request that was under way when the upload threw is a ghost, and names*)
(* every chunk all the same.                                               *)
LEMMA ForsakenCommit ==
    ASSUME Inv, NEW g \in BOOLEAN, g => phase = "commit",
           commit' = [commit EXCEPT !.ghost = @ \/ g]
    PROVE  /\ commit' \in [attempt : 0 .. Attempts, answer : {"none", "ok", "error"},
                           ghost : BOOLEAN]
           /\ commit'.answer = commit.answer /\ commit'.attempt = commit.attempt
           /\ commit'.ghost => AllDone
<1>1. commit \in [attempt : 0 .. Attempts, answer : {"none", "ok", "error"},
                  ghost : BOOLEAN]
  BY DEF Inv, TypeOK
<1>2. commit.ghost \/ g => AllDone
  BY DEF Inv, CommitsAreWhole
<1> QED
  BY <1>1, <1>2

LEMMA SignalEndsInv ==
    ASSUME Inv, SignalEnds
    PROVE  Inv'
<1> DEFINE g == phase = "commit" /\ commit.answer = "none"
<1>1. commit' = [commit EXCEPT !.ghost = @ \/ g]
  BY DEF SignalEnds
<1>2. /\ commit' \in [attempt : 0 .. Attempts, answer : {"none", "ok", "error"},
                      ghost : BOOLEAN]
      /\ commit'.answer = commit.answer /\ (commit'.ghost => AllDone)
  BY <1>1, ForsakenCommit
<1> QED
  BY <1>2, ThrowInv DEF SignalEnds, Inv, TypeOK

(* What a step that touches only the server and the commit request keeps.  *)
LEMMA CommitLandsInv ==
    ASSUME Inv, CommitLands \/ GhostCommits
    PROVE  Inv'
<1>1. Commit /\ AllDone
  BY DEF CommitLands, GhostCommits, Inv, CommitsAreWhole
<1>2. UNCHANGED <<mode, count, phase, pass, row, aborted, transfer, serverHas,
                  ghosts, cancelled, faults>>
  BY DEF CommitLands, GhostCommits
<1>3. /\ server' \in [status : {"none", "UPLOADING", "READY"}, stored : SUBSET AllChunks]
      /\ server.status = "READY" => server'.status = "READY"
      /\ Committable => server'.status = "READY"
      /\ ReadyIsComplete' /\ SkippedStored'
  BY <1>1, <1>2, CommitServer DEF transfer
<1>4. commit \in [attempt : 0 .. Attempts, answer : {"none", "ok", "error"},
                  ghost : BOOLEAN]
  BY DEF Inv, TypeOK
<1>5. /\ commit' \in [attempt : 0 .. Attempts, answer : {"none", "ok", "error"},
                      ghost : BOOLEAN]
      /\ commit'.answer = "ok" => commit.answer = "ok" \/ Committable
      /\ commit'.attempt = commit.attempt
  <2>1. CASE CommitLands
    BY <1>4, <2>1 DEF CommitLands
  <2>2. CASE GhostCommits
    BY <1>4, <2>2 DEF GhostCommits
  <2> QED
    BY <2>1, <2>2
<1>6. Queue' /\ Behind' /\ OneSenderPerChunk' /\ Covered' /\ Exhausted'
  BY <1>2, TransferInv
<1>7. TypeOK'
  BY <1>2, <1>3, <1>5 DEF Inv, TypeOK, transfer
<1>8. Bounds' /\ Quiet' /\ Aborted' /\ DoneIsReady' /\ AnswerKnown'
  BY <1>2, <1>3, <1>5 DEF Inv, Bounds, Quiet, Aborted, DoneIsReady, AnswerKnown,
                          transfer, Settled
<1>9. CommitsAreWhole'
  BY <1>1, <1>2 DEF CommitsAreWhole, AllDone, Chunks, Last, transfer
<1> QED
  BY <1>3, <1>6, <1>7, <1>8, <1>9 DEF Inv

LEMMA ReturnInv ==
    ASSUME Inv, Return, server.status = "READY", phase \in {"commit", "recover"},
           UNCHANGED <<mode, count, pass, transfer, serverHas, server, ghosts,
                       commit, cancelled, faults>>
    PROVE  Inv'
<1>1. Queue' /\ Behind' /\ OneSenderPerChunk' /\ Covered' /\ Exhausted'
  BY TransferInv DEF Return
<1>2. TypeOK'
  BY DEF Inv, Return, Update, TypeOK, transfer, Terminal
<1>3. Bounds' /\ Quiet' /\ Aborted' /\ DoneIsReady'
  BY DEF Inv, Return, Update, Bounds, Quiet, Aborted, DoneIsReady, transfer, Settled
<1>4. CommitsAreWhole' /\ SkippedStored' /\ AnswerKnown' /\ ReadyIsComplete'
  BY DEF Inv, Return, CommitsAreWhole, SkippedStored, AnswerKnown, ReadyIsComplete,
         AllDone, Chunks, Last, transfer
<1> QED
  BY <1>1, <1>2, <1>3, <1>4 DEF Inv

LEMMA CommitAnswersInv ==
    ASSUME Inv, CommitOk \/ Recover
    PROVE  Inv'
<1>1. CASE CommitOk
  BY <1>1, ReturnInv DEF CommitOk, Inv, AnswerKnown
<1>2. CASE Recover /\ Return
  BY <1>2, ReturnInv DEF Recover, Return, Throw
<1>3. CASE Recover /\ Throw
  <2>1. faults' \in 0 .. MaxFaults
    BY <1>3, FaultType DEF Recover, Inv, TypeOK
  <2>2. AllDone
    BY <1>3 DEF Recover, Inv, CommitsAreWhole
  <2> QED
    BY <1>3, <2>1, <2>2, ThrowInv DEF Recover, Inv, TypeOK
<1> QED
  BY <1>1, <1>2, <1>3 DEF Recover

LEMMA CommitRetriesInv ==
    ASSUME Inv, CommitFails \/ CommitAgain
    PROVE  Inv'
<1>1. AllDone /\ phase \in {"commit", "again"}
  BY DEF CommitFails, CommitAgain, Inv, CommitsAreWhole
<1>2. /\ UNCHANGED <<mode, count, pass, transfer, serverHas, server, ghosts, cancelled>>
      /\ faults' \in 0 .. MaxFaults
  BY FaultType DEF CommitFails, CommitAgain, Inv, TypeOK
<1>3. commit \in [attempt : 0 .. Attempts, answer : {"none", "ok", "error"},
                  ghost : BOOLEAN]
  BY DEF Inv, TypeOK
<1>4. CASE CommitFails
  <2> DEFINE g == commit.answer = "none"
  <2>1. commit' = [commit EXCEPT !.ghost = @ \/ g] /\ phase = "commit"
    BY <1>4 DEF CommitFails
  <2>2. /\ commit' \in [attempt : 0 .. Attempts, answer : {"none", "ok", "error"},
                        ghost : BOOLEAN]
        /\ commit'.answer = commit.answer /\ commit'.attempt = commit.attempt
        /\ commit'.ghost => AllDone
    BY <2>1, ForsakenCommit
  <2>3. CASE Throw
    BY <1>2, <2>2, <2>3, ThrowInv
  <2>4. CASE ~Throw
    <3>1. /\ UNCHANGED <<row, aborted>>
          /\ phase' = IF commit.attempt = Attempts THEN "recover" ELSE "again"
      BY <1>4, <2>4 DEF CommitFails
    <3>2. Queue' /\ Behind' /\ OneSenderPerChunk' /\ Covered' /\ Exhausted'
      BY <1>2, <3>1, TransferInv
    <3>3. TypeOK'
      BY <1>2, <2>2, <3>1 DEF Inv, TypeOK, transfer
    <3>4. Bounds'
      BY <1>2, <1>3, <2>2, <3>1, UploadAssumption DEF Inv, Bounds, transfer
    <3>5. Quiet' /\ Aborted' /\ DoneIsReady'
      BY <1>2, <2>1, <3>1 DEF Inv, Quiet, Aborted, DoneIsReady, transfer, Settled
    <3>6. CommitsAreWhole' /\ SkippedStored' /\ AnswerKnown' /\ ReadyIsComplete'
      BY <1>1, <1>2, <2>2 DEF Inv, CommitsAreWhole, SkippedStored, AnswerKnown,
             ReadyIsComplete, AllDone, Chunks, Last, transfer
    <3> QED
      BY <3>2, <3>3, <3>4, <3>5, <3>6 DEF Inv
  <2> QED
    BY <2>3, <2>4
<1>5. CASE CommitAgain
  <2>1. /\ commit' = [commit EXCEPT !.attempt = @ + 1, !.answer = "none"]
        /\ phase' = "commit" /\ UNCHANGED <<row, aborted>> /\ phase = "again"
    BY <1>5 DEF CommitAgain
  <2>2. commit.attempt + 1 \in 0 .. Attempts
    BY <1>3, <2>1, UploadAssumption DEF Inv, Bounds
  <2>3. /\ commit' \in [attempt : 0 .. Attempts, answer : {"none", "ok", "error"},
                        ghost : BOOLEAN]
        /\ commit'.answer = "none"
    BY <1>3, <2>1, <2>2
  <2>4. Queue' /\ Behind' /\ OneSenderPerChunk' /\ Covered' /\ Exhausted'
    BY <1>2, <2>1, TransferInv
  <2>5. TypeOK'
    BY <1>2, <2>1, <2>3 DEF Inv, TypeOK, transfer
  <2>6. Bounds' /\ Quiet' /\ Aborted' /\ DoneIsReady'
    BY <1>2, <2>1 DEF Inv, Bounds, Quiet, Aborted, DoneIsReady, transfer, Settled
  <2>7. CommitsAreWhole' /\ SkippedStored' /\ AnswerKnown' /\ ReadyIsComplete'
    BY <1>1, <1>2, <2>3 DEF Inv, CommitsAreWhole, SkippedStored, AnswerKnown,
           ReadyIsComplete, AllDone, Chunks, Last, transfer
  <2> QED
    BY <2>4, <2>5, <2>6, <2>7 DEF Inv
<1> QED
  BY <1>4, <1>5

LEMMA RowInv ==
    ASSUME Inv, Cancel \/ CancelPlaceholder \/ RemoveRow
    PROVE  Inv'
<1>1. UNCHANGED <<mode, count, phase, pass, transfer, serverHas, server, ghosts,
                  commit, faults>>
  BY DEF Cancel, CancelPlaceholder, RemoveRow
<1>2. Queue' /\ Behind' /\ OneSenderPerChunk' /\ Covered' /\ Exhausted'
  BY <1>1, TransferInv
<1>3. TypeOK'
  <2>1. row' \in Terminal \cup {"UPLOADING", "COMMITTING_MANIFEST", "absent"}
    BY DEF Inv, TypeOK, Cancel, CancelPlaceholder, RemoveRow, Update, Terminal
  <2>2. aborted' \in BOOLEAN /\ cancelled' \in BOOLEAN
    BY DEF Inv, TypeOK, Cancel, CancelPlaceholder, RemoveRow
  <2> QED
    BY <1>1, <2>1, <2>2 DEF Inv, TypeOK, transfer
<1>4. Aborted'
  BY <1>1 DEF Inv, Cancel, CancelPlaceholder, RemoveRow, Update, Aborted, TypeOK, Terminal
<1>5. Bounds' /\ Quiet' /\ DoneIsReady'
  BY <1>1 DEF Inv, Cancel, CancelPlaceholder, RemoveRow, Update, Bounds, Quiet,
              DoneIsReady, transfer, Settled, Terminal
<1>6. CommitsAreWhole' /\ SkippedStored' /\ AnswerKnown' /\ ReadyIsComplete'
  BY <1>1 DEF Inv, CommitsAreWhole, SkippedStored, AnswerKnown, ReadyIsComplete,
              AllDone, Chunks, Last, transfer
<1> QED
  BY <1>2, <1>3, <1>4, <1>5, <1>6 DEF Inv

LEMMA GhostLandsInv ==
    ASSUME Inv, NEW c \in ghosts, GhostLands(c)
    PROVE  Inv'
<1>1. /\ UNCHANGED <<mode, count, phase, pass, row, aborted, transfer, serverHas,
                     commit, cancelled, faults>>
      /\ ghosts' = ghosts \ {c} /\ server' = [server EXCEPT !.stored = @ \cup {c}]
  BY DEF GhostLands
<1>2. /\ server' \in [status : {"none", "UPLOADING", "READY"}, stored : SUBSET AllChunks]
      /\ server'.status = server.status /\ server.stored \subseteq server'.stored
  <2>1. /\ server \in [status : {"none", "UPLOADING", "READY"}, stored : SUBSET AllChunks]
        /\ c \in AllChunks
    BY DEF Inv, TypeOK
  <2> QED
    BY <1>1, <2>1
<1>3. Queue' /\ Behind' /\ OneSenderPerChunk' /\ Covered' /\ Exhausted'
  BY <1>1, TransferInv
<1>4. TypeOK' /\ Bounds' /\ Quiet' /\ Aborted' /\ DoneIsReady'
  BY <1>1, <1>2 DEF Inv, TypeOK, Bounds, Quiet, Aborted, DoneIsReady, transfer, Settled
<1>5. CommitsAreWhole' /\ SkippedStored' /\ AnswerKnown' /\ ReadyIsComplete'
  BY <1>1, <1>2 DEF Inv, CommitsAreWhole, SkippedStored, AnswerKnown, ReadyIsComplete,
              AllDone, Chunks, Last, transfer
<1> QED
  BY <1>3, <1>4, <1>5 DEF Inv

LEMMA StutterInv == ASSUME Inv, UNCHANGED vars PROVE Inv'
<1>1. UNCHANGED <<transfer, count, phase>>
  BY DEF vars, transfer
<1>2. Queue' /\ Behind' /\ OneSenderPerChunk' /\ Covered' /\ Exhausted'
  BY <1>1, TransferInv
<1>3. TypeOK' /\ Bounds' /\ Quiet' /\ Aborted' /\ DoneIsReady'
  BY DEF Inv, TypeOK, Bounds, Quiet, Aborted, DoneIsReady, vars, Settled
<1>4. CommitsAreWhole' /\ SkippedStored' /\ AnswerKnown' /\ ReadyIsComplete'
  BY DEF Inv, CommitsAreWhole, SkippedStored, AnswerKnown, ReadyIsComplete,
         AllDone, Chunks, Last, vars
<1> QED
  BY <1>2, <1>3, <1>4 DEF Inv

LEMMA InvNext == ASSUME Inv, [Next]_vars PROVE Inv'
<1>1. CASE SessionStep
  BY <1>1, BeginInv, PassInv, ResumeInv, SignalEndsInv, CommitLandsInv,
     CommitAnswersInv, CommitRetriesInv DEF SessionStep
<1>2. CASE \E w \in Workers : WorkerStep(w)
  BY <1>2, WorkerInv
<1>3. CASE Cancel \/ CancelPlaceholder \/ RemoveRow \/ GhostCommits
  BY <1>3, RowInv, CommitLandsInv
<1>4. CASE \E c \in ghosts : GhostLands(c)
  BY <1>4, GhostLandsInv
<1>5. CASE UNCHANGED vars
  BY <1>5, StutterInv
<1> QED
  BY <1>1, <1>2, <1>3, <1>4, <1>5 DEF Next

-----------------------------------------------------------------------------
(* What the proofs are for                                                 *)

LEMMA InvAlways == Spec => []Inv
BY InitInv, InvNext, PTL DEF Spec

(* Every variable of uploadFile keeps its type, for any file, any number   *)
(* of workers, attempts and passes: no retry or resume is one too many.    *)
THEOREM TypeCorrect == Spec => []TypeOK
<1>1. Inv => TypeOK
  BY DEF Inv
<1> QED
  BY <1>1, InvAlways, PTL

(* A READY file has every chunk, whatever was retried, skipped by a resume *)
(* or committed by a request the browser had given up on.                  *)
THEOREM Complete == Spec => []ReadyIsComplete
<1>1. Inv => ReadyIsComplete
  BY DEF Inv
<1> QED
  BY <1>1, InvAlways, PTL

(* uploadFile returns, and its row says DONE, only after the server made   *)
(* the file READY.                                                         *)
THEOREM DoneMeansReady == Spec => []DoneIsReady
<1>1. Inv => DoneIsReady
  BY DEF Inv
<1> QED
  BY <1>1, InvAlways, PTL

(* Two workers never have the same chunk in hand, across passes too.       *)
THEOREM OneSender == Spec => []OneSenderPerChunk
<1>1. Inv => OneSenderPerChunk
  BY DEF Inv
<1> QED
  BY <1>1, InvAlways, PTL

LEMMA WorkersObeySignal ==
    ASSUME Inv, Next, NEW w \in Workers, Stop, worker'[w].pc = "send"
    PROVE  worker[w].pc = "send" /\ worker'[w].chunk = worker[w].chunk
<1> USE DEF Inv
<1>1. worker \in [Workers -> States]
  BY DEF TypeOK, States
<1>2. ASSUME NEW n, StartPass(n), phase \in {"init", "resume"} PROVE FALSE
  <2>1. worker'[w] \in {At("next"), Off}
    BY <1>2 DEF StartPass, Quiet
  <2> QED
    BY <2>1, AtType DEF Off
<1>3. CASE SessionStep \/ Cancel \/ CancelPlaceholder \/ RemoveRow \/ GhostCommits
             \/ \E c \in ghosts : GhostLands(c)
  <2>1. CASE worker' = worker
    BY <2>1
  <2>2. CASE InitAnswered /\ StartPass(1)
    BY <1>2, <2>2 DEF InitAnswered
  <2>3. CASE Resume
    BY <1>2, <2>3 DEF Resume
  <2> QED
    BY <1>3, <2>1, <2>2, <2>3 DEF SessionStep, InitLands, InitAnswered, InitFails,
       PassEnds, AnonPassEnds, Query, SignalEnds, CommitLands, CommitOk, CommitFails,
       CommitAgain, Recover, Cancel, CancelPlaceholder, RemoveRow, GhostCommits,
       GhostLands, transfer
<1>4. ASSUME NEW v \in Workers, WorkerStep(v)
      PROVE  worker[w].pc = "send" /\ worker'[w].chunk = worker[w].chunk
  <2>1. CASE v # w
    BY <1>4, <2>1, WorkerShape, MovesTo
    DEF Locks, Fails, Ends, Skips, Takes, Holds, Acks
  <2>2. CASE v = w /\ (Locks(w) \/ Fails(w) \/ Ends(w) \/ Skips(w) \/ Acks(w))
    BY <2>2, AtType, FailedType DEF Locks, Fails, Ends, Skips, Acks, Moves
  <2>3. CASE v = w /\ Takes(w) /\ worker[w].pc = "read"
    <3>1. Read(w) \/ ReadFails(w)
      BY <1>4, <2>3 DEF WorkerStep, Loop, Woken, PutLands, Ack, PutFails, PutRefused,
         BackoffOver, SignalStops
    <3>2. worker'[w] \in {At("ok"), Failed("abort"), Failed("network")}
      BY <3>1, <1>1 DEF Read, ReadFails, Unlock
    <3> QED
      BY <3>2, AtType, FailedType
  <2>4. CASE v = w /\ Holds(w)
    <3>1. worker'[w].chunk = worker[w].chunk
      BY <2>4 DEF Holds, Moves
    <3>2. worker[w].pc # "backoff"
      <4>1. ASSUME worker[w].pc = "backoff" PROVE SignalStops(w)
        BY <1>4, <2>4, <4>1 DEF WorkerStep, Loop, Woken, Read, ReadFails, PutLands,
           Ack, PutFails, PutRefused, BackoffOver, Stop
      <4>2. SignalStops(w) => worker'[w] = Failed("abort")
        BY <1>1 DEF SignalStops, Go
      <4> QED
        BY <4>1, <4>2, FailedType
    <3> QED
      BY <2>4, <3>1, <3>2 DEF Holds, InHand
  <2>5. CASE v = w /\ Takes(w) /\ worker[w].pc # "read"
    <3>1. worker'[w].pc # "send" \/ InHand(w)
      BY <1>1, <1>4, <2>5, AtType, FailedType, LoopShape
      DEF WorkerStep, Read, ReadFails, PutLands, Ack, PutFails, PutRefused, BackoffOver,
          SignalStops, InHand, Locks, Fails, Moves
    <3> QED
      BY <2>5, <3>1 DEF Takes
  <2> QED
    BY <1>4, <2>1, <2>2, <2>3, <2>4, <2>5, WorkerShape
<1> QED
  BY <1>3, <1>4 DEF Next

LEMMA RowObeysUser ==
    ASSUME Inv, Next, cancelled
    PROVE  row' \in {"CANCELLED", "absent"}
<1>1. aborted /\ row \in {"CANCELLED", "absent"}
  BY DEF Inv, Aborted
<1>2. CASE \E w \in Workers : WorkerStep(w)
  BY <1>1, <1>2, WorkerShape DEF Inv, Beside
<1>3. CASE SessionStep
  BY <1>1, <1>3 DEF SessionStep, InitLands, InitAnswered, InitFails, PassEnds,
     AnonPassEnds, Query, Resume, SignalEnds, CommitLands, CommitOk, CommitFails,
     CommitAgain, Recover, StartCommit, Throw, Return, Update
<1>4. CASE Cancel \/ CancelPlaceholder \/ RemoveRow \/ GhostCommits
             \/ \E c \in ghosts : GhostLands(c)
  BY <1>1, <1>4 DEF Cancel, CancelPlaceholder, RemoveRow, GhostCommits, GhostLands, Update
<1> QED
  BY <1>2, <1>3, <1>4 DEF Next

(* A row the user cancelled shows nothing else again, and no worker starts *)
(* a PUT once the signal is aborted.                                       *)
THEOREM CancelStays == Spec => CancelIsFinal
<1>1. ASSUME Inv, [Next]_vars
      PROVE  [/\ cancelled => row' \in {"CANCELLED", "absent"}
              /\ \A w \in Workers : Stop /\ worker'[w].pc = "send"
                   => worker[w].pc = "send" /\ worker'[w].chunk = worker[w].chunk]_vars
  BY <1>1, WorkersObeySignal, RowObeysUser
<1> QED
  BY <1>1, InvAlways, PTL DEF Spec, CancelIsFinal

=============================================================================
