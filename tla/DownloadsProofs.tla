-------------------------- MODULE DownloadsProofs --------------------------
(* Proofs about Downloads and, in the second part, about SharePages, for   *)
(* every value of their constants.                                         *)
EXTENDS Downloads, SharePages, FiniteSetTheorems, WellFoundedInduction, TLAPS

-----------------------------------------------------------------------------
(* The inductive invariant                                                 *)

CallType == [pc : {"idle", "listing", "pulling", "saved", "failed"},
             tracked : BOOLEAN, cursor : 1 .. Count + 1, got : SUBSET Chunks,
             worker : [Workers -> [chunk : 0 .. Count, attempt : 0 .. Retries]],
             cancelled : BOOLEAN, alone : BOOLEAN]

EntryType == [shown : BOOLEAN, status : {"DOWNLOADING", "DONE", "FAILED"},
              got : 0 .. Count]

(* While the pool works every chunk has arrived, is being fetched or is    *)
(* still to be taken; when the file is saved the workers have ended.       *)
Accounted(cl) ==
    /\ cl.pc = "pulling" =>
         /\ ~cl.cancelled
         /\ \A k \in Chunks : \/ k \in cl.got \/ k >= cl.cursor
                              \/ \E w \in Workers : cl.worker[w].chunk = k
    /\ cl.pc = "saved" => \A w \in Workers : cl.worker[w] = Off

PoolAccounted == \A c \in Calls : Accounted(call[c])

(* A download that is the only one: the others have ended with all their   *)
(* workers, and the timer that would remove its entry is not running.      *)
AloneIsAlone ==
    \A c \in Calls : call[c].alone =>
        /\ \A d \in Calls \ {c} : Quiet(d)
        /\ call[c].tracked /\ Running(c) => ~dismissing

Inv == PageTypes /\ PoolAccounted /\ AloneIsAlone /\ EntryTellsTheTruth

-----------------------------------------------------------------------------
(* Types                                                                   *)

LEMMA Numbers ==
    ASSUME PageTypes
    PROVE  /\ Count \in Nat \ {0}
           /\ Pool \in Nat \ {0} /\ Retries \in Nat
           /\ \A w \in Workers : w \in Nat /\ w >= 1 /\ w <= Pool
BY DownloadsAssumption DEF PageTypes, Workers

LEMMA GotCounted ==
    ASSUME PageTypes, NEW S \in SUBSET Chunks
    PROVE  Cardinality(S) \in 0 .. Count
<1>1. Count \in Nat
  BY Numbers
<1>2. IsFiniteSet(1 .. Count) /\ Cardinality(1 .. Count) = Count
  BY <1>1, FS_Interval
<1>3. IsFiniteSet(S) /\ Cardinality(S) <= Cardinality(1 .. Count)
  BY <1>2, FS_Subset DEF Chunks
<1>4. Cardinality(S) \in Nat
  BY <1>3, FS_CardinalityType
<1> QED
  BY <1>1, <1>2, <1>3, <1>4

LEMMA NewFits ==
    ASSUME PageTypes
    PROVE  NewCall \in CallType /\ \A w \in Workers : NewCall.worker[w] = Off
<1>1. Off \in [chunk : 0 .. Count, attempt : 0 .. Retries]
  BY Numbers DEF Off
<1>2. [w \in Workers |-> Off] \in [Workers -> [chunk : 0 .. Count, attempt : 0 .. Retries]]
  BY <1>1
<1>3. 1 \in 1 .. Count + 1
  BY Numbers
<1> QED
  BY <1>2, <1>3 DEF NewCall, CallType

(* The pool takes the first chunks and leaves none out.                    *)
LEMMA PullingFits ==
    ASSUME PageTypes, NEW cl \in CallType
    PROVE  /\ Pulling(cl) \in CallType
           /\ Accounted(Pulling(cl))
           /\ Pulling(cl).pc = IF cl.cancelled THEN "failed" ELSE "pulling"
           /\ Pulling(cl).got = cl.got /\ Pulling(cl).tracked = cl.tracked
           /\ Pulling(cl).alone = cl.alone
<1>1. CASE cl.cancelled
  BY <1>1 DEF Pulling, CallType, Accounted
<1>2. CASE ~cl.cancelled
  <2> DEFINE cursor == IF Pool < Count THEN Pool + 1 ELSE Count + 1
             worker == [w \in Workers |-> IF w <= Count THEN On(w) ELSE Off]
  <2>1. Pulling(cl) = [cl EXCEPT !.pc = "pulling", !.cursor = cursor, !.worker = worker]
    BY <1>2 DEF Pulling
  <2>2. cursor \in 1 .. Count + 1
    BY Numbers
  <2>3. worker \in [Workers -> [chunk : 0 .. Count, attempt : 0 .. Retries]]
    BY Numbers DEF On, Off
  <2>4. \A k \in Chunks : k >= cursor \/ \E w \in Workers : worker[w].chunk = k
    <3> SUFFICES ASSUME NEW k \in Chunks, ~(k >= cursor)
                 PROVE  k \in Workers /\ worker[k].chunk = k
      OBVIOUS
    <3>1. k \in Nat /\ k >= 1 /\ k <= Count /\ k <= Pool
      BY Numbers DEF Chunks
    <3>2. k \in Workers
      BY <3>1, Numbers DEF Workers
    <3> QED
      BY <3>1, <3>2 DEF On
  <2> HIDE DEF cursor, worker
  <2>5. Pulling(cl) \in CallType
    BY <2>1, <2>2, <2>3 DEF CallType
  <2>6. /\ Pulling(cl).pc = "pulling" /\ Pulling(cl).got = cl.got
        /\ Pulling(cl).tracked = cl.tracked /\ Pulling(cl).alone = cl.alone
        /\ Pulling(cl).cancelled = cl.cancelled
        /\ Pulling(cl).cursor = cursor /\ Pulling(cl).worker = worker
    BY <2>1 DEF CallType
  <2> QED
    BY <1>2, <2>4, <2>5, <2>6 DEF Accounted
<1> QED
  BY <1>1, <1>2

LEMMA EntryFits ==
    ASSUME PageTypes
    PROVE  /\ \A st \in {"DOWNLOADING", "DONE", "FAILED"} : Shown(st) \in EntryType
           /\ \A n \in 0 .. Count : Progress(n) \in EntryType
           /\ NewEntry \in EntryType /\ NoEntry \in EntryType
<1>1. entry \in EntryType
  BY DEF PageTypes, EntryType
<1>2. \A st \in {"DOWNLOADING", "DONE", "FAILED"} : [entry EXCEPT !.status = st] \in EntryType
  BY <1>1 DEF EntryType
<1>3. \A n \in 0 .. Count : [entry EXCEPT !.got = n] \in EntryType
  BY <1>1 DEF EntryType
<1>4. NewEntry \in EntryType /\ NoEntry \in EntryType
  BY Numbers DEF NewEntry, NoEntry, EntryType
<1> QED
  BY <1>1, <1>2, <1>3, <1>4 DEF Shown, Progress

LEMMA InitInv == Init => Inv
<1> SUFFICES ASSUME Init PROVE Inv
  OBVIOUS
<1>1. PICK n \in 1 .. MaxChunks : size \in [1 .. n -> 0 .. MaxSize]
  BY DEF Init
<1>2. size \in Seq(0 .. MaxSize) /\ Len(size) = n
  BY <1>1, DownloadsAssumption
<1>3. Count \in 1 .. MaxChunks /\ Count \in Nat \ {0}
  BY <1>2, DownloadsAssumption DEF Count
<1>4. NewCall \in CallType
  <2>1. [w \in Workers |-> Off] \in [Workers -> [chunk : 0 .. Count, attempt : 0 .. Retries]]
    BY <1>3, DownloadsAssumption DEF Off
  <2> QED
    BY <1>3, <2>1 DEF NewCall, CallType
<1>5. PageTypes
  <2>1. call \in [Calls -> CallType]
    BY <1>4 DEF Init
  <2>2. entry \in EntryType
    BY <1>3 DEF Init, NoEntry, EntryType
  <2> QED
    BY <1>2, <1>3, <2>1, <2>2 DEF Init, PageTypes, CallType, EntryType
<1> QED
  BY <1>5 DEF Init, Inv, PoolAccounted, Accounted, AloneIsAlone, EntryTellsTheTruth,
              NewCall, NoEntry, Running

-----------------------------------------------------------------------------
(* The steps                                                               *)

(* What EntryTellsTheTruth says of one download.                           *)
Honest(c) ==
    call[c].tracked /\ call[c].alone =>
        /\ Running(c) => /\ entry = [shown |-> TRUE, status |-> "DOWNLOADING",
                                     got |-> Cardinality(call[c].got)]
                         /\ controller = c
        /\ ~Running(c) /\ entry.shown =>
             (entry.status = "DONE") = (call[c].pc = "saved")

LEMMA HonestAll == EntryTellsTheTruth <=> \A c \in Calls : Honest(c)
BY DEF EntryTellsTheTruth, Honest

LEMMA Typed ==
    ASSUME PageTypes
    PROVE  /\ call \in [Calls -> CallType] /\ entry \in EntryType
           /\ \A c \in Calls : call[c] \in CallType
BY DEF PageTypes, CallType, EntryType

(* A step of a download under way, or of a worker it has left.  No other   *)
(* download is alone then.                                                 *)
LEMMA CallStep ==
    ASSUME Inv, NEW c \in Calls, ~Quiet(c), NEW y \in CallType,
           call' = [call EXCEPT ![c] = y],
           y.alone = call[c].alone, y.tracked = call[c].tracked,
           Accounted(y), y.pc \in {"listing", "pulling"} => Running(c),
           UNCHANGED <<anonymous, size, server, controller, dismissing>>,
           entry' \in EntryType, Honest(c)'
    PROVE  Inv'
<1> USE DEF Inv
<1>1. call'[c] = y /\ \A d \in Calls : d # c => call'[d] = call[d]
  BY Typed
<1>2. call' \in [Calls -> CallType]
  BY Typed
<1>3. PageTypes'
  BY <1>2 DEF PageTypes, CallType, EntryType, Count, Chunks
<1>4. PoolAccounted'
  <2> SUFFICES ASSUME NEW d \in Calls PROVE Accounted(call[d])'
    BY DEF PoolAccounted
  <2>1. CASE d = c
    BY <1>1, <2>1 DEF Accounted, Chunks, Count
  <2>2. CASE d # c
    BY <1>1, <2>2 DEF Accounted, Chunks, Count, PoolAccounted
  <2> QED
    BY <2>1, <2>2
<1>5. \A d \in Calls : call'[d].alone => d = c /\ call[d].alone
  BY <1>1 DEF AloneIsAlone
<1>6. \A d \in Calls : d # c => (Quiet(d)' <=> Quiet(d))
  BY <1>1 DEF Quiet, Running
<1>7. Running(c)' => Running(c)
  BY <1>1 DEF Running
<1>8. AloneIsAlone'
  BY <1>1, <1>5, <1>6, <1>7 DEF AloneIsAlone
<1>9. EntryTellsTheTruth'
  BY <1>5 DEF EntryTellsTheTruth, Honest
<1> QED
  BY <1>3, <1>4, <1>8, <1>9

LEMMA StartInv ==
    ASSUME Inv, NEW c \in Calls, Start(c)
    PROVE  Inv'
<1> USE DEF Inv
<1>1. PICK alone \in BOOLEAN :
           alone = (~entry.shown /\ ~dismissing /\ \A d \in Calls : Quiet(d))
  OBVIOUS
<1>2. PICK tracked \in BOOLEAN :
           LET new == [NewCall EXCEPT !.pc = "listing", !.tracked = tracked, !.alone = alone]
           IN  /\ tracked => ~anonymous
               /\ call' = [d \in Calls |->
                             IF d # c THEN [call[d] EXCEPT !.alone = FALSE]
                             ELSE IF anonymous THEN Pulling(new) ELSE new]
               /\ entry' = IF tracked THEN NewEntry ELSE Shown("DOWNLOADING")
  BY <1>1 DEF Start
<1>3. PICK new :
           new = [NewCall EXCEPT !.pc = "listing", !.tracked = tracked, !.alone = alone]
  OBVIOUS
<1>4. /\ tracked \in BOOLEAN /\ alone \in BOOLEAN
      /\ tracked => ~anonymous
      /\ alone = (~entry.shown /\ ~dismissing /\ \A d \in Calls : Quiet(d))
      /\ new = [NewCall EXCEPT !.pc = "listing", !.tracked = tracked, !.alone = alone]
      /\ entry' = IF tracked THEN NewEntry ELSE Shown("DOWNLOADING")
      /\ call' = [d \in Calls |->
                    IF d # c THEN [call[d] EXCEPT !.alone = FALSE]
                    ELSE IF anonymous THEN Pulling(new) ELSE new]
  BY <1>1, <1>2, <1>3
<1>5. NewCall.got = {} /\ ~NewCall.cancelled
  BY DEF NewCall
<1>6. NewCall \in CallType
  BY NewFits
<1>7. /\ new \in CallType /\ new.tracked = tracked /\ new.alone = alone
      /\ new.pc = "listing" /\ new.got = {} /\ ~new.cancelled
  BY <1>4, <1>5, <1>6 DEF CallType
<1>8. call'[c] = IF anonymous THEN Pulling(new) ELSE new
  BY <1>4
<1>9. \A d \in Calls : d # c => call'[d] = [call[d] EXCEPT !.alone = FALSE]
  BY <1>4
<1>10. /\ call'[c] \in CallType /\ Accounted(call'[c])
       /\ call'[c].tracked = tracked /\ call'[c].alone = alone
       /\ tracked => call'[c] = new
  <2>1. Accounted(new)
    BY <1>7 DEF Accounted
  <2>2. /\ Pulling(new) \in CallType /\ Accounted(Pulling(new))
        /\ Pulling(new).tracked = tracked /\ Pulling(new).alone = alone
    BY <1>7, PullingFits
  <2>3. call'[c] = new \/ call'[c] = Pulling(new)
    BY <1>8
  <2>4. tracked => call'[c] = new
    BY <1>4, <1>8
  <2> QED
    BY <1>7, <2>1, <2>2, <2>3, <2>4
<1>11. \A d \in Calls : d # c =>
         /\ call'[d] \in CallType /\ ~call'[d].alone
         /\ call'[d].pc = call[d].pc /\ call'[d].got = call[d].got
         /\ call'[d].cursor = call[d].cursor /\ call'[d].worker = call[d].worker
         /\ call'[d].cancelled = call[d].cancelled
  <2> SUFFICES ASSUME NEW d \in Calls, d # c
               PROVE  /\ call'[d] \in CallType /\ ~call'[d].alone
                      /\ call'[d].pc = call[d].pc /\ call'[d].got = call[d].got
                      /\ call'[d].cursor = call[d].cursor /\ call'[d].worker = call[d].worker
                      /\ call'[d].cancelled = call[d].cancelled
    OBVIOUS
  <2>1. call[d] \in CallType
    BY Typed
  <2>2. call'[d] = [call[d] EXCEPT !.alone = FALSE]
    BY <1>9
  <2> QED
    BY <2>1, <2>2 DEF CallType
<1>12. UNCHANGED <<anonymous, size, server, dismissing>> /\ controller' = c
  BY DEF Start, fileVars
<1>13. entry' \in EntryType
  BY <1>4, EntryFits
<1>14. PageTypes'
  <2>1. call' = [d \in Calls |-> call'[d]]
    BY <1>4
  <2>2. call' \in [Calls -> CallType]
    BY <1>10, <1>11, <2>1
  <2> QED
    BY <1>12, <1>13, <2>2 DEF PageTypes, CallType, EntryType, Count, Chunks
<1>15. PoolAccounted'
  <2> SUFFICES ASSUME NEW d \in Calls PROVE Accounted(call[d])'
    BY DEF PoolAccounted
  <2>1. CASE d = c
    BY <1>10, <1>12, <2>1 DEF Accounted, Chunks, Count
  <2>2. CASE d # c
    BY <1>11, <1>12, <2>2 DEF Accounted, Chunks, Count, PoolAccounted
  <2> QED
    BY <2>1, <2>2
<1>16. AloneIsAlone'
  <2>1. \A d \in Calls : d # c => (Quiet(d)' <=> Quiet(d))
    BY <1>11 DEF Quiet, Running
  <2> QED
    BY <1>4, <1>10, <1>11, <1>12, <2>1 DEF AloneIsAlone
<1>17. EntryTellsTheTruth'
  <2>1. tracked => entry' = [shown |-> TRUE, status |-> "DOWNLOADING",
                             got |-> Cardinality(call'[c].got)]
    BY <1>4, <1>7, <1>10, FS_EmptySet DEF NewEntry
  <2>2. tracked => call'[c].pc = "listing"
    BY <1>7, <1>10
  <2>3. Honest(c)'
    BY <1>10, <1>12, <2>1, <2>2 DEF Honest, Running
  <2> QED
    BY <1>11, <2>3 DEF EntryTellsTheTruth, Honest
<1> QED
  BY <1>14, <1>15, <1>16, <1>17

LEMMA ListInv ==
    ASSUME Inv, NEW c \in Calls, Listed(c) \/ ListFails(c)
    PROVE  Inv'
<1> USE DEF Inv
<1>1. Running(c) /\ ~Quiet(c) /\ call[c].pc = "listing" /\ call[c] \in CallType
  BY Typed DEF Listed, ListFails, Running, Quiet
<1>2. UNCHANGED <<anonymous, size, server, controller, dismissing>>
  BY DEF Listed, ListFails, fileVars
<1>3. call[c].tracked /\ call[c].alone =>
        entry = [shown |-> TRUE, status |-> "DOWNLOADING",
                 got |-> Cardinality(call[c].got)] /\ controller = c
  BY <1>1 DEF EntryTellsTheTruth
<1>4. CASE Listed(c)
  <2>1. PICK y : y = Pulling(call[c])
    OBVIOUS
  <2>2. /\ y \in CallType /\ Accounted(y)
        /\ y.pc = IF call[c].cancelled THEN "failed" ELSE "pulling"
        /\ y.got = call[c].got /\ y.tracked = call[c].tracked /\ y.alone = call[c].alone
    BY <1>1, <2>1, PullingFits
  <2>3. call' = [call EXCEPT ![c] = y] /\ call'[c] = y
    BY <1>4, <2>1, Typed DEF Listed
  <2>4. entry' = IF call[c].cancelled THEN Fail(c) ELSE Shown("DOWNLOADING")
    BY <1>4 DEF Listed
  <2>5. entry' \in EntryType
    BY <2>4, EntryFits, Typed DEF Fail, EntryType
  <2>6. Honest(c)'
    <3> SUFFICES ASSUME call[c].tracked, call[c].alone
                 PROVE  /\ Running(c)' => /\ entry' = [shown |-> TRUE, status |-> "DOWNLOADING",
                                                      got |-> Cardinality(y.got)]
                                          /\ controller' = c
                        /\ ~Running(c)' => entry'.status = "FAILED" /\ y.pc = "failed"
      BY <2>2, <2>3 DEF Honest
    <3>1. CASE call[c].cancelled
      <4>1. entry' = [entry EXCEPT !.status = "FAILED"]
        BY <1>3, <2>4, <3>1 DEF Fail, Shown
      <4> QED
        BY <1>3, <2>2, <2>3, <3>1, <4>1 DEF Running
    <3>2. CASE ~call[c].cancelled
      <4>1. entry' = [entry EXCEPT !.status = "DOWNLOADING"]
        BY <1>3, <2>4, <3>2 DEF Shown
      <4>2. entry' = entry
        BY <1>3, <4>1
      <4> QED
        BY <1>2, <1>3, <2>2, <2>3, <3>2, <4>2 DEF Running
    <3> QED
      BY <3>1, <3>2
  <2> QED
    BY <1>1, <1>2, <2>2, <2>3, <2>5, <2>6, CallStep
<1>5. CASE ListFails(c)
  <2>1. PICK y : y = [call[c] EXCEPT !.pc = "failed"]
    OBVIOUS
  <2>2. /\ y \in CallType /\ Accounted(y) /\ y.pc = "failed"
        /\ y.got = call[c].got /\ y.tracked = call[c].tracked /\ y.alone = call[c].alone
    BY <1>1, <2>1 DEF CallType, Accounted
  <2>3. call' = [call EXCEPT ![c] = y] /\ call'[c] = y
    BY <1>5, <2>1, Typed DEF ListFails
  <2>4. entry' = Fail(c)
    BY <1>5 DEF ListFails
  <2>5. entry' \in EntryType
    BY <2>4, EntryFits, Typed DEF Fail, EntryType
  <2>6. Honest(c)'
    BY <1>2, <1>3, <2>2, <2>3, <2>4 DEF Honest, Fail, Shown, Running
  <2> QED
    BY <1>1, <1>2, <2>2, <2>3, <2>5, <2>6, CallStep
<1> QED
  BY <1>4, <1>5

(* A worker's chunk arrives, and it takes the next one.                    *)
LEMMA FetchedFits ==
    ASSUME Inv, NEW c \in Calls, NEW w \in Workers, Fetched(c, w)
    PROVE  /\ call[c] \in CallType /\ call'[c] \in CallType
           /\ call' = [call EXCEPT ![c] = call'[c]]
           /\ call'[c].got = call[c].got \cup {call[c].worker[w].chunk}
           /\ call'[c].alone = call[c].alone /\ call'[c].tracked = call[c].tracked
           /\ call'[c].cancelled = call[c].cancelled
           /\ call'[c].pc \in {call[c].pc, "saved"}
           /\ call'[c].pc = "saved" /\ call[c].pc # "saved" =>
                /\ call[c].pc = "pulling" /\ ~(call[c].cursor <= Count)
                /\ \A v \in Workers \ {w} : call[c].worker[v] = Off
           /\ Accounted(call'[c])
<1> USE DEF Inv
<1>1. call[c] \in CallType
  BY Typed
<1> DEFINE cl == call[c]
           i == cl.worker[w].chunk
           more == cl.cursor <= Count
           saved == ~more /\ (\A v \in Workers \ {w} : cl.worker[v] = Off) /\ cl.pc = "pulling"
<1>2. PICK y : y = [cl EXCEPT
             !.got = cl.got \cup {i},
             !.worker[w] = IF more THEN On(cl.cursor) ELSE Off,
             !.cursor = IF more THEN cl.cursor + 1 ELSE cl.cursor,
             !.pc = IF saved THEN "saved" ELSE cl.pc]
  OBVIOUS
<1>3. call' = [call EXCEPT ![c] = y] /\ i # 0
  BY <1>2, Typed DEF Fetched
<1>4. i \in Chunks /\ cl.cursor \in 1 .. Count + 1 /\ (more => cl.cursor \in 1 .. Count)
  BY <1>1, <1>3, Numbers DEF CallType, Chunks
<1>5. y.got = cl.got \cup {i} /\ y.got \in SUBSET Chunks
  BY <1>1, <1>2, <1>4 DEF CallType
<1>6. y.worker = [cl.worker EXCEPT ![w] = IF more THEN On(cl.cursor) ELSE Off]
  BY <1>1, <1>2 DEF CallType
<1>7. (IF more THEN On(cl.cursor) ELSE Off) \in [chunk : 0 .. Count, attempt : 0 .. Retries]
  BY <1>4, Numbers DEF On, Off
<1>8. y.worker \in [Workers -> [chunk : 0 .. Count, attempt : 0 .. Retries]]
  BY <1>1, <1>6, <1>7 DEF CallType
<1>9. /\ y.cursor = IF more THEN cl.cursor + 1 ELSE cl.cursor
      /\ y.cursor \in 1 .. Count + 1
  BY <1>1, <1>2, <1>4, Numbers DEF CallType
<1>10. y.pc = IF saved THEN "saved" ELSE cl.pc
  BY <1>1, <1>2 DEF CallType
<1>11. y.tracked = cl.tracked /\ y.alone = cl.alone /\ y.cancelled = cl.cancelled
  BY <1>1, <1>2 DEF CallType
<1>12. y \in CallType
  <2>1. y = [pc |-> y.pc, tracked |-> y.tracked, cursor |-> y.cursor, got |-> y.got,
             worker |-> y.worker, cancelled |-> y.cancelled, alone |-> y.alone]
    BY <1>1, <1>2 DEF CallType
  <2>2. y.pc \in {"idle", "listing", "pulling", "saved", "failed"}
    BY <1>1, <1>10 DEF CallType
  <2>3. y.tracked \in BOOLEAN /\ y.alone \in BOOLEAN /\ y.cancelled \in BOOLEAN
    BY <1>1, <1>11 DEF CallType
  <2> QED
    BY <1>5, <1>8, <1>9, <2>1, <2>2, <2>3 DEF CallType
<1>13. Accounted(y)
  <2>1. ASSUME y.pc = "saved" PROVE \A v \in Workers : y.worker[v] = Off
    <3>1. CASE saved
      <4>1. y.worker[w] = Off
        BY <1>1, <1>6, <3>1 DEF CallType
      <4> QED
        BY <1>1, <1>6, <3>1, <4>1 DEF CallType
    <3>2. CASE ~saved
      <4>1. cl.pc = "saved" /\ Accounted(cl)
        BY <1>10, <2>1, <3>2 DEF PoolAccounted
      <4> QED
        BY <1>3, <4>1 DEF Accounted, Off
    <3> QED
      BY <3>1, <3>2
  <2> SUFFICES ASSUME y.pc = "pulling"
               PROVE  /\ ~y.cancelled
                      /\ \A k \in Chunks : \/ k \in y.got \/ k >= y.cursor
                                           \/ \E v \in Workers : y.worker[v].chunk = k
    BY <2>1 DEF Accounted
  <2>2. cl.pc = "pulling" /\ Accounted(cl)
    BY <1>10 DEF PoolAccounted
  <2>3. ~y.cancelled
    BY <1>11, <2>2 DEF Accounted
  <2>4. ASSUME NEW k \in Chunks, k \notin y.got
        PROVE  k >= y.cursor \/ \E v \in Workers : y.worker[v].chunk = k
    <3>1. k # i /\ k \notin cl.got
      BY <1>5, <2>4
    <3>2. CASE k >= cl.cursor
      <4>1. k \in Nat /\ k <= Count
        BY Numbers DEF Chunks
      <4>2. cl.cursor \in Nat
        BY <1>4, Numbers
      <4>3. more
        BY <3>2, <4>1, <4>2, Numbers
      <4>4. y.worker[w].chunk = cl.cursor
        BY <1>1, <1>6, <4>3 DEF On, CallType
      <4>5. y.cursor = cl.cursor + 1
        BY <1>9, <4>3
      <4> QED
        BY <3>2, <4>1, <4>2, <4>4, <4>5
    <3>3. ASSUME NEW v \in Workers, cl.worker[v].chunk = k
          PROVE  y.worker[v].chunk = k
      <4>1. v # w
        BY <3>1, <3>3
      <4> QED
        BY <1>1, <1>6, <3>3, <4>1 DEF CallType
    <3> QED
      BY <2>2, <3>1, <3>2, <3>3 DEF Accounted
  <2> QED
    BY <2>3, <2>4
<1>14. call'[c] = y
  BY <1>3, Typed
<1> HIDE DEF more, saved, i
<1>15. saved => cl.pc = "pulling" /\ ~(cl.cursor <= Count)
                /\ \A v \in Workers \ {w} : cl.worker[v] = Off
  BY DEF saved, more
<1> QED
  BY <1>1, <1>3, <1>5, <1>10, <1>11, <1>12, <1>13, <1>14, <1>15 DEF i

LEMMA Busy ==
    ASSUME NEW c \in Calls, NEW w \in Workers, call[c].worker[w] # Off
    PROVE  ~Quiet(c)
BY DEF Quiet

LEMMA FetchedInv ==
    ASSUME Inv, NEW c \in Calls, NEW w \in Workers, Fetched(c, w)
    PROVE  Inv'
<1> USE DEF Inv
<1>1. UNCHANGED <<anonymous, size, server, controller, dismissing>>
  BY DEF Fetched, fileVars
<1>2. call[c].worker[w] # Off
  BY DEF Fetched, Off
<1>3. ~Quiet(c)
  BY <1>2, Busy
<1>4. PICK y \in CallType : y = call'[c]
  BY FetchedFits
<1>5. /\ call' = [call EXCEPT ![c] = y] /\ call'[c] = y /\ Accounted(y)
      /\ y.alone = call[c].alone /\ y.tracked = call[c].tracked
      /\ y.pc \in {call[c].pc, "saved"}
  BY <1>4, FetchedFits
<1>6. y.got \in SUBSET Chunks /\ Cardinality(y.got) \in 0 .. Count
  BY <1>4, GotCounted DEF CallType
<1>7. y.pc \in {"listing", "pulling"} => Running(c)
  BY <1>5 DEF Running
<1>8. PICK ends \in BOOLEAN :
        /\ entry' = IF ends /\ Progress(Cardinality(y.got)).shown
                    THEN [Progress(Cardinality(y.got)) EXCEPT !.status = "DONE"]
                    ELSE Progress(Cardinality(y.got))
        /\ ends => y.pc = "saved" /\ call[c].pc = "pulling"
        /\ ~ends => y.pc = call[c].pc
  <2>1. call[c] \in CallType
    BY Typed
  <2> DEFINE ended == /\ ~(call[c].cursor <= Count)
                      /\ \A v \in Workers \ {w} : call[c].worker[v] = Off
                      /\ call[c].pc = "pulling"
  <2>2. y.got = call[c].got \cup {call[c].worker[w].chunk}
    BY <1>4, FetchedFits
  <2>3. PICK ends \in BOOLEAN : ends = ended
    OBVIOUS
  <2>4. entry' = IF ends /\ Progress(Cardinality(y.got)).shown
                 THEN [Progress(Cardinality(y.got)) EXCEPT !.status = "DONE"]
                 ELSE Progress(Cardinality(y.got))
    BY <2>2, <2>3 DEF Fetched
  <2>5. call'[c].pc = IF ended THEN "saved" ELSE call[c].pc
    BY <2>1, Typed DEF Fetched, CallType
  <2> QED
    BY <1>5, <2>3, <2>4, <2>5
<1>9. entry' \in EntryType
  <2>1. PICK e \in EntryType : e = Progress(Cardinality(y.got))
    BY <1>6, EntryFits
  <2>2. [e EXCEPT !.status = "DONE"] \in EntryType
    BY DEF EntryType
  <2> QED
    BY <1>8, <2>1, <2>2
<1>10. Honest(c)'
  <2> SUFFICES ASSUME call[c].tracked, call[c].alone
               PROVE  /\ Running(c)' => /\ entry' = [shown |-> TRUE, status |-> "DOWNLOADING",
                                                    got |-> Cardinality(y.got)]
                                        /\ controller' = c
                      /\ ~Running(c)' /\ entry'.shown =>
                           (entry'.status = "DONE") = (y.pc = "saved")
    BY <1>5 DEF Honest
  <2>1. entry \in EntryType
    BY Typed
  <2>2. CASE Running(c)
    <3>1. entry = [shown |-> TRUE, status |-> "DOWNLOADING", got |-> Cardinality(call[c].got)]
          /\ controller = c
      BY <2>2 DEF EntryTellsTheTruth
    <3>2. Progress(Cardinality(y.got)) = [shown |-> TRUE, status |-> "DOWNLOADING",
                                          got |-> Cardinality(y.got)]
      BY <3>1 DEF Progress
    <3>3. CASE ends
      <4>1. entry'.status = "DONE" /\ y.pc = "saved"
        BY <1>8, <3>2, <3>3
      <4> QED
        BY <1>5, <4>1 DEF Running
    <3>4. CASE ~ends
      <4>1. y.pc = call[c].pc /\ entry' = Progress(Cardinality(y.got))
        BY <1>8, <3>4
      <4> QED
        BY <1>1, <1>5, <2>2, <3>1, <3>2, <4>1 DEF Running
    <3> QED
      BY <3>3, <3>4
  <2>3. CASE ~Running(c)
    <3>1. ~ends
      BY <1>8, <2>3 DEF Running
    <3>2. y.pc = call[c].pc /\ entry' = Progress(Cardinality(y.got))
      BY <1>8, <3>1
    <3>3. entry'.shown = entry.shown /\ entry'.status = entry.status
      BY <2>1, <3>2 DEF Progress, EntryType
    <3>4. ~Running(c)'
      BY <1>5, <2>3, <3>2 DEF Running
    <3> QED
      BY <2>3, <3>2, <3>3, <3>4 DEF EntryTellsTheTruth
  <2> QED
    BY <2>2, <2>3
<1> QED
  BY <1>1, <1>3, <1>4, <1>5, <1>7, <1>9, <1>10, CallStep

LEMMA TimesOutInv ==
    ASSUME Inv, NEW c \in Calls, NEW w \in Workers, TimesOut(c, w)
    PROVE  Inv'
<1> USE DEF Inv
<1>1. UNCHANGED <<anonymous, size, server, entry, controller, dismissing>>
  BY DEF TimesOut, fileVars
<1>2. ~Quiet(c) /\ call[c].worker[w].attempt < Retries
  BY Busy DEF TimesOut
<1>3. call[c] \in CallType /\ call[c].worker[w] \in [chunk : 0 .. Count, attempt : 0 .. Retries]
  BY Typed DEF CallType
<1>4. PICK n \in 0 .. Retries : n = call[c].worker[w].attempt + 1
  BY <1>2, <1>3, Numbers
<1>5. PICK y : y = [call[c] EXCEPT !.worker[w].attempt = n]
  OBVIOUS
<1>6. y.worker = [call[c].worker EXCEPT ![w].attempt = n]
  BY <1>3, <1>5 DEF CallType
<1>7. y.worker \in [Workers -> [chunk : 0 .. Count, attempt : 0 .. Retries]]
  <2>1. [call[c].worker[w] EXCEPT !.attempt = n] \in [chunk : 0 .. Count, attempt : 0 .. Retries]
    BY <1>3
  <2> QED
    BY <1>3, <1>6, <2>1 DEF CallType
<1>8. \A v \in Workers : y.worker[v].chunk = call[c].worker[v].chunk
  BY <1>3, <1>6 DEF CallType
<1>9. y \in CallType
  BY <1>3, <1>5, <1>7 DEF CallType
<1>10. /\ y.pc = call[c].pc /\ y.got = call[c].got /\ y.cursor = call[c].cursor
       /\ y.tracked = call[c].tracked /\ y.alone = call[c].alone
       /\ y.cancelled = call[c].cancelled
  BY <1>3, <1>5 DEF CallType
<1>11. Accounted(y)
  <2>1. Accounted(call[c])
    BY DEF PoolAccounted
  <2>2. call[c].pc # "saved"
    BY <2>1 DEF TimesOut, Accounted
  <2> QED
    BY <1>8, <1>10, <2>1, <2>2 DEF Accounted
<1>12. call' = [call EXCEPT ![c] = y] /\ call'[c] = y
  <2>1. call' = [call EXCEPT ![c].worker[w].attempt = n]
    BY <1>4 DEF TimesOut
  <2> QED
    BY <1>5, <2>1, Typed
<1>13. Honest(c)'
  <2>1. Honest(c)
    BY HonestAll
  <2>2. /\ call'[c].pc = call[c].pc /\ call'[c].got = call[c].got
        /\ call'[c].tracked = call[c].tracked /\ call'[c].alone = call[c].alone
    BY <1>10, <1>12
  <2> QED
    BY <1>1, <2>1, <2>2 DEF Honest, Running
<1>14. y.pc \in {"listing", "pulling"} => Running(c)
  BY <1>10 DEF Running
<1>15. entry' \in EntryType
  BY <1>1, Typed
<1> QED
  BY <1>1, <1>2, <1>9, <1>10, <1>11, <1>12, <1>13, <1>14, <1>15, CallStep

LEMMA FetchFailsInv ==
    ASSUME Inv, NEW c \in Calls, NEW w \in Workers, FetchFails(c, w)
    PROVE  Inv'
<1> USE DEF Inv
<1>1. UNCHANGED <<anonymous, size, server, controller, dismissing>>
  BY DEF FetchFails, fileVars
<1>2. ~Quiet(c)
  BY Busy DEF FetchFails
<1>3. call[c] \in CallType
  BY Typed
<1>4. PICK y : y = [call[c] EXCEPT !.worker[w] = Off, !.pc = "failed"]
  OBVIOUS
<1>5. y.worker = [call[c].worker EXCEPT ![w] = Off]
  BY <1>3, <1>4 DEF CallType
<1>6. Off \in [chunk : 0 .. Count, attempt : 0 .. Retries]
  BY Numbers DEF Off
<1>7. y.worker \in [Workers -> [chunk : 0 .. Count, attempt : 0 .. Retries]]
  BY <1>3, <1>5, <1>6 DEF CallType
<1>8. y \in CallType
  BY <1>3, <1>4, <1>7 DEF CallType
<1>9. /\ y.pc = "failed" /\ y.got = call[c].got
      /\ y.tracked = call[c].tracked /\ y.alone = call[c].alone
  BY <1>3, <1>4 DEF CallType
<1>10. Accounted(y)
  BY <1>9 DEF Accounted
<1>11. call' = [call EXCEPT ![c] = y] /\ call'[c] = y
  BY <1>4, Typed DEF FetchFails
<1>12. entry' = IF call[c].pc = "pulling" THEN Fail(c) ELSE entry
  BY DEF FetchFails
<1>13. entry' \in EntryType
  BY <1>12, EntryFits, Typed DEF Fail, EntryType
<1>14. Honest(c)'
  <2> SUFFICES ASSUME call[c].tracked, call[c].alone, entry'.shown
               PROVE  entry'.status # "DONE"
    BY <1>9, <1>11 DEF Honest, Running
  <2>1. CASE call[c].pc = "pulling"
    <3>1. entry' = Shown("FAILED")
      BY <1>12, <2>1 DEF Fail
    <3> QED
      BY <3>1, Typed DEF Shown, EntryType
  <2>2. call[c].pc # "saved"
    BY DEF FetchFails, PoolAccounted, Accounted
  <2>3. CASE call[c].pc = "listing"
    <3>1. entry.status = "DOWNLOADING"
      BY <2>3 DEF EntryTellsTheTruth, Running
    <3> QED
      BY <1>12, <2>3, <3>1
  <2>4. CASE ~Running(c)
    <3>1. entry' = entry
      BY <1>12, <2>4 DEF Running
    <3>2. (entry.status = "DONE") = (call[c].pc = "saved")
      BY <2>4, <3>1 DEF EntryTellsTheTruth
    <3> QED
      BY <2>2, <3>1, <3>2
  <2> QED
    BY <2>1, <2>3, <2>4 DEF Running
<1> QED
  BY <1>1, <1>2, <1>8, <1>9, <1>10, <1>11, <1>13, <1>14, CallStep

(* The user cancels the download whose controller the store has.           *)
LEMMA CancelInv ==
    ASSUME Inv, Cancel
    PROVE  Inv'
<1> USE DEF Inv
<1>1. PICK c \in Calls : c = controller
  BY DEF Cancel, PageTypes
<1>2. call[c] \in CallType
  BY Typed
<1>3. PICK y : y = [call[c] EXCEPT !.cancelled = TRUE, !.worker = [w \in Workers |-> Off],
                      !.pc = IF call[c].pc = "pulling" THEN "failed" ELSE call[c].pc]
  OBVIOUS
<1>4. Off \in [chunk : 0 .. Count, attempt : 0 .. Retries]
  BY Numbers DEF Off
<1>5. y.worker = [w \in Workers |-> Off]
  BY <1>2, <1>3 DEF CallType
<1>6. y \in CallType
  BY <1>2, <1>3, <1>4 DEF CallType
<1>7. /\ y.got = call[c].got /\ y.tracked = call[c].tracked /\ y.alone = call[c].alone
      /\ y.pc = IF call[c].pc = "pulling" THEN "failed" ELSE call[c].pc
  BY <1>2, <1>3 DEF CallType
<1>8. Accounted(y)
  BY <1>5, <1>7 DEF Accounted
<1>9. call' = [call EXCEPT ![c] = y] /\ call'[c] = y
  BY <1>1, <1>3, Typed DEF Cancel
<1>10. /\ UNCHANGED <<anonymous, size, server, controller, dismissing>>
       /\ entry.shown /\ entry.status = "DOWNLOADING"
       /\ entry' = IF call[c].pc = "pulling" THEN Fail(c) ELSE entry
  BY <1>1 DEF Cancel, fileVars
<1>11. entry' \in EntryType
  BY <1>10, EntryFits, Typed DEF Fail, EntryType
<1>12. Honest(c)'
  <2> SUFFICES ASSUME call[c].tracked, call[c].alone
               PROVE  /\ Running(c)' => /\ entry' = [shown |-> TRUE, status |-> "DOWNLOADING",
                                                    got |-> Cardinality(y.got)]
                                        /\ controller' = c
                      /\ ~Running(c)' /\ entry'.shown =>
                           (entry'.status = "DONE") = (y.pc = "saved")
    BY <1>7, <1>9 DEF Honest
  <2>1. CASE call[c].pc = "pulling"
    <3>1. entry' = [entry EXCEPT !.status = "FAILED"]
      BY <1>10, <2>1 DEF Fail, Shown
    <3>2. entry'.status = "FAILED" /\ y.pc = "failed"
      BY <1>7, <2>1, <3>1, Typed DEF EntryType
    <3> QED
      BY <1>9, <3>2 DEF Running
  <2>2. CASE call[c].pc # "pulling"
    <3>1. entry' = entry /\ y.pc = call[c].pc
      BY <1>7, <1>10, <2>2
    <3>2. Honest(c)
      BY HonestAll
    <3> QED
      BY <1>7, <1>9, <1>10, <3>1, <3>2 DEF Honest, Running
  <2> QED
    BY <2>1, <2>2
<1>13. CASE ~Quiet(c)
  <2>1. y.pc \in {"listing", "pulling"} => Running(c)
    BY <1>7 DEF Running
  <2> QED
    BY <1>6, <1>7, <1>8, <1>9, <1>10, <1>11, <1>12, <1>13, <2>1, CallStep
<1>14. CASE Quiet(c)
  <2>1. call[c].pc \notin {"listing", "pulling"}
    BY <1>14 DEF Quiet, Running
  <2>2. entry' = entry /\ y.pc = call[c].pc
    BY <1>7, <1>10, <2>1
  <2>3. \A d \in Calls : d # c => call'[d] = call[d]
    BY <1>9, Typed
  <2>4. \A d \in Calls : /\ call'[d].pc = call[d].pc /\ call'[d].got = call[d].got
                         /\ call'[d].tracked = call[d].tracked
                         /\ call'[d].alone = call[d].alone
    BY <1>7, <1>9, <2>2, <2>3
  <2>5. \A d \in Calls : Quiet(d) => Quiet(d)'
    BY <1>5, <1>9, <2>3, <2>4 DEF Quiet, Running
  <2>6. call' \in [Calls -> CallType]
    BY <1>6, <1>9, Typed
  <2>7. PageTypes'
    BY <1>10, <2>2, <2>6 DEF PageTypes, CallType, EntryType, Count, Chunks
  <2>8. PoolAccounted'
    <3> SUFFICES ASSUME NEW d \in Calls PROVE Accounted(call[d])'
      BY DEF PoolAccounted
    <3>1. CASE d = c
      BY <1>8, <1>9, <1>10, <3>1 DEF Accounted, Chunks, Count
    <3>2. CASE d # c
      BY <1>10, <2>3, <3>2 DEF Accounted, Chunks, Count, PoolAccounted
    <3> QED
      BY <3>1, <3>2
  <2>9. AloneIsAlone'
    BY <1>10, <2>4, <2>5 DEF AloneIsAlone, Running
  <2>10. EntryTellsTheTruth'
    BY <1>10, <2>2, <2>4 DEF EntryTellsTheTruth, Running
  <2> QED
    BY <2>7, <2>8, <2>9, <2>10
<1> QED
  BY <1>13, <1>14

(* The timer that removes the entry, and the steps that leave the page as  *)
(* it is.                                                                  *)
LEMMA DismissInv ==
    ASSUME Inv, DismissSoon \/ Dismiss
    PROVE  Inv'
<1> USE DEF Inv
<1>1. UNCHANGED <<anonymous, size, server, call>>
  BY DEF DismissSoon, Dismiss, fileVars
<1>2. PageTypes'
  <2>1. entry' \in EntryType /\ controller' \in Calls \cup {None} /\ dismissing' \in BOOLEAN
    BY EntryFits, Typed DEF DismissSoon, Dismiss, PageTypes
  <2> QED
    BY <1>1, <2>1 DEF PageTypes, CallType, EntryType, Count, Chunks
<1>3. PoolAccounted'
  BY <1>1 DEF PoolAccounted, Accounted, Chunks, Count
<1>4. \A d \in Calls : (Quiet(d)' <=> Quiet(d)) /\ (Running(d)' <=> Running(d))
  BY <1>1 DEF Quiet, Running
<1>5. \A d \in Calls : call[d].tracked /\ call[d].alone /\ Running(d) =>
          ~DismissSoon /\ ~Dismiss
  BY DEF AloneIsAlone, EntryTellsTheTruth, DismissSoon, Dismiss
<1>6. AloneIsAlone'
  BY <1>1, <1>4, <1>5 DEF AloneIsAlone
<1>7. entry' = entry \/ ~entry'.shown
  BY DEF DismissSoon, Dismiss, NoEntry
<1>8. EntryTellsTheTruth'
  BY <1>1, <1>4, <1>5, <1>7 DEF EntryTellsTheTruth
<1> QED
  BY <1>2, <1>3, <1>6, <1>8

LEMMA OtherInv ==
    ASSUME Inv, UNCHANGED <<fileVars, pageVars>>, server' \in {"ready", "trashed", "purged"}
    PROVE  Inv'
<1> USE DEF Inv
<1>1. UNCHANGED <<anonymous, size, call, entry, controller, dismissing>>
  BY DEF fileVars, pageVars
<1>2. PageTypes'
  BY <1>1 DEF PageTypes, Count, Chunks
<1>3. PoolAccounted' /\ AloneIsAlone' /\ EntryTellsTheTruth'
  BY <1>1 DEF PoolAccounted, Accounted, AloneIsAlone, EntryTellsTheTruth, Quiet, Running,
              Chunks, Count
<1> QED
  BY <1>2, <1>3

LEMMA InvNext == ASSUME Inv, [Next]_vars PROVE Inv'
<1>1. CASE UNCHANGED vars
  <2>1. UNCHANGED <<fileVars, pageVars>> /\ server' \in {"ready", "trashed", "purged"}
    BY <1>1 DEF vars, fileVars, pageVars, Inv, PageTypes
  <2> QED
    BY <2>1, OtherInv
<1>2. CASE Trash \/ Restore \/ Purge
  <2>1. UNCHANGED <<fileVars, pageVars>> /\ server' \in {"ready", "trashed", "purged"}
    BY <1>2 DEF Trash, Restore, Purge
  <2> QED
    BY <2>1, OtherInv
<1>3. ASSUME NEW s \in Streams,
             StreamFind(s) \/ StreamRange(s) \/ StreamPiece(s) \/ StreamFails(s)
      PROVE  Inv'
  <2>1. UNCHANGED <<fileVars, pageVars, server>>
    BY <1>3 DEF StreamFind, StreamRange, StreamPiece, StreamFails
  <2>2. server' \in {"ready", "trashed", "purged"}
    BY <2>1 DEF Inv, PageTypes
  <2> QED
    BY <2>1, <2>2, OtherInv
<1>4. CASE \/ \E c \in Calls : Start(c) \/ Listed(c) \/ ListFails(c)
           \/ \E c \in Calls, w \in Workers :
                Fetched(c, w) \/ TimesOut(c, w) \/ FetchFails(c, w)
           \/ Cancel \/ DismissSoon \/ Dismiss
  BY <1>4, StartInv, ListInv, FetchedInv, TimesOutInv, FetchFailsInv, CancelInv, DismissInv
<1> QED
  BY <1>1, <1>2, <1>3, <1>4 DEF Next

LEMMA InvAlways == Spec => []Inv
BY InitInv, InvNext, PTL DEF Spec

-----------------------------------------------------------------------------
(* The theorems                                                            *)

(* The downloads, the entry of the store and its timer keep their types;   *)
(* the fields of a range request, whose type depends on sums of the chunk  *)
(* sizes, are left to the run.                                             *)
THEOREM PagesTyped == Spec => []PageTypes
<1>1. Inv => PageTypes
  BY DEF Inv
<1> QED
  BY <1>1, InvAlways, PTL

(* A download on its own is shown with its own progress while it runs, can *)
(* be cancelled, and is shown as done exactly if the file was saved.       *)
THEOREM TellsTheTruth == Spec => []EntryTellsTheTruth
<1>1. Inv => EntryTellsTheTruth
  BY DEF Inv
<1> QED
  BY <1>1, InvAlways, PTL

(* Only the arrival of a chunk ends a download as saved.                   *)
LEMMA SavedByFetched ==
    ASSUME Inv, [Next]_vars, NEW c \in Calls, call[c].pc # "saved", call'[c].pc = "saved"
    PROVE  \E w \in Workers : Fetched(c, w)
<1> USE DEF Inv
<1>1. call' # call
  OBVIOUS
<1>2. CASE \/ Trash \/ Restore \/ Purge \/ DismissSoon \/ Dismiss
           \/ \E s \in Streams :
                StreamFind(s) \/ StreamRange(s) \/ StreamPiece(s) \/ StreamFails(s)
  BY <1>1, <1>2 DEF Trash, Restore, Purge, DismissSoon, Dismiss, StreamFind, StreamRange,
                    StreamPiece, StreamFails, pageVars
<1>3. ASSUME NEW d \in Calls, Start(d) PROVE FALSE
  <2>1. PICK new \in CallType :
          /\ new.pc = "listing"
          /\ call'[d] = IF anonymous THEN Pulling(new) ELSE new
    <3>1. PICK tracked \in BOOLEAN, alone \in BOOLEAN :
            call'[d] = IF anonymous
                       THEN Pulling([NewCall EXCEPT !.pc = "listing", !.tracked = tracked,
                                                    !.alone = alone])
                       ELSE [NewCall EXCEPT !.pc = "listing", !.tracked = tracked,
                                            !.alone = alone]
      BY <1>3 DEF Start
    <3>2. [NewCall EXCEPT !.pc = "listing", !.tracked = tracked, !.alone = alone] \in CallType
      BY NewFits DEF CallType
    <3>3. [NewCall EXCEPT !.pc = "listing", !.tracked = tracked, !.alone = alone].pc
            = "listing"
      BY NewFits DEF CallType
    <3> QED
      BY <3>1, <3>2, <3>3
  <2>2. call'[d].pc # "saved"
    BY <2>1, PullingFits
  <2>3. d # c => call'[c].pc = call[c].pc
    <3>1. d # c => call'[c] = [call[c] EXCEPT !.alone = FALSE]
      BY <1>3 DEF Start
    <3> QED
      BY <3>1, Typed DEF CallType
  <2> QED
    BY <2>2, <2>3
<1>4. ASSUME NEW d \in Calls, Listed(d) \/ ListFails(d) PROVE FALSE
  <2>1. call'[c] = IF d = c THEN call'[d] ELSE call[c]
    BY <1>4, Typed DEF Listed, ListFails
  <2>2. call'[d] = Pulling(call[d]) \/ call'[d] = [call[d] EXCEPT !.pc = "failed"]
    BY <1>4, Typed DEF Listed, ListFails
  <2>3. Pulling(call[d]).pc # "saved" /\ [call[d] EXCEPT !.pc = "failed"].pc # "saved"
    BY PullingFits, Typed DEF CallType
  <2> QED
    BY <2>1, <2>2, <2>3
<1>5. CASE Cancel
  <2>1. call'[c].pc \in {call[c].pc, "failed"}
    BY <1>5, Typed DEF Cancel, CallType
  <2> QED
    BY <2>1
<1>6. ASSUME NEW d \in Calls, NEW w \in Workers, TimesOut(d, w) \/ FetchFails(d, w)
      PROVE  FALSE
  <2>1. call'[c].pc \in {call[c].pc, "failed"}
    BY <1>6, Typed DEF TimesOut, FetchFails, CallType
  <2> QED
    BY <2>1
<1>7. ASSUME NEW d \in Calls, NEW w \in Workers, Fetched(d, w), d # c PROVE FALSE
  <2>1. call'[c] = call[c]
    BY <1>7, Typed DEF Fetched
  <2> QED
    BY <2>1
<1> QED
  BY <1>1, <1>2, <1>3, <1>4, <1>5, <1>6, <1>7 DEF Next, vars

(* What is saved is the whole file: whichever worker brings the last chunk *)
(* and however timeouts, failures and cancellations interleave, a download *)
(* becomes saved only with every chunk of the file and never after the     *)
(* user has cancelled it.                                                  *)
THEOREM SavedWhole == Spec => SavesWholeFiles
<1>1. ASSUME Inv, [Next]_vars, NEW c \in Calls,
             call[c].pc # "saved", call'[c].pc = "saved"
      PROVE  call'[c].got = Chunks /\ ~call[c].cancelled
  <2>1. PICK w \in Workers : Fetched(c, w)
    BY <1>1, SavedByFetched
  <2>2. /\ call[c] \in CallType /\ call'[c] \in CallType
        /\ call'[c].got = call[c].got \cup {call[c].worker[w].chunk}
        /\ call[c].pc = "pulling" /\ ~(call[c].cursor <= Count)
        /\ \A v \in Workers \ {w} : call[c].worker[v] = Off
    BY <1>1, <2>1, FetchedFits
  <2>3. /\ ~call[c].cancelled
        /\ \A k \in Chunks : \/ k \in call[c].got \/ k >= call[c].cursor
                             \/ \E v \in Workers : call[c].worker[v].chunk = k
    BY <1>1, <2>2 DEF Inv, PoolAccounted, Accounted
  <2>4. call'[c].got \subseteq Chunks
    <3>1. call[c].worker[w].chunk \in Chunks
      BY <1>1, <2>1, <2>2, Numbers DEF Fetched, CallType, Chunks, Inv
    <3> QED
      BY <2>2, <3>1 DEF CallType
  <2>5. ASSUME NEW k \in Chunks PROVE k \in call'[c].got
    <3>1. k \in Nat \ {0} /\ k <= Count /\ Count \in Nat
      BY <1>1, Numbers DEF Chunks, Inv
    <3>2. call[c].cursor \in Nat
      BY <2>2, <3>1 DEF CallType
    <3>3. ~(k >= call[c].cursor)
      BY <2>2, <3>1, <3>2
    <3>4. ASSUME NEW v \in Workers, call[c].worker[v].chunk = k PROVE k \in call'[c].got
      <4>1. CASE v = w
        BY <2>2, <3>4, <4>1
      <4>2. CASE v # w
        BY <2>2, <3>1, <3>4, <4>2 DEF Off
      <4> QED
        BY <4>1, <4>2
    <3> QED
      BY <2>2, <2>3, <3>3, <3>4
  <2> QED
    BY <2>3, <2>4, <2>5
<1>2. Inv /\ [Next]_vars =>
        [\A c \in Calls : call[c].pc # "saved" /\ call'[c].pc = "saved"
           => call'[c].got = Chunks /\ ~call[c].cancelled]_vars
  BY <1>1
<1> QED
  BY <1>2, InvAlways, PTL DEF Spec, SavesWholeFiles

-----------------------------------------------------------------------------
(* Induction over the naturals, for a set: the least number outside of it  *)
(* would be the successor of one inside.                                   *)
LEMMA SetInduction ==
    ASSUME NEW S \in SUBSET Nat, 0 \in S, \A n \in S : n + 1 \in S
    PROVE  S = Nat
<1> DEFINE R == OpToRel(<, Nat)
<1>1. IsWellFoundedOn(R, Nat)
  BY NatLessThanWellFounded
<1>2. \A x, y \in Nat : y < x => <<y, x>> \in R
  BY DEF OpToRel
<1>3. ASSUME Nat \ S # {} PROVE FALSE
  <2> HIDE DEF R
  <2>1. PICK x \in Nat \ S : \A y \in Nat \ S : <<y, x>> \notin R
    <3>1. Nat \ S \subseteq Nat
      OBVIOUS
    <3> QED
      BY <1>1, <1>3, <3>1, WFMin
  <2>2. x # 0 /\ x - 1 \in Nat /\ x - 1 < x /\ x - 1 + 1 = x
    BY <2>1
  <2>3. x - 1 \in S
    BY <1>2, <2>1, <2>2
  <2> QED
    BY <2>1, <2>2, <2>3
<1> QED
  BY <1>3

(* A set of naturals that is not empty has a least element.                *)
LEMMA LeastOf ==
    ASSUME NEW S \in SUBSET Nat, S # {}
    PROVE  \E m \in S : \A n \in S : m <= n
<1> DEFINE T == {k \in Nat : \A n \in S : k < n}
<1>1. SUFFICES ASSUME \A m \in S : \E n \in S : n < m PROVE FALSE
  OBVIOUS
<1>2. 0 \in T
  BY <1>1
<1>3. ASSUME NEW k \in T PROVE k + 1 \in T
  <2>1. k + 1 \notin S
    <3>1. ASSUME k + 1 \in S PROVE FALSE
      <4>1. PICK n \in S : n < k + 1
        BY <1>1, <3>1
      <4> QED
        BY <4>1
    <3> QED
      BY <3>1
  <2> QED
    BY <2>1
<1>4. T = Nat
  <2>1. T \in SUBSET Nat
    OBVIOUS
  <2> HIDE DEF T
  <2> QED
    BY <1>2, <1>3, <2>1, SetInduction
<1>5. PICK n \in S : TRUE
  OBVIOUS
<1> QED
  BY <1>4, <1>5

(* The sums of the sizes of the first chunks.                              *)
Prefix(s) ==
    LET sum[k \in 1 .. Len(s) + 1] == IF k = 1 THEN 0 ELSE sum[k - 1] + s[k - 1]
    IN  sum

(* The recursion defines a function: one for the first n chunks exists     *)
(* whenever one for fewer does.                                            *)
LEMMA PrefixDef ==
    ASSUME NEW s \in Seq(Nat)
    PROVE  /\ Prefix(s)[1] = 0
           /\ \A k \in 1 .. Len(s) : Prefix(s)[k + 1] = Prefix(s)[k] + s[k]
<1> DEFINE D(n) == 1 .. n + 1
           Ok(f, n) == f = [k \in D(n) |-> IF k = 1 THEN 0 ELSE f[k - 1] + s[k - 1]]
           S == {n \in Nat : n <= Len(s) => \E f : Ok(f, n)}
<1>1. Len(s) \in Nat /\ s \in [1 .. Len(s) -> Nat]
  OBVIOUS
<1>2. 0 \in S
  <2> DEFINE f0 == [k \in D(0) |-> 0]
  <2>1. Ok(f0, 0)
    OBVIOUS
  <2> QED
    BY <2>1
<1>3. ASSUME NEW n \in S PROVE n + 1 \in S
  <2> SUFFICES ASSUME n + 1 <= Len(s) PROVE \E f : Ok(f, n + 1)
    BY <1>1
  <2>1. PICK f : Ok(f, n)
    BY <1>1
  <2> DEFINE g == [k \in D(n + 1) |-> IF k = n + 2 THEN f[n + 1] + s[n + 1] ELSE f[k]]
  <2>2. ASSUME NEW k \in D(n + 1)
        PROVE  g[k] = IF k = 1 THEN 0 ELSE g[k - 1] + s[k - 1]
    <3>1. n \in Nat /\ k \in Nat
      OBVIOUS
    <3>2. CASE k = n + 2
      <4>1. k # 1 /\ k - 1 \in D(n + 1) /\ k - 1 # n + 2 /\ k - 1 = n + 1
        BY <3>1, <3>2
      <4>2. g[k] = f[n + 1] + s[n + 1] /\ g[k - 1] = f[k - 1]
        BY <3>2, <4>1
      <4> QED
        BY <4>1, <4>2
    <3>3. CASE k = 1
      <4>1. 1 \in D(n) /\ k # n + 2
        BY <3>1, <3>3
      <4>2. f[1] = 0
        BY <2>1, <4>1
      <4> QED
        BY <3>3, <4>1, <4>2
    <3>4. CASE k # n + 2 /\ k # 1
      <4>1. k \in D(n) /\ k - 1 \in D(n) /\ k - 1 \in D(n + 1) /\ k - 1 # n + 2
        BY <3>1, <3>4
      <4>2. f[k] = f[k - 1] + s[k - 1]
        BY <2>1, <3>4, <4>1
      <4> QED
        BY <3>4, <4>1, <4>2
    <3> QED
      BY <3>2, <3>3, <3>4
  <2>3. Ok(g, n + 1)
    BY <2>2, Zenon
  <2> QED
    BY <2>3
<1>4. Len(s) \in S
  <2>1. S \in SUBSET Nat
    OBVIOUS
  <2> HIDE DEF S
  <2> QED
    BY <1>1, <1>2, <1>3, <2>1, SetInduction
<1>5. PICK f : Ok(f, Len(s))
  BY <1>1, <1>4
<1>6. Ok(Prefix(s), Len(s))
  BY <1>5 DEF Prefix
<1> QED
  BY <1>1, <1>6

LEMMA PrefixNat ==
    ASSUME NEW s \in Seq(Nat)
    PROVE  \A k \in 1 .. Len(s) + 1 : Prefix(s)[k] \in Nat
<1> DEFINE S == {n \in Nat : n <= Len(s) => Prefix(s)[n + 1] \in Nat}
<1>1. Len(s) \in Nat /\ \A k \in 1 .. Len(s) : s[k] \in Nat
  OBVIOUS
<1>2. 0 \in S
  BY PrefixDef
<1>3. ASSUME NEW n \in S PROVE n + 1 \in S
  <2> SUFFICES ASSUME n + 1 <= Len(s) PROVE Prefix(s)[n + 2] \in Nat
    BY <1>1
  <2>1. n + 1 \in 1 .. Len(s) /\ n + 1 + 1 = n + 2 /\ n <= Len(s)
    BY <1>1
  <2>2. Prefix(s)[n + 2] = Prefix(s)[n + 1] + s[n + 1]
    BY <2>1, PrefixDef
  <2> QED
    BY <1>1, <2>1, <2>2
<1>4. S = Nat
  <2>1. S \in SUBSET Nat
    OBVIOUS
  <2> HIDE DEF S
  <2> QED
    BY <1>2, <1>3, <2>1, SetInduction
<1>5. ASSUME NEW k \in 1 .. Len(s) + 1 PROVE Prefix(s)[k] \in Nat
  <2>1. k - 1 \in Nat /\ k - 1 <= Len(s) /\ k - 1 + 1 = k
    BY <1>1
  <2>2. k - 1 \in S
    <3> HIDE DEF S
    <3> QED
      BY <1>4, <2>1
  <2> QED
    BY <2>1, <2>2
<1> QED
  BY <1>5

LEMMA PrefixGrows ==
    ASSUME NEW s \in Seq(Nat), NEW i \in 1 .. Len(s) + 1, NEW j \in i .. Len(s) + 1
    PROVE  Prefix(s)[i] <= Prefix(s)[j]
<1> DEFINE S == {n \in Nat : i + n <= Len(s) + 1 => Prefix(s)[i] <= Prefix(s)[i + n]}
<1>1. Len(s) \in Nat /\ \A k \in 1 .. Len(s) : s[k] \in Nat
  OBVIOUS
<1>2. 0 \in S
  <2>1. i + 0 = i /\ Prefix(s)[i] \in Nat
    BY <1>1, PrefixNat
  <2> QED
    BY <2>1
<1>3. ASSUME NEW n \in S PROVE n + 1 \in S
  <2> SUFFICES ASSUME i + (n + 1) <= Len(s) + 1 PROVE Prefix(s)[i] <= Prefix(s)[i + (n + 1)]
    BY <1>1
  <2>1. /\ i + n \in 1 .. Len(s) /\ i + n \in 1 .. Len(s) + 1
        /\ i + n <= Len(s) + 1 /\ i + n + 1 = i + (n + 1)
    BY <1>1
  <2>2. /\ Prefix(s)[i + (n + 1)] = Prefix(s)[i + n] + s[i + n] /\ s[i + n] \in Nat
        /\ Prefix(s)[i] \in Nat /\ Prefix(s)[i + n] \in Nat
    BY <1>1, <2>1, PrefixDef, PrefixNat
  <2>3. Prefix(s)[i] <= Prefix(s)[i + n]
    BY <2>1
  <2> QED
    BY <2>2, <2>3
<1>4. j - i \in S
  <2>1. S \in SUBSET Nat
    OBVIOUS
  <2>2. j - i \in Nat
    BY <1>1
  <2> HIDE DEF S
  <2>3. S = Nat
    BY <1>2, <1>3, <2>1, SetInduction
  <2> QED
    BY <2>2, <2>3
<1>5. i + (j - i) = j /\ j <= Len(s) + 1
  BY <1>1
<1>6. Prefix(s)[i] <= Prefix(s)[i + (j - i)]
  BY <1>4, <1>5
<1> QED
  BY <1>5, <1>6

-----------------------------------------------------------------------------
(* The chunks of a range                                                   *)

LEMMA Offsets ==
    ASSUME PageTypes
    PROVE  /\ Offset(1) = 0
           /\ \A i \in Chunks : /\ size[i] \in Nat
                                /\ Offset(i + 1) = Offset(i) + size[i]
           /\ \A i \in 1 .. Count + 1 : Offset(i) \in Nat
           /\ Total \in Nat
<1>1. PICK s : s = size
  OBVIOUS
<1>2. s \in Seq(Nat) /\ Len(s) \in Nat
  BY <1>1, DownloadsAssumption DEF PageTypes
<1>3. \A i : Offset(i) = Prefix(s)[i]
  BY <1>1 DEF Offset, Prefix, Count
<1>4. /\ Prefix(s)[1] = 0
      /\ \A k \in 1 .. Len(s) : Prefix(s)[k + 1] = Prefix(s)[k] + s[k]
      /\ \A k \in 1 .. Len(s) + 1 : Prefix(s)[k] \in Nat
  BY <1>2, PrefixDef, PrefixNat
<1>5. Count = Len(s) /\ \A i \in 1 .. Len(s) : s[i] \in Nat
  BY <1>1, <1>2 DEF Count
<1>6. /\ Offset(1) = 0
      /\ \A i \in 1 .. Count + 1 : Offset(i) \in Nat
  BY <1>3, <1>4, <1>5
<1>7. \A i \in Chunks : size[i] \in Nat /\ Offset(i + 1) = Offset(i) + size[i]
  BY <1>1, <1>3, <1>4, <1>5 DEF Chunks
<1>8. Total \in Nat
  BY <1>2, <1>5, <1>6 DEF Total
<1> QED
  BY <1>6, <1>7, <1>8

LEMMA OffsetsGrow ==
    ASSUME PageTypes, NEW i \in 1 .. Count + 1, NEW j \in i .. Count + 1
    PROVE  Offset(i) <= Offset(j)
<1>1. PICK s : s = size
  OBVIOUS
<1>2. s \in Seq(Nat) /\ Len(s) = Count
  BY <1>1, DownloadsAssumption DEF PageTypes, Count
<1>3. Prefix(s)[i] <= Prefix(s)[j]
  BY <1>2, PrefixGrows
<1> QED
  BY <1>1, <1>3 DEF Offset, Prefix, Count

(* FirstChunk finds the chunk that holds a byte of the file.               *)
LEMMA FirstFound ==
    ASSUME PageTypes, NEW first \in Nat, FirstChunk(first) # 0
    PROVE  /\ FirstChunk(first) \in Chunks
           /\ Offset(FirstChunk(first)) <= first
           /\ first < Offset(FirstChunk(first) + 1)
<1> DEFINE after == {i \in Chunks : first < Offset(i) + size[i]}
<1>1. Count \in Nat /\ Chunks \subseteq Nat
  BY Numbers DEF Chunks
<1>2. after # {} /\ FirstChunk(first) = CHOOSE i \in after : \A j \in after : i <= j
  BY DEF FirstChunk
<1>3. \E i \in after : \A j \in after : i <= j
  <2>1. after \in SUBSET Nat
    BY <1>1
  <2> HIDE DEF after
  <2>2. PICK S : S = after
    OBVIOUS
  <2>3. \E i \in S : \A j \in S : i <= j
    BY <1>2, <2>1, <2>2, LeastOf
  <2> QED
    BY <2>2, <2>3
<1>4. FirstChunk(first) \in after /\ \A j \in after : FirstChunk(first) <= j
  <2> HIDE DEF after
  <2> QED
    BY <1>2, <1>3
<1>5. PICK f : f = FirstChunk(first)
  OBVIOUS
<1>6. f \in Chunks /\ first < Offset(f) + size[f] /\ Offset(f + 1) = Offset(f) + size[f]
  BY <1>4, <1>5, Offsets
<1>7. Offset(f) <= first
  <2>1. CASE f = 1
    BY <2>1, Offsets
  <2>2. CASE f # 1
    <3>1. f - 1 \in Chunks /\ f - 1 + 1 = f /\ ~(f <= f - 1)
      BY <1>1, <1>6, <2>2 DEF Chunks
    <3>2. f - 1 \notin after
      BY <1>4, <1>5, <3>1
    <3>3. /\ Offset(f) = Offset(f - 1) + size[f - 1]
          /\ Offset(f - 1) \in Nat /\ size[f - 1] \in Nat
      BY <1>1, <3>1, Offsets DEF Chunks
    <3> QED
      BY <3>1, <3>2, <3>3
  <2> QED
    BY <2>1, <2>2
<1> QED
  BY <1>5, <1>6, <1>7

(* LastChunk finds the first chunk that reaches beyond the last byte.      *)
LEMMA LastFound ==
    ASSUME PageTypes, NEW from \in Chunks, NEW last \in Nat, last < Total
    PROVE  /\ LastChunk(from, last) \in from .. Count
           /\ last < Offset(LastChunk(from, last) + 1)
           /\ \A j \in from .. Count : j < LastChunk(from, last) => Offset(j + 1) <= last
<1> DEFINE ends == {i \in from .. Count : Offset(i) + size[i] > last} \cup {Count}
<1>1. Count \in Nat \ {0} /\ Chunks \subseteq Nat /\ from \in Nat /\ from >= 1 /\ from <= Count
  BY Numbers DEF Chunks
<1>2. LastChunk(from, last) = CHOOSE i \in ends : \A j \in ends : i <= j
  BY DEF LastChunk
<1>3. \E i \in ends : \A j \in ends : i <= j
  <2>1. ends \in SUBSET Nat /\ ends # {}
    BY <1>1
  <2> HIDE DEF ends
  <2>2. PICK S : S = ends
    OBVIOUS
  <2>3. \E i \in S : \A j \in S : i <= j
    BY <2>1, <2>2, LeastOf
  <2> QED
    BY <2>2, <2>3
<1>4. LastChunk(from, last) \in ends /\ \A j \in ends : LastChunk(from, last) <= j
  <2> HIDE DEF ends
  <2> QED
    BY <1>2, <1>3
<1>5. PICK u : u = LastChunk(from, last)
  OBVIOUS
<1>6. u \in from .. Count /\ u \in Chunks
  BY <1>1, <1>4, <1>5 DEF Chunks
<1>7. \A j \in from .. Count : j \in Chunks
  BY <1>1 DEF Chunks
<1>8. last < Offset(u + 1)
  <2>1. Offset(u + 1) = Offset(u) + size[u]
    BY <1>6, Offsets
  <2>2. CASE u = Count
    BY <2>2 DEF Total
  <2>3. CASE u # Count
    BY <1>4, <1>5, <2>1, <2>3, <1>6, Offsets
  <2> QED
    BY <2>2, <2>3
<1>9. ASSUME NEW j \in from .. Count, j < u PROVE Offset(j + 1) <= last
  <2>1. j \in Chunks /\ j \in Nat /\ u \in Nat /\ ~(u <= j)
    BY <1>1, <1>6, <1>7, <1>9
  <2>2. j \notin ends
    BY <1>4, <1>5, <2>1
  <2>3. Offset(j + 1) = Offset(j) + size[j] /\ Offset(j) \in Nat /\ size[j] \in Nat
    BY <1>1, <2>1, Offsets DEF Chunks
  <2> QED
    BY <2>2, <2>3
<1> QED
  BY <1>5, <1>6, <1>8, <1>9

-----------------------------------------------------------------------------
(* The range requests                                                      *)

(* The bytes from the one at a to the one before b.                        *)
Run(a, b) == [k \in 1 .. b - a |-> a + k - 1]

LEMMA RunType ==
    ASSUME NEW a \in Nat, NEW b \in Nat, a <= b
    PROVE  Run(a, b) \in Seq(Nat) /\ Len(Run(a, b)) = b - a
<1>1. b - a \in Nat /\ \A k \in 1 .. b - a : a + k - 1 \in Nat
  OBVIOUS
<1>2. Run(a, b) \in [1 .. b - a -> Nat]
  BY <1>1 DEF Run
<1> QED
  BY <1>1, <1>2

LEMMA RunsJoin ==
    ASSUME NEW a \in Nat, NEW b \in Nat, NEW c \in Nat, a <= b, b <= c
    PROVE  Run(a, b) \o Run(b, c) = Run(a, c)
<1>1. PICK m \in Nat, n \in Nat : m = b - a /\ n = c - b /\ m + n = c - a /\ b = a + m
  OBVIOUS
<1>2. PICK p : p = Run(a, b)
  OBVIOUS
<1>3. PICK q : q = Run(b, c)
  OBVIOUS
<1>4. PICK r : r = Run(a, c)
  OBVIOUS
<1>5. p = [k \in 1 .. m |-> a + k - 1] /\ p \in Seq(Nat) /\ Len(p) = m
  BY <1>1, <1>2, RunType DEF Run
<1>6. q = [k \in 1 .. n |-> b + k - 1] /\ q \in Seq(Nat) /\ Len(q) = n
  BY <1>1, <1>3, RunType DEF Run
<1>7. a <= c
  OBVIOUS
<1>8. r = [k \in 1 .. m + n |-> a + k - 1] /\ r \in Seq(Nat) /\ Len(r) = m + n
  BY <1>1, <1>4, <1>7, RunType DEF Run
<1>9. PICK j : j = p \o q
  OBVIOUS
<1>10. j \in Seq(Nat) /\ Len(j) = m + n
  BY <1>5, <1>6, <1>9
<1>11. ASSUME NEW k \in 1 .. m + n PROVE j[k] = r[k]
  <2>1. k \in Nat /\ r[k] = a + k - 1
    BY <1>8
  <2>2. CASE k <= m
    BY <1>5, <1>6, <1>9, <2>1, <2>2
  <2>3. CASE k > m
    <3>1. j[k] = q[k - m]
      BY <1>5, <1>6, <1>9, <2>1, <2>3
    <3>2. k - m \in 1 .. n
      BY <2>1, <2>3
    <3>3. q[k - m] = b + (k - m) - 1
      BY <1>6, <3>2
    <3> QED
      BY <1>1, <2>1, <3>1, <3>3
  <2> QED
    BY <2>1, <2>2, <2>3
<1>12. j = r
  BY <1>8, <1>10, <1>11
<1> QED
  BY <1>2, <1>3, <1>4, <1>9, <1>12

(* Where the answer is when the loop comes to chunk i: at the chunk, or in *)
(* it if it is the first.                                                  *)
Reached(q) == Max2(q.first, Offset(q.at))

StreamPcs == {"idle", "found", "reading", "done", "refused", "invalid", "unsatisfiable",
              "failed"}

StreamType == [pc : StreamPcs, header : Headers, first : Nat, last : Nat,
               at : Chunks, until : Chunks, body : Seq(Nat)]

(* While it reads, a request has answered the bytes up to the chunk it is  *)
(* at; the last byte lies in the chunk where the loop will stop and in     *)
(* none before.                                                            *)
Answering(q) ==
    /\ q.first <= q.last /\ q.last < Total
    /\ q.header = "range" \/ (q.header = "none" /\ q.first = 0 /\ q.last = Total - 1)
    /\ q.at <= q.until
    /\ q.first < Offset(q.at + 1) /\ Offset(q.at) <= q.last
    /\ q.last < Offset(q.until + 1)
    /\ \A j \in q.at .. Count : j < q.until => Offset(j + 1) <= q.last
    /\ q.body = Run(q.first, Reached(q))

Answered(q) ==
    /\ q.pc = "done" =>
         /\ q.first <= q.last /\ q.body = Run(q.first, q.last + 1)
         /\ q.header = "range" \/ (q.header = "none" /\ q.first = 0 /\ q.last = Total - 1)
    /\ q.pc = "unsatisfiable" => q.header = "range" /\ q.first > Min2(q.last, Total - 1)
    /\ q.pc = "invalid" => q.header \notin {"none", "range"}

StreamOk(q) ==
    /\ q \in StreamType
    /\ q.pc \in {"idle", "found"} => q.body = <<>>
    /\ q.pc = "reading" => Answering(q)
    /\ Answered(q)

StreamsOk ==
    /\ stream = [s \in Streams |-> stream[s]]
    /\ \A s \in Streams : \A q \in {stream[s]} : StreamOk(q)

LEMMA StreamsInit == Init => StreamsOk
<1> SUFFICES ASSUME Init PROVE StreamsOk
  OBVIOUS
<1>1. PageTypes
  BY InitInv DEF Inv
<1>2. 1 \in Chunks
  BY <1>1, Numbers DEF Chunks
<1>3. NewStream \in StreamType /\ NewStream.pc = "idle" /\ NewStream.body = <<>>
  BY <1>2 DEF NewStream, StreamType, StreamPcs, Headers
<1>4. StreamOk(NewStream)
  BY <1>3 DEF StreamOk, Answered
<1> QED
  BY <1>4 DEF Init, StreamsOk

(* What a chunk adds: the bytes that are in the range.                     *)
LEMMA PieceIsRun ==
    ASSUME PageTypes, NEW i \in Chunks, NEW first \in Nat, NEW last \in Nat,
           first <= last, first < Offset(i + 1), Offset(i) <= last
    PROVE  Piece(i, first, last) =
             Run(Max2(first, Offset(i)), Min2(Offset(i + 1), last + 1))
<1> DEFINE from == Max2(0, first - Offset(i))
           to == Min2(size[i] - 1, last - Offset(i))
           a == Max2(first, Offset(i))
           b == Min2(Offset(i + 1), last + 1)
<1>1. /\ Offset(i) \in Nat /\ size[i] \in Nat /\ Offset(i + 1) = Offset(i) + size[i]
  BY Offsets, Numbers DEF Chunks
<1>2. PICK o \in Nat, z \in Nat : o = Offset(i) /\ z = size[i] /\ Offset(i + 1) = o + z
  BY <1>1
<1>3. /\ from \in Nat /\ to \in Int
      /\ Offset(i) + from = a /\ Offset(i) + to + 1 = b
      /\ a \in Nat /\ b \in Nat /\ a <= b
  BY <1>2 DEF Max2, Min2
<1>4. CASE from <= to
  <2>1. to - from + 1 = b - a
    BY <1>2, <1>3
  <2>2. Piece(i, first, last) = [k \in 1 .. to - from + 1 |-> Offset(i) + from + k - 1]
    BY <1>4 DEF Piece
  <2>3. \A k \in 1 .. b - a : Offset(i) + from + k - 1 = a + k - 1
    BY <1>3
  <2> HIDE DEF from, to, a, b
  <2>4. Piece(i, first, last) = [k \in 1 .. b - a |-> a + k - 1]
    BY <2>1, <2>2, <2>3
  <2> QED
    BY <2>4 DEF Run, a, b
<1>5. CASE ~(from <= to)
  <2>1. b - a = 0
    BY <1>2, <1>3, <1>5
  <2>2. Piece(i, first, last) = <<>>
    BY <1>5 DEF Piece
  <2>3. Run(a, b) = <<>>
    <3> HIDE DEF a, b
    <3> QED
      BY <2>1 DEF Run
  <2> QED
    BY <2>2, <2>3
<1> QED
  BY <1>4, <1>5

(* The chunks of the file never change.                                    *)
LEMMA SameFile ==
    ASSUME PageTypes, size' = size
    PROVE  \A q : StreamOk(q)' <=> StreamOk(q)
<1>1. PICK s : s = size
  OBVIOUS
<1>2. \A i : Offset(i) = Prefix(s)[i]
  BY <1>1 DEF Offset, Prefix, Count
<1>3. \A i : Offset(i)' = Prefix(s)[i]
  BY <1>1 DEF Offset, Prefix, Count
<1>4. Count' = Count /\ Chunks' = Chunks
  BY DEF Count, Chunks
<1>5. Total' = Total
  BY <1>2, <1>3, <1>4 DEF Total
<1> QED
  BY <1>2, <1>3, <1>4, <1>5 DEF StreamOk, StreamType, Answering, Answered, Reached

LEMMA StreamStep ==
    ASSUME PageTypes, StreamsOk, size' = size, NEW s \in Streams, NEW y, StreamOk(y),
           stream' = [stream EXCEPT ![s] = y]
    PROVE  StreamsOk'
<1>1. /\ stream' = [t \in Streams |-> stream'[t]]
      /\ \A t \in Streams : stream'[t] = IF t = s THEN y ELSE stream[t]
  BY DEF StreamsOk
<1>2. ASSUME NEW t \in Streams, NEW q \in {stream'[t]} PROVE StreamOk(q)'
  <2>1. StreamOk(q)
    BY <1>1, <1>2 DEF StreamsOk
  <2> QED
    BY <2>1, SameFile
<1> QED
  BY <1>1, <1>2 DEF StreamsOk

(* The range is computed from the rows of the chunks.                      *)
LEMMA RangeOk ==
    ASSUME PageTypes, NEW s \in Streams, StreamRange(s), NEW q, q = stream[s], StreamOk(q)
    PROVE  \E y : StreamOk(y) /\ stream' = [stream EXCEPT ![s] = y]
<1> DEFINE all == q.header = "none"
           first == IF all THEN 0 ELSE q.first
           last == IF all THEN Total - 1 ELSE Min2(q.last, Total - 1)
           from == FirstChunk(first)
<1>1. q \in StreamType /\ q.pc = "found" /\ q.body = <<>>
  BY DEF StreamRange, StreamOk
<1>2. Total \in Nat /\ first \in Nat /\ last \in Int
  BY <1>1, Offsets DEF StreamType, Min2
<1>3. CASE server = "purged"
  <2>1. stream' = [stream EXCEPT ![s] = [q EXCEPT !.pc = "refused"]]
    BY <1>3 DEF StreamRange
  <2>2. StreamOk([q EXCEPT !.pc = "refused"])
    BY <1>1 DEF StreamOk, StreamType, StreamPcs, Answered
  <2> QED
    BY <2>1, <2>2
<1>4. CASE server # "purged" /\ q.header \notin {"none", "range"}
  <2>1. stream' = [stream EXCEPT ![s] = [q EXCEPT !.pc = "invalid"]]
    BY <1>4 DEF StreamRange
  <2>2. StreamOk([q EXCEPT !.pc = "invalid"])
    BY <1>1, <1>4 DEF StreamOk, StreamType, StreamPcs, Answered
  <2> QED
    BY <2>1, <2>2
<1>5. CASE server # "purged" /\ q.header = "range" /\ (first >= Total \/ first > last)
  <2>1. stream' = [stream EXCEPT ![s] = [q EXCEPT !.pc = "unsatisfiable"]]
    BY <1>5 DEF StreamRange
  <2>2. q.first > Min2(q.last, Total - 1)
    BY <1>1, <1>2, <1>5 DEF Min2, StreamType
  <2>3. StreamOk([q EXCEPT !.pc = "unsatisfiable"])
    BY <1>1, <1>5, <2>2 DEF StreamOk, StreamType, StreamPcs, Answered
  <2> QED
    BY <2>1, <2>3
<1>6. CASE /\ server # "purged" /\ q.header \in {"none", "range"}
          /\ ~(~all /\ (first >= Total \/ first > last)) /\ from = 0
  <2>1. stream' = [stream EXCEPT ![s] = [q EXCEPT !.pc = "failed"]]
    BY <1>6 DEF StreamRange
  <2>2. StreamOk([q EXCEPT !.pc = "failed"])
    BY <1>1 DEF StreamOk, StreamType, StreamPcs, Answered
  <2> QED
    BY <2>1, <2>2
<1>7. CASE /\ server # "purged" /\ q.header \in {"none", "range"}
          /\ ~(~all /\ (first >= Total \/ first > last)) /\ from # 0
  <2> DEFINE y == [q EXCEPT !.pc = "reading", !.first = first, !.last = last,
                            !.at = from, !.until = LastChunk(from, last)]
  <2>1. stream' = [stream EXCEPT ![s] = y]
    BY <1>7 DEF StreamRange
  <2>2. PICK f, l, i : f = first /\ l = last /\ i = from
    OBVIOUS
  <2>3. i \in Chunks /\ Offset(i) <= f /\ f < Offset(i + 1) /\ f \in Nat
    BY <1>2, <1>7, <2>2, FirstFound
  <2>4. i \in Nat /\ i >= 1 /\ i <= Count /\ Count \in Nat /\ Offset(i) \in Nat
    BY <2>3, Numbers, Offsets DEF Chunks
  <2>5. f <= l /\ l < Total /\ l \in Nat /\ (all => f = 0 /\ l = Total - 1)
    <3>1. CASE all
      <4>1. f = 0 /\ l = Total - 1
        BY <2>2, <3>1
      <4>2. Total > 0
        <5>1. /\ i + 1 \in 1 .. Count + 1 /\ Count + 1 \in 1 .. Count + 1
              /\ i + 1 <= Count + 1 /\ Offset(i + 1) \in Nat /\ 0 < Offset(i + 1)
          BY <2>3, <2>4, <4>1, Offsets
        <5>2. Offset(i + 1) <= Total
          BY <5>1, OffsetsGrow DEF Total
        <5> QED
          BY <1>2, <5>1, <5>2
      <4> QED
        BY <1>2, <4>1, <4>2
    <3>2. CASE ~all
      BY <1>1, <1>2, <1>7, <2>2, <3>2 DEF Min2, StreamType
    <3> QED
      BY <3>1, <3>2
  <2>6. PICK u : u = LastChunk(i, l)
    OBVIOUS
  <2>7. /\ u \in i .. Count /\ l < Offset(u + 1)
        /\ \A j \in i .. Count : j < u => Offset(j + 1) <= l
    BY <2>3, <2>5, <2>6, LastFound
  <2>8. PICK v : v = [q EXCEPT !.pc = "reading", !.first = f, !.last = l, !.at = i, !.until = u]
    OBVIOUS
  <2>9. /\ v \in StreamType /\ v.pc = "reading" /\ v.header = q.header /\ v.first = f
        /\ v.last = l /\ v.at = i /\ v.until = u /\ v.body = <<>>
    <3>1. u \in Chunks
      BY <2>4, <2>7 DEF Chunks
    <3> QED
      BY <1>1, <2>3, <2>5, <2>8, <3>1 DEF StreamType, StreamPcs
  <2>10. v.body = Run(v.first, Reached(v))
    <3>1. Reached(v) = f
      BY <2>3, <2>4, <2>9 DEF Reached, Max2
    <3> QED
      BY <2>3, <2>9, <3>1 DEF Run
  <2>11. Answering(v)
    BY <1>7, <2>3, <2>4, <2>5, <2>7, <2>9, <2>10 DEF Answering
  <2>12. StreamOk(v)
    BY <2>9, <2>11 DEF StreamOk, Answered
  <2>13. stream' = [stream EXCEPT ![s] = v]
    BY <2>1, <2>2, <2>6, <2>8
  <2> QED
    BY <2>12, <2>13
<1> QED
  BY <1>1, <1>3, <1>5, <1>6, <1>7, <1>4 DEF StreamType, Headers

(* A chunk is read and its part of the range sent.                         *)
LEMMA PieceOk ==
    ASSUME PageTypes, NEW s \in Streams, StreamPiece(s), NEW q, q = stream[s], StreamOk(q)
    PROVE  \E y : StreamOk(y) /\ stream' = [stream EXCEPT ![s] = y]
<1>1. q \in StreamType /\ q.pc = "reading" /\ Answering(q)
  BY DEF StreamPiece, StreamOk
<1>2. PICK f \in Nat, l \in Nat, i \in Chunks, u \in Chunks :
        f = q.first /\ l = q.last /\ i = q.at /\ u = q.until
  BY <1>1 DEF StreamType
<1>3. /\ i \in Nat /\ i >= 1 /\ i <= Count /\ u \in Nat /\ u <= Count /\ Count \in Nat
      /\ \A k \in 1 .. Count : k \in Chunks
  BY Numbers DEF Chunks
<1>4. PICK o \in Nat, e \in Nat : o = Offset(i) /\ e = Offset(i + 1) /\ o <= e
  <2>1. /\ Offset(i + 1) = Offset(i) + size[i]
        /\ size[i] \in Nat /\ Offset(i) \in Nat
    BY <1>3, Offsets
  <2> QED
    BY <2>1
<1>5. /\ f <= l /\ l < Total /\ Total \in Nat /\ i <= u /\ f < e /\ o <= l
      /\ l < Offset(u + 1)
      /\ \A j \in i .. Count : j < u => Offset(j + 1) <= l
      /\ q.header = "range" \/ (q.header = "none" /\ f = 0 /\ l = Total - 1)
  BY <1>1, <1>2, <1>4, Offsets DEF Answering
<1>6. q.body = Run(f, Max2(f, o))
  BY <1>1, <1>2, <1>4 DEF Answering, Reached
<1>7. Piece(i, f, l) = Run(Max2(f, o), Min2(e, l + 1))
  BY <1>2, <1>4, <1>5, PieceIsRun
<1>8. q.body \o Piece(i, f, l) = Run(f, Min2(e, l + 1))
  <2>1. PICK a, b : a = Max2(f, o) /\ b = Min2(e, l + 1)
    OBVIOUS
  <2>2. a \in Nat /\ b \in Nat /\ f <= a /\ a <= b
    BY <1>2, <1>4, <1>5, <2>1 DEF Max2, Min2
  <2>3. Run(f, a) \o Run(a, b) = Run(f, b)
    BY <1>2, <2>2, RunsJoin
  <2> QED
    BY <1>6, <1>7, <2>1, <2>3
<1>9. PICK body : body = Run(f, Min2(e, l + 1))
  OBVIOUS
<1>10. body \in Seq(Nat)
  <2>1. Min2(e, l + 1) \in Nat /\ f <= Min2(e, l + 1)
    BY <1>4, <1>5 DEF Min2
  <2> QED
    BY <1>2, <1>9, <2>1, RunType
<1>11. CASE i = u
  <2>1. PICK y : y = [q EXCEPT !.body = body, !.pc = "done"]
    OBVIOUS
  <2>2. stream' = [stream EXCEPT ![s] = y]
    <3>1. stream' = [stream EXCEPT ![s].body = q.body \o Piece(i, f, l),
                                   ![s].at = i, ![s].pc = "done"]
      BY <1>2, <1>11 DEF StreamPiece
    <3>2. q.body \o Piece(i, f, l) = body
      BY <1>8, <1>9
    <3>3. [q EXCEPT !.body = body, !.at = i, !.pc = "done"] = y
      BY <1>1, <1>2, <2>1 DEF StreamType
    <3> QED
      BY <3>1, <3>2, <3>3
  <2>3. /\ y \in StreamType /\ y.pc = "done" /\ y.body = body
        /\ y.first = f /\ y.last = l /\ y.header = q.header
    BY <1>1, <1>2, <1>10, <2>1 DEF StreamType, StreamPcs
  <2>4. body = Run(f, l + 1)
    <3>1. Min2(e, l + 1) = l + 1
      BY <1>4, <1>5, <1>11 DEF Min2
    <3> QED
      BY <1>9, <3>1
  <2>5. StreamOk(y)
    BY <1>5, <2>3, <2>4 DEF StreamOk, Answered
  <2> QED
    BY <2>2, <2>5
<1>12. CASE i # u
  <2>1. PICK y : y = [q EXCEPT !.body = body, !.at = i + 1]
    OBVIOUS
  <2>2. stream' = [stream EXCEPT ![s] = y]
    <3>1. stream' = [stream EXCEPT ![s].body = q.body \o Piece(i, f, l),
                                   ![s].at = i + 1, ![s].pc = "reading"]
      BY <1>1, <1>2, <1>12 DEF StreamPiece
    <3>2. q.body \o Piece(i, f, l) = body
      BY <1>8, <1>9
    <3>3. [q EXCEPT !.body = body, !.at = i + 1, !.pc = "reading"] = y
      BY <1>1, <2>1 DEF StreamType
    <3> QED
      BY <3>1, <3>2, <3>3
  <2>3. i + 1 \in Chunks /\ i + 1 <= u
    BY <1>3, <1>5, <1>12 DEF Chunks
  <2>4. /\ y \in StreamType /\ y.pc = "reading" /\ y.body = body /\ y.at = i + 1
        /\ y.first = f /\ y.last = l /\ y.header = q.header /\ y.until = u
    BY <1>1, <1>2, <1>10, <2>1, <2>3 DEF StreamType, StreamPcs
  <2>5. e <= l
    BY <1>3, <1>4, <1>5, <1>12
  <2>6. e <= Offset(i + 1 + 1) /\ Offset(i + 1 + 1) \in Nat
    <3>1. /\ Offset(i + 1 + 1) = Offset(i + 1) + size[i + 1]
          /\ size[i + 1] \in Nat
      BY <2>3, Offsets
    <3> QED
      BY <1>4, <3>1
  <2>7. y.body = Run(y.first, Reached(y))
    <3>1. Min2(e, l + 1) = e
      BY <1>4, <1>5, <2>5 DEF Min2
    <3>2. Reached(y) = e
      BY <1>4, <1>5, <2>4 DEF Reached, Max2
    <3> QED
      BY <1>9, <2>4, <3>1, <3>2
  <2>8. \A j \in i + 1 .. Count : j < u => Offset(j + 1) <= l
    BY <1>3, <1>5
  <2>9. Answering(y)
    BY <1>4, <1>5, <2>3, <2>4, <2>5, <2>6, <2>7, <2>8 DEF Answering
  <2>10. StreamOk(y)
    BY <2>4, <2>9 DEF StreamOk, Answered
  <2> QED
    BY <2>2, <2>10
<1> QED
  BY <1>11, <1>12

LEMMA FindOk ==
    ASSUME PageTypes, NEW s \in Streams, StreamFind(s) \/ StreamFails(s),
           NEW q, q = stream[s], StreamOk(q)
    PROVE  \E y : StreamOk(y) /\ stream' = [stream EXCEPT ![s] = y]
<1>1. q \in StreamType
  BY DEF StreamOk
<1>2. CASE StreamFind(s)
  <2>1. PICK pc \in {"found", "refused"}, header \in Headers, first, last \in 0 .. Total + 1 :
          stream' = [stream EXCEPT ![s].pc = pc, ![s].header = header,
                                   ![s].first = first, ![s].last = last]
    <3>1. PICK header \in Headers, first, last \in 0 .. Total + 1 :
            stream' = [stream EXCEPT ![s].pc = IF server = "ready" THEN "found" ELSE "refused",
                                     ![s].header = header,
                                     ![s].first = first, ![s].last = last]
      BY <1>2 DEF StreamFind
    <3> QED
      BY <3>1
  <2>2. PICK y : y = [q EXCEPT !.pc = pc, !.header = header, !.first = first, !.last = last]
    OBVIOUS
  <2>3. stream' = [stream EXCEPT ![s] = y]
    BY <2>1, <2>2
  <2>4. first \in Nat /\ last \in Nat
    BY Offsets
  <2>5. q.pc = "idle" /\ q.body = <<>>
    BY <1>2 DEF StreamFind, StreamOk
  <2>6. y \in StreamType /\ y.pc = pc /\ y.body = <<>>
    BY <1>1, <2>2, <2>4, <2>5 DEF StreamType, StreamPcs
  <2>7. StreamOk(y)
    BY <2>6 DEF StreamOk, Answered
  <2> QED
    BY <2>3, <2>7
<1>3. CASE StreamFails(s)
  <2>1. stream' = [stream EXCEPT ![s] = [q EXCEPT !.pc = "failed"]]
    BY <1>3 DEF StreamFails
  <2>2. StreamOk([q EXCEPT !.pc = "failed"])
    BY <1>1 DEF StreamOk, StreamType, StreamPcs, Answered
  <2> QED
    BY <2>1, <2>2
<1> QED
  BY <1>2, <1>3

LEMMA StreamsNext == ASSUME PageTypes, StreamsOk, [Next]_vars PROVE StreamsOk'
<1>1. CASE \E s \in Streams :
             StreamFind(s) \/ StreamRange(s) \/ StreamPiece(s) \/ StreamFails(s)
  <2>1. PICK s \in Streams :
          StreamFind(s) \/ StreamRange(s) \/ StreamPiece(s) \/ StreamFails(s)
    BY <1>1
  <2>2. size' = size
    BY <2>1 DEF StreamFind, StreamRange, StreamPiece, StreamFails, fileVars
  <2>3. PICK q : q = stream[s]
    OBVIOUS
  <2>4. StreamOk(q)
    BY <2>3 DEF StreamsOk
  <2>5. PICK y : StreamOk(y) /\ stream' = [stream EXCEPT ![s] = y]
    BY <2>1, <2>3, <2>4, RangeOk, PieceOk, FindOk
  <2> QED
    BY <2>2, <2>5, StreamStep
<1>2. CASE UNCHANGED <<size, stream>>
  <2>1. ASSUME NEW t \in Streams, NEW q \in {stream'[t]} PROVE StreamOk(q)'
    <3>1. StreamOk(q)
      BY <1>2, <2>1 DEF StreamsOk
    <3> QED
      BY <1>2, <3>1, SameFile
  <2> QED
    BY <1>2, <2>1 DEF StreamsOk
<1>3. ASSUME NEW c \in Calls, Start(c) \/ Listed(c) \/ ListFails(c)
      PROVE  UNCHANGED <<size, stream>>
  BY <1>3 DEF Start, Listed, ListFails, fileVars
<1>4. ASSUME NEW c \in Calls, NEW w \in Workers,
             Fetched(c, w) \/ TimesOut(c, w) \/ FetchFails(c, w)
      PROVE  UNCHANGED <<size, stream>>
  BY <1>4 DEF Fetched, TimesOut, FetchFails, fileVars
<1>5. ASSUME Cancel \/ DismissSoon \/ Dismiss \/ Trash \/ Restore \/ Purge
      PROVE  UNCHANGED <<size, stream>>
  BY <1>5 DEF Cancel, DismissSoon, Dismiss, Trash, Restore, Purge, fileVars
<1> QED
  BY <1>1, <1>2, <1>3, <1>4, <1>5 DEF Next, vars

(* A range request that succeeds is answered with exactly the bytes it     *)
(* asks for, for a file of any number of chunks of any sizes, empty ones   *)
(* included, and however the file is trashed and purged meanwhile; one     *)
(* with a first byte is refused as unsatisfiable only if it asks for none, *)
(* and as invalid never.                                                   *)
THEOREM StreamedExactly == Spec => []StreamsExactly
<1>1. Init => StreamsOk
  BY StreamsInit
<1>2. PageTypes /\ StreamsOk /\ [Next]_vars => StreamsOk'
  BY StreamsNext
<1>3. PageTypes /\ StreamsOk => StreamsExactly
  <2> SUFFICES ASSUME PageTypes, StreamsOk, NEW s \in Streams, NEW q, q = stream[s]
               PROVE  /\ q.pc = "done" =>
                           /\ q.body = [k \in 1 .. (q.last - q.first + 1) |-> q.first + k - 1]
                           /\ \/ q.header = "range"
                              \/ q.header = "none" /\ q.last - q.first + 1 = Total
                      /\ q.pc = "unsatisfiable" =>
                           q.header = "range" /\ q.first .. Min2(q.last, Total - 1) = {}
                      /\ q.pc = "invalid" => q.header \in {"suffix", "other"}
    BY DEF StreamsExactly
  <2>1. q \in StreamType /\ Answered(q)
    BY DEF StreamsOk, StreamOk
  <2>2. q.first \in Nat /\ q.last \in Nat /\ Total \in Nat
    BY <2>1, Offsets DEF StreamType
  <2>3. CASE q.pc = "done"
    <3>1. PICK a, b, n : a = q.first /\ b = q.last + 1 /\ n = q.last - q.first + 1
      OBVIOUS
    <3>2. q.body = [k \in 1 .. (q.last - q.first + 1) |-> q.first + k - 1]
      <4>1. b - a = n
        BY <2>2, <3>1
      <4>2. Run(a, b) = [k \in 1 .. n |-> a + k - 1]
        BY <4>1 DEF Run
      <4>3. q.body = Run(a, b)
        BY <2>1, <2>3, <3>1 DEF Answered
      <4>4. q.body = [k \in 1 .. n |-> a + k - 1]
        BY <4>2, <4>3
      <4> QED
        BY <3>1, <4>4
    <3>3. q.header = "range" \/ (q.header = "none" /\ q.last - q.first + 1 = Total)
      BY <2>1, <2>2, <2>3 DEF Answered
    <3>4. q.pc # "unsatisfiable" /\ q.pc # "invalid"
      BY <2>3
    <3> QED
      BY <3>2, <3>3, <3>4, Zenon
  <2>4. CASE q.pc = "unsatisfiable"
    BY <2>1, <2>2, <2>4 DEF Answered, Min2
  <2>5. CASE q.pc = "invalid"
    BY <2>1, <2>5 DEF Answered, StreamType, Headers
  <2> QED
    BY <2>3, <2>4, <2>5
<1> QED
  BY <1>1, <1>2, <1>3, PagesTyped, PTL DEF Spec

-----------------------------------------------------------------------------
(* SharePages                                                              *)
(*                                                                         *)
(* It streams from chunks that lie one behind the other as well: what is   *)
(* known of sums and runs of bytes serves both modules.                    *)

(* The shared folder's files and their chunks are numbered from 1.         *)
LEMMA PageSizes ==
    /\ 1 \in Files /\ Files \subseteq Nat
    /\ \A f \in Files : \E n \in Nat \ {0} : ChunksIn(f) = 1 .. n
    /\ Sizes[1] \in Seq(Nat) /\ ChunkCount \in Nat \ {0} /\ ChunksIn(1) = 1 .. ChunkCount
    /\ \A c \in 1 .. ChunkCount : Sizes[1][c] \in Nat \ {0}
<1>1. /\ Sizes \in Seq(Seq(Nat \ {0}) \ {<<>>}) /\ Sizes # <<>>
  BY SharePagesAssumption DEF SharePagesAssumption
<1>2. Len(Sizes) \in Nat \ {0} /\ Files = 1 .. Len(Sizes)
  BY <1>1 DEF Files
<1>3. 1 \in Files /\ Files \subseteq Nat
  BY <1>2
<1>4. ASSUME NEW f \in Files
      PROVE  /\ Sizes[f] \in Seq(Nat) /\ Len(Sizes[f]) \in Nat \ {0}
             /\ ChunksIn(f) = 1 .. Len(Sizes[f])
             /\ \A c \in 1 .. Len(Sizes[f]) : Sizes[f][c] \in Nat \ {0}
  <2>1. PICK z : z = Sizes[f]
    OBVIOUS
  <2>2. z \in Seq(Nat \ {0}) /\ z # <<>>
    BY <1>1, <1>2, <2>1
  <2>3. z \in Seq(Nat) /\ Len(z) \in Nat \ {0} /\ DOMAIN z = 1 .. Len(z)
        /\ \A c \in 1 .. Len(z) : z[c] \in Nat \ {0}
    BY <2>2
  <2> QED
    BY <2>1, <2>3 DEF ChunksIn
<1> QED
  BY <1>3, <1>4 DEF ChunkCount

(* The chunks of the link's file lie one behind the other.                 *)
LEMMA PageOffsets ==
    /\ ChunkOffset(1) = 0 /\ ChunkOffset(ChunkCount + 1) = TotalSize
    /\ TotalSize \in Nat /\ TotalSize > 0
    /\ \A c \in 1 .. ChunkCount : /\ Upto(c) = ChunkOffset(c + 1)
                                  /\ ChunkOffset(c) \in Nat /\ Upto(c) \in Nat
                                  /\ ChunkOffset(c) < Upto(c)
    /\ \A i \in 1 .. ChunkCount + 1 : \A j \in i .. ChunkCount + 1 : ChunkOffset(i) <= ChunkOffset(j)
<1>1. PICK z : z = Sizes[1]
  OBVIOUS
<1>2. /\ z \in Seq(Nat) /\ ChunkCount = Len(z) /\ ChunkCount \in Nat \ {0}
      /\ \A c \in 1 .. ChunkCount : z[c] \in Nat \ {0}
  BY <1>1, PageSizes DEF ChunkCount
<1>3. \A c : ChunkOffset(c) = Prefix(z)[c]
  BY <1>1 DEF ChunkOffset, Prefix, ChunkCount
<1>4. /\ ChunkOffset(1) = 0
      /\ \A c \in 1 .. ChunkCount : ChunkOffset(c + 1) = ChunkOffset(c) + z[c]
      /\ \A c \in 1 .. ChunkCount + 1 : ChunkOffset(c) \in Nat
  BY <1>2, <1>3, PrefixDef, PrefixNat
<1>5. \A c \in 1 .. ChunkCount :
         ChunkOffset(c) \in Nat /\ Upto(c) \in Nat /\ ChunkOffset(c) < Upto(c)
  BY <1>2, <1>4 DEF Upto
<1>6. ChunkOffset(ChunkCount + 1) = TotalSize /\ TotalSize \in Nat
  BY <1>2, <1>4 DEF TotalSize, Upto
<1>7. 0 < TotalSize
  <2>1. 2 \in 1 .. ChunkCount + 1 /\ ChunkCount + 1 \in 2 .. ChunkCount + 1
    BY <1>2
  <2>2. ChunkOffset(2) <= ChunkOffset(ChunkCount + 1)
    BY <1>2, <1>3, <2>1, PrefixGrows
  <2>3. ChunkOffset(1) < Upto(1) /\ Upto(1) = ChunkOffset(2)
    BY <1>2, <1>5 DEF Upto
  <2> QED
    BY <1>4, <1>6, <2>1, <2>2, <2>3
<1>8. \A i \in 1 .. ChunkCount + 1 : \A j \in i .. ChunkCount + 1 : ChunkOffset(i) <= ChunkOffset(j)
  BY <1>2, <1>3, PrefixGrows
<1> QED
  BY <1>4, <1>5, <1>6, <1>7, <1>8 DEF Upto

(* The first chunk with a byte of the range exists.                        *)
LEMMA PageFirstChunk ==
    ASSUME NEW start \in Nat, start < TotalSize
    PROVE  /\ StartChunk(start) \in 1 .. ChunkCount
           /\ ChunkOffset(StartChunk(start)) <= start /\ start < Upto(StartChunk(start))
<1> DEFINE S == {c \in 1 .. ChunkCount : start < Upto(c)}
<1>1. ChunkCount \in Nat \ {0} /\ ChunksIn(1) = 1 .. ChunkCount
  BY PageSizes
<1>2. ChunkCount \in S
  BY <1>1, PageOffsets DEF TotalSize
<1>3. PICK m \in S : \A n \in S : m <= n
  <2>1. S \in SUBSET Nat
    BY <1>1
  <2> HIDE DEF S
  <2>2. PICK T : T = S
    OBVIOUS
  <2>3. \E m \in T : \A n \in T : m <= n
    BY <1>2, <2>1, <2>2, LeastOf
  <2> QED
    BY <2>2, <2>3
<1>4. ChunkOffset(m) <= start
  <2>1. CASE m = 1
    BY <2>1, PageOffsets
  <2>2. CASE m # 1
    <3>1. m - 1 \in 1 .. ChunkCount /\ ~(m <= m - 1)
      BY <1>1, <2>2
    <3>2. m - 1 \notin S
      BY <1>3, <3>1
    <3>3. Upto(m - 1) = ChunkOffset(m - 1 + 1) /\ Upto(m - 1) \in Nat /\ m - 1 + 1 = m
      BY <3>1, PageOffsets
    <3> QED
      BY <3>1, <3>2, <3>3
  <2> QED
    BY <2>1, <2>2
<1>5. \E c \in ChunksIn(1) : ChunkOffset(c) <= start /\ start < Upto(c)
  BY <1>1, <1>3, <1>4
<1> QED
  BY <1>1, <1>5 DEF StartChunk

(* Of a request: what it holds, and where it is in the file.               *)
Phases == {"idle", "asked", "listed", "streaming", "done"}
Codes == {0, 200, 206, 404, 416, 500, 503}
Pumps == {"off", "reading", "draining", "over"}
VisitType ==
    [pc : Phases, kind : Kinds, ask : Asks, head : Codes, start : Nat, end : Nat,
     next : 1 .. ChunkCount + 1, pull : 0 .. ChunkCount, body : Bodies, queue : Seq(Seq(Nat)),
     pump : Pumps, sock : Seq(Seq(Nat)),
     got : Seq(Nat), here : BOOLEAN, late : Nat, offered : BOOLEAN, cause : BOOLEAN]

Unsent(q) ==
    /\ q.pc # "streaming" /\ q.body = "none" /\ q.pull = 0
    /\ q.queue = <<>> /\ q.sock = <<>> /\ q.got = <<>> /\ q.here /\ q.late = 0

(* One chunk waits in the body or is being read for it, one in the socket; *)
(* reading on for a visitor who has gone leads to "drain" never coming.    *)
Flowing(q) ==
    /\ q.queue # <<>> => q.body = "open" /\ q.pull = 0
    /\ Len(q.queue) <= 1 /\ Len(q.sock) <= 1
    /\ q.pump = "draining" <=> q.sock # <<>>
    /\ q.pull # 0 => q.body \in {"open", "cancelled"}
    /\ q.late <= 1
    /\ q.here \/ q.pump = "reading" => q.late = 0

(* The byte of the range where chunk c is taken up.                        *)
Edge(c, start, end) == Lower(Higher(start, ChunkOffset(c)), end + 1)
NextUp(q) == IF q.pull # 0 THEN q.pull ELSE q.next

(* What the visitor has, the socket and the body follow each other, up to  *)
(* the chunk that is read or is next.                                      *)
Follow(q, g, h, k) ==
    /\ q.start <= g /\ g <= h /\ h <= k /\ k <= q.end + 1
    /\ q.got = Run(q.start, g)
    /\ q.sock = IF g = h /\ q.sock = <<>> THEN <<>> ELSE <<Run(g, h)>>
    /\ q.queue = IF h = k /\ q.queue = <<>> THEN <<>> ELSE <<Run(h, k)>>
    /\ q.body = "open" => k = Edge(NextUp(q), q.start, q.end)
    /\ q.body = "closed" => k = q.end + 1

Sending(q) ==
    /\ q.pc = "streaming" /\ q.head \in {200, 206}
    /\ q.ask.unit # "bad" /\ Satisfiable(q.ask)
    /\ q.start = First(q.ask) /\ q.end = LastByte(q.ask)
    /\ q.start <= q.end /\ q.end < TotalSize
    /\ q.pull # 0 => q.next = q.pull + 1 /\ ChunkOffset(q.pull) <= q.end
    /\ NextUp(q) <= ChunkCount => q.start < Upto(NextUp(q))
    /\ \E g, h, k \in Nat : Follow(q, g, h, k)

Refused(q) ==
    /\ q.head = 416 =>
         q.ask.unit = "bad" \/ (q.ask.unit # "none" /\ ~Satisfiable(q.ask))
    /\ q.head \in {404, 500, 503} /\ q.offered => q.cause

VisitOk(q) ==
    /\ q \in VisitType
    /\ q.pump = "off" => Unsent(q)
    /\ q.pump # "off" => Flowing(q) /\ Sending(q)
    /\ q.pc \in {"idle", "asked", "listed"} => q.head = 0
    /\ q.head \in {200, 206} /\ q.kind \in {"media", "download"} => q.pump # "off"
    /\ Refused(q)

VisitsOk ==
    /\ visit = [s \in Visits |-> visit[s]]
    /\ \A s \in Visits : \A q \in {visit[s]} : VisitOk(q)

(* Of a response under way the rest follows.                               *)
LEMMA UnderWay ==
    ASSUME NEW q \in VisitType, q.pump # "off", Flowing(q), Sending(q)
    PROVE  VisitOk(q)
<1>1. q.pc = "streaming" /\ q.head \in {200, 206}
  BY DEF Sending
<1>2. Refused(q)
  BY <1>1 DEF Refused
<1> QED
  BY <1>1, <1>2 DEF VisitOk

LEMMA NewVisit ==
    ASSUME NEW q, q = NoVisit
    PROVE  /\ q \in VisitType /\ q.pc = "idle" /\ q.head = 0 /\ q.pump = "off" /\ Unsent(q)
<1>1. ChunkCount \in Nat /\ 1 \in 1 .. ChunkCount + 1 /\ 0 \in 0 .. ChunkCount
  BY PageSizes
<1>2. /\ [unit |-> "none", from |-> 0, to |-> 0] \in Asks /\ "page" \in Kinds
      /\ "none" \in Bodies /\ "idle" \in Phases /\ 0 \in Codes /\ "off" \in Pumps
  BY DEF Asks, Kinds, Bodies, Phases, Codes, Pumps
<1> QED
  BY <1>1, <1>2 DEF NoVisit, VisitType, Unsent

LEMMA VisitsInit == ASSUME PagesInit PROVE VisitsOk
<1>1. PICK q : q = NoVisit
  OBVIOUS
<1>2. /\ q \in VisitType /\ q.pc = "idle" /\ q.head = 0 /\ q.pump = "off" /\ Unsent(q)
  BY <1>1, NewVisit
<1>3. VisitOk(q)
  BY <1>2 DEF VisitOk, Refused
<1> QED
  BY <1>1, <1>3 DEF PagesInit, VisitsOk

LEMMA VisitStep ==
    ASSUME VisitsOk, NEW s \in Visits, NEW y, VisitOk(y),
           visit' = [visit EXCEPT ![s] = y]
    PROVE  VisitsOk'
<1>1. /\ visit' = [t \in Visits |-> visit'[t]]
      /\ \A t \in Visits : visit'[t] = IF t = s THEN y ELSE visit[t]
  BY DEF VisitsOk
<1>2. ASSUME NEW t \in Visits, NEW q \in {visit'[t]} PROVE VisitOk(q)'
  <2>1. VisitOk(q)
    BY <1>1, <1>2 DEF VisitsOk
  <2> QED
    BY <2>1
<1> QED
  BY <1>1, <1>2 DEF VisitsOk

Refusals == {404, 500, 503}

(* An answer that is all there is: a refusal, the page or the poster.      *)
LEMMA RefuseOk ==
    ASSUME NEW q, VisitOk(q), q.pump = "off", NEW code \in Refusals, ~q.offered \/ q.cause
    PROVE  VisitOk([q EXCEPT !.head = code, !.pc = "done"])
<1>1. q \in VisitType /\ Unsent(q)
  BY DEF VisitOk
<1>2. PICK y : y = [q EXCEPT !.head = code, !.pc = "done"]
  OBVIOUS
<1>3. code \in Codes /\ "done" \in Phases /\ code \notin {200, 206, 416}
  BY DEF Codes, Phases, Refusals
<1>4. y \in VisitType
  BY <1>1, <1>2, <1>3 DEF VisitType
<1>5. /\ y.pc = "done" /\ y.head = code /\ y.pump = "off" /\ y.kind = q.kind
      /\ y.offered = q.offered /\ y.cause = q.cause
      /\ y.body = q.body /\ y.pull = q.pull /\ y.queue = q.queue /\ y.sock = q.sock
      /\ y.got = q.got /\ y.here = q.here /\ y.late = q.late
  BY <1>1, <1>2 DEF VisitType
<1>6. Unsent(y)
  BY <1>1, <1>5 DEF Unsent
<1>7. VisitOk(y)
  BY <1>3, <1>4, <1>5, <1>6 DEF VisitOk, Refused
<1> QED
  BY <1>2, <1>7

LEMMA ShowOk ==
    ASSUME NEW q, VisitOk(q), q.pump = "off", q.kind \in {"page", "poster"}
    PROVE  VisitOk([q EXCEPT !.head = 200, !.pc = "done"])
<1>1. q \in VisitType /\ Unsent(q)
  BY DEF VisitOk
<1>2. PICK code : code = 200
  OBVIOUS
<1>3. PICK y : y = [q EXCEPT !.head = code, !.pc = "done"]
  OBVIOUS
<1>4. code \in Codes /\ "done" \in Phases
  BY <1>2 DEF Codes, Phases
<1>5. y \in VisitType
  BY <1>1, <1>3, <1>4 DEF VisitType
<1>6. /\ y.pc = "done" /\ y.head = code /\ y.pump = "off" /\ y.kind = q.kind
      /\ y.body = q.body /\ y.pull = q.pull /\ y.queue = q.queue /\ y.sock = q.sock
      /\ y.got = q.got /\ y.here = q.here /\ y.late = q.late
  BY <1>1, <1>3 DEF VisitType
<1>7. Unsent(y)
  BY <1>1, <1>6 DEF Unsent
<1>8. VisitOk(y)
  BY <1>2, <1>5, <1>6, <1>7 DEF VisitOk, Refused
<1> QED
  BY <1>2, <1>3, <1>8

(* The part of a chunk that is in the range goes from its edge to the next.*)
LEMMA SliceIsRun ==
    ASSUME NEW q, NEW a \in Nat, NEW b \in Nat, NEW c \in 1 .. ChunkCount,
           q.start = a, q.end = b, a <= b, a < Upto(c), ChunkOffset(c) <= b
    PROVE  /\ Slice(c, q) = Run(Edge(c, a, b), Edge(c + 1, a, b))
           /\ Edge(c, a, b) \in Nat /\ Edge(c + 1, a, b) \in Nat
           /\ a <= Edge(c, a, b) /\ Edge(c, a, b) <= Edge(c + 1, a, b)
           /\ Edge(c + 1, a, b) <= b + 1
<1>1. PICK o \in Nat, u \in Nat :
        o = ChunkOffset(c) /\ u = Upto(c) /\ u = ChunkOffset(c + 1) /\ o < u
  BY PageOffsets
<1>2. PICK e \in Nat, f \in Nat :
        e = (IF a > o THEN a ELSE o) /\ f = (IF u < b + 1 THEN u ELSE b + 1)
  BY <1>1
<1>3. Edge(c, a, b) = e /\ Edge(c + 1, a, b) = f
  <2>1. Higher(a, o) = e /\ e < b + 1
    BY <1>1, <1>2 DEF Higher
  <2>2. Edge(c, a, b) = e
    BY <1>1, <2>1 DEF Edge, Lower
  <2>3. Higher(a, u) = u
    BY <1>1 DEF Higher
  <2>4. Edge(c + 1, a, b) = f
    BY <1>1, <1>2, <2>3 DEF Edge, Lower
  <2> QED
    BY <2>2, <2>4
<1>4. Higher(a, o) = e /\ Lower(b, u - 1) = f - 1
  <2>1. Higher(a, o) = e
    BY <1>1, <1>2 DEF Higher
  <2>2. Lower(b, u - 1) = IF b < u - 1 THEN b ELSE u - 1
    BY DEF Lower
  <2>3. CASE u < b + 1
    <3>1. f - 1 = u - 1 /\ ~(b < u - 1)
      BY <1>1, <1>2, <2>3
    <3> QED
      BY <2>1, <2>2, <3>1
  <2>4. CASE ~(u < b + 1)
    <3>1. f = b + 1 /\ f - 1 = b
      BY <1>2, <2>4
    <3>2. b < u - 1 \/ b = u - 1
      BY <2>4
    <3> QED
      BY <2>1, <2>2, <3>1, <3>2
  <2> QED
    BY <2>3, <2>4
<1>5. Slice(c, q) = Bytes(e, f - 1)
  BY <1>1, <1>4 DEF Slice
<1>6. Bytes(e, f - 1) = Run(e, f)
  <2>1. f - 1 - e + 1 = f - e
    OBVIOUS
  <2> QED
    BY <2>1 DEF Bytes, Run
<1> QED
  BY <1>1, <1>2, <1>3, <1>5, <1>6

(* The stream reads on, or closes behind the last chunk of the range.      *)
LEMMA PulledOk ==
    ASSUME NEW q, VisitOk(q), q.pump # "off", q.late = 0,
           q.here \/ q.pump # "reading"
    PROVE  VisitOk(Pulled(q))
<1>1. q \in VisitType /\ Flowing(q) /\ Sending(q) /\ Refused(q)
  BY DEF VisitOk
<1>2. CASE q.body # "open" \/ q.queue # <<>> \/ q.pull # 0
  BY <1>2 DEF Pulled
<1>3. ASSUME q.body = "open", q.queue = <<>>, q.pull = 0,
             q.next > ChunkCount \/ ChunkOffset(q.next) > q.end
      PROVE  VisitOk(Pulled(q))
  <2>1. PICK y : y = [q EXCEPT !.body = "closed"]
    OBVIOUS
  <2>2. y = Pulled(q)
    BY <1>3, <2>1 DEF Pulled
  <2>3. /\ y \in VisitType /\ y.pc = q.pc /\ y.kind = q.kind /\ y.ask = q.ask
        /\ y.head = q.head /\ y.start = q.start /\ y.end = q.end /\ y.next = q.next
        /\ y.pull = q.pull /\ y.body = "closed" /\ y.queue = q.queue /\ y.pump = q.pump
        /\ y.sock = q.sock /\ y.got = q.got /\ y.here = q.here /\ y.late = q.late
        /\ y.offered = q.offered /\ y.cause = q.cause
    <3>1. "closed" \in Bodies
      BY DEF Bodies
    <3> QED
      BY <1>1, <2>1, <3>1 DEF VisitType
  <2>4. Flowing(y)
    BY <1>1, <1>3, <2>3 DEF Flowing
  <2>5. PICK g \in Nat, h \in Nat, k \in Nat : Follow(q, g, h, k)
    BY <1>1 DEF Sending
  <2>6. k = q.end + 1
    <3>1. k = Edge(q.next, q.start, q.end)
      BY <1>3, <2>5 DEF Follow, NextUp
    <3>2. PICK a \in Nat, b \in Nat, n \in 1 .. ChunkCount + 1 :
            a = q.start /\ b = q.end /\ n = q.next
      BY <1>1 DEF VisitType
    <3>3. a <= b /\ b < TotalSize /\ TotalSize \in Nat /\ ChunkCount \in Nat
      BY <1>1, <3>2, PageSizes, PageOffsets DEF Sending
    <3>4. ChunkOffset(n) \in Nat /\ ChunkOffset(n) >= b + 1
      <4>1. CASE n > ChunkCount
        <5>1. n = ChunkCount + 1
          BY <3>3, <4>1
        <5> QED
          BY <3>3, <5>1, PageOffsets
      <4>2. CASE ~(n > ChunkCount)
        <5>1. n \in 1 .. ChunkCount
          BY <3>3, <4>2
        <5>2. ChunkOffset(n) \in Nat /\ ChunkOffset(n) > b
          BY <1>3, <3>2, <4>2, <5>1, PageOffsets
        <5> QED
          BY <5>2
      <4> QED
        BY <4>1, <4>2
    <3>5. Edge(n, a, b) = b + 1
      BY <3>2, <3>3, <3>4 DEF Edge, Higher, Lower
    <3> QED
      BY <3>1, <3>2, <3>5
  <2>7. Follow(y, g, h, k)
    BY <2>3, <2>5, <2>6 DEF Follow
  <2>8. Sending(y)
    BY <1>1, <1>3, <2>3, <2>7 DEF Sending, NextUp
  <2> QED
    BY <1>1, <2>2, <2>3, <2>4, <2>8, UnderWay
<1>4. ASSUME q.body = "open", q.queue = <<>>, q.pull = 0,
             ~(q.next > ChunkCount \/ ChunkOffset(q.next) > q.end)
      PROVE  VisitOk(Pulled(q))
  <2>1. PICK late : late = IF q.here THEN q.late ELSE q.late + 1
    OBVIOUS
  <2>2. PICK y : y = [q EXCEPT !.pull = q.next, !.next = q.next + 1, !.late = late]
    OBVIOUS
  <2>3. y = Pulled(q)
    BY <1>4, <2>1, <2>2 DEF Pulled
  <2>4. /\ q.next \in 1 .. ChunkCount /\ q.next + 1 \in 1 .. ChunkCount + 1 /\ q.next \in 0 .. ChunkCount
        /\ ChunkOffset(q.next) <= q.end /\ late \in Nat /\ late <= 1
    <3>1. q.next \in 1 .. ChunkCount + 1 /\ ChunkCount \in Nat /\ q.end \in Nat /\ ~(q.next > ChunkCount)
      BY <1>1, <1>4, PageSizes DEF VisitType
    <3>2. q.next \in 1 .. ChunkCount
      BY <3>1
    <3>3. ChunkOffset(q.next) \in Nat
      BY <3>2, PageOffsets
    <3> QED
      BY <1>4, <2>1, <3>1, <3>2, <3>3
  <2>5. /\ y \in VisitType /\ y.pc = q.pc /\ y.kind = q.kind /\ y.ask = q.ask
        /\ y.head = q.head /\ y.start = q.start /\ y.end = q.end /\ y.next = q.next + 1
        /\ y.pull = q.next /\ y.body = q.body /\ y.queue = q.queue /\ y.pump = q.pump
        /\ y.sock = q.sock /\ y.got = q.got /\ y.here = q.here /\ y.late = late
        /\ y.offered = q.offered /\ y.cause = q.cause
    BY <1>1, <2>2, <2>4 DEF VisitType
  <2>6. Flowing(y)
    BY <1>1, <1>4, <2>1, <2>4, <2>5 DEF Flowing
  <2>7. PICK g \in Nat, h \in Nat, k \in Nat : Follow(q, g, h, k)
    BY <1>1 DEF Sending
  <2>8. NextUp(y) = NextUp(q) /\ NextUp(q) = q.next /\ q.next # 0
    BY <1>4, <2>4, <2>5 DEF NextUp
  <2>9. Follow(y, g, h, k)
    BY <2>5, <2>7, <2>8 DEF Follow
  <2>10. Sending(y)
    BY <1>1, <2>4, <2>5, <2>8, <2>9 DEF Sending
  <2> QED
    BY <1>1, <2>3, <2>5, <2>6, <2>10, UnderWay
<1> QED
  BY <1>2, <1>3, <1>4

(* What a Range header can say.                                            *)
LEMMA AskTypes ==
    ASSUME NEW ask \in Asks
    PROVE  /\ ask.unit \in {"none", "bad", "both", "range", "from", "suffix"}
           /\ ask.from \in Nat /\ ask.to \in Nat
<1>1. TotalSize \in Nat
  BY PageOffsets
<1>2. CASE ask \in {[unit |-> "none", from |-> 0, to |-> 0],
                    [unit |-> "bad", from |-> 0, to |-> 0],
                    [unit |-> "both", from |-> 0, to |-> 0]}
  BY <1>2
<1>3. CASE ask \in [unit : {"range"}, from : 0..TotalSize, to : 0..TotalSize]
  BY <1>1, <1>3
<1>4. CASE ask \in [unit : {"from"}, from : 0..TotalSize, to : {0}]
  BY <1>1, <1>4
<1>5. CASE ask \in [unit : {"suffix"}, from : {0}, to : 0..(TotalSize + 1)]
  BY <1>1, <1>5
<1> QED
  BY <1>2, <1>3, <1>4, <1>5 DEF Asks

(* The bytes asked for are those from the first that is sent to the last.  *)
LEMMA WantedIs ==
    ASSUME NEW ask \in Asks
    PROVE  /\ First(ask) \in Nat /\ LastByte(ask) \in Nat /\ LastByte(ask) < TotalSize
           /\ ask.unit = "none" => Satisfiable(ask)
           /\ Wanted(ask) = First(ask) .. LastByte(ask)
           /\ ~Satisfiable(ask) => Wanted(ask) = {}
<1>1. TotalSize \in Nat /\ TotalSize > 0
  BY PageOffsets
<1>2. PICK u, f, t : u = ask.unit /\ f = ask.from /\ t = ask.to /\ f \in Nat /\ t \in Nat
  BY AskTypes
<1>3. u \in {"none", "bad", "both", "range", "from", "suffix"}
  BY <1>2, AskTypes
<1>4. CASE u = "range"
  <2>1. First(ask) = f /\ LastByte(ask) = (IF t < TotalSize THEN t ELSE TotalSize - 1)
    BY <1>2, <1>4 DEF First, LastByte
  <2>2. Wanted(ask) = {p \in 0..(TotalSize - 1) : f <= p /\ p <= t}
    BY <1>2, <1>4 DEF Wanted
  <2>3. PICK l \in Nat : l = LastByte(ask) /\ l < TotalSize /\ (t < TotalSize => l = t)
                         /\ (~(t < TotalSize) => l = TotalSize - 1)
    BY <1>1, <1>2, <2>1
  <2>4. Wanted(ask) = f .. l
    BY <1>1, <1>2, <2>2, <2>3
  <2>5. ~Satisfiable(ask) => f .. l = {}
    BY <1>1, <1>2, <2>1, <2>3 DEF Satisfiable
  <2> QED
    BY <1>2, <1>4, <2>1, <2>3, <2>4, <2>5
<1>5. CASE u = "from"
  <2>1. First(ask) = f /\ LastByte(ask) = TotalSize - 1
    BY <1>2, <1>5 DEF First, LastByte
  <2>2. Wanted(ask) = {p \in 0..(TotalSize - 1) : f <= p}
    BY <1>2, <1>5 DEF Wanted
  <2>3. Wanted(ask) = f .. TotalSize - 1
    BY <1>1, <1>2, <2>2
  <2>4. ~Satisfiable(ask) => f .. TotalSize - 1 = {}
    BY <1>1, <1>2, <2>1 DEF Satisfiable
  <2> QED
    BY <1>1, <1>2, <1>5, <2>1, <2>3, <2>4
<1>6. CASE u = "suffix"
  <2>1. First(ask) = (IF t > TotalSize THEN 0 ELSE TotalSize - t) /\ LastByte(ask) = TotalSize - 1
    BY <1>2, <1>6 DEF First, LastByte
  <2>2. Wanted(ask) = {p \in 0..(TotalSize - 1) : p >= TotalSize - t}
    BY <1>2, <1>6 DEF Wanted
  <2>3. PICK a \in Nat : a = First(ask) /\ (t > TotalSize => a = 0)
                         /\ (~(t > TotalSize) => a = TotalSize - t)
    BY <1>1, <1>2, <2>1
  <2>4. Wanted(ask) = a .. TotalSize - 1
    BY <1>1, <1>2, <2>2, <2>3
  <2>5. ~Satisfiable(ask) => a .. TotalSize - 1 = {}
    BY <1>1, <1>2, <2>1, <2>3 DEF Satisfiable
  <2> QED
    BY <1>1, <1>2, <1>6, <2>1, <2>3, <2>4, <2>5
<1>7. CASE u \in {"none", "bad", "both"}
  <2>1. First(ask) = 0 /\ LastByte(ask) = TotalSize - 1
    BY <1>2, <1>7 DEF First, LastByte
  <2>2. Wanted(ask) = 0 .. TotalSize - 1
    BY <1>2, <1>7 DEF Wanted
  <2>3. Satisfiable(ask)
    BY <1>1, <1>2, <2>1 DEF Satisfiable
  <2> QED
    BY <1>1, <2>1, <2>2, <2>3
<1> QED
  BY <1>3, <1>4, <1>5, <1>6, <1>7

(* The response to a request whose file is there.                          *)
LEMMA RespondOk ==
    ASSUME NEW q, VisitOk(q), q.pc = "listed"
    PROVE  VisitOk(Respond(q))
<1>1. q \in VisitType /\ Unsent(q) /\ q.head = 0 /\ q.ask \in Asks /\ q.pump = "off"
  BY DEF VisitOk, VisitType, Sending
<1>2. CASE q.ask.unit = "bad" \/ (q.ask.unit # "none" /\ ~Satisfiable(q.ask))
  <2>1. PICK code : code = 416
    OBVIOUS
  <2>2. PICK y : y = [q EXCEPT !.head = code, !.pc = "done"]
    OBVIOUS
  <2>3. y = Respond(q)
    BY <1>2, <2>1, <2>2 DEF Respond
  <2>4. code \in Codes /\ "done" \in Phases
    BY <2>1 DEF Codes, Phases
  <2>5. /\ y \in VisitType /\ y.pc = "done" /\ y.head = code /\ y.pump = "off"
        /\ y.ask = q.ask /\ y.body = q.body /\ y.pull = q.pull /\ y.queue = q.queue
        /\ y.sock = q.sock /\ y.got = q.got /\ y.here = q.here /\ y.late = q.late
    BY <1>1, <2>2, <2>4 DEF VisitType
  <2>6. Unsent(y)
    BY <1>1, <2>5 DEF Unsent
  <2> QED
    BY <1>2, <2>1, <2>3, <2>5, <2>6 DEF VisitOk, Refused
<1>3. CASE ~(q.ask.unit = "bad" \/ (q.ask.unit # "none" /\ ~Satisfiable(q.ask)))
  <2>1. PICK a, b, code, n : /\ a = First(q.ask) /\ b = LastByte(q.ask)
                             /\ code = (IF q.ask.unit = "none" THEN 200 ELSE 206)
                             /\ n = StartChunk(a)
    OBVIOUS
  <2>2. PICK y : y = [q EXCEPT !.head = code, !.pc = "streaming", !.start = a, !.end = b,
                               !.next = n, !.body = "open", !.pump = "reading"]
    OBVIOUS
  <2>3. Respond(q) = Pulled(y)
    BY <1>3, <2>1, <2>2 DEF Respond
  <2>4. /\ a \in Nat /\ b \in Nat /\ a <= b /\ b < TotalSize /\ TotalSize \in Nat
        /\ q.ask.unit # "bad" /\ Satisfiable(q.ask)
    BY <1>1, <1>3, <2>1, WantedIs, PageOffsets DEF Satisfiable
  <2>5. /\ n \in 1 .. ChunkCount /\ ChunkOffset(n) <= a /\ a < Upto(n)
        /\ ChunkCount \in Nat /\ ChunkOffset(n) \in Nat
    <3>1. a < TotalSize
      BY <2>4
    <3>2. n \in 1 .. ChunkCount /\ ChunkOffset(n) <= a /\ a < Upto(n)
      BY <2>1, <2>4, <3>1, PageFirstChunk
    <3> QED
      BY <3>2, PageSizes, PageOffsets
  <2>6. /\ y \in VisitType /\ y.pc = "streaming" /\ y.kind = q.kind /\ y.ask = q.ask
        /\ y.head = code /\ y.start = a /\ y.end = b /\ y.next = n
        /\ y.pull = q.pull /\ y.body = "open" /\ y.queue = q.queue /\ y.pump = "reading"
        /\ y.sock = q.sock /\ y.got = q.got /\ y.here = q.here /\ y.late = q.late
        /\ y.offered = q.offered /\ y.cause = q.cause
    <3>1. /\ code \in Codes /\ "streaming" \in Phases /\ n \in 1 .. ChunkCount + 1
          /\ "open" \in Bodies /\ "reading" \in Pumps
      BY <2>1, <2>5 DEF Codes, Phases, Bodies, Pumps
    <3> QED
      BY <1>1, <2>2, <2>4, <3>1 DEF VisitType
  <2>7. Flowing(y)
    BY <1>1, <2>6 DEF Flowing, Unsent
  <2>8. NextUp(y) = n
    BY <1>1, <2>6 DEF NextUp, Unsent
  <2>9. Edge(n, a, b) = a
    <3>1. Higher(a, ChunkOffset(n)) = a
      BY <2>4, <2>5 DEF Higher
    <3>2. a < b + 1
      BY <2>4
    <3> QED
      BY <3>1, <3>2 DEF Edge, Lower
  <2>10. Run(a, a) = <<>>
    BY <2>4 DEF Run
  <2>11. Follow(y, a, a, a)
    BY <1>1, <2>4, <2>6, <2>8, <2>9, <2>10 DEF Follow, Unsent
  <2>12. Sending(y)
    BY <1>1, <2>1, <2>4, <2>5, <2>6, <2>8, <2>11 DEF Sending, Unsent
  <2>13. VisitOk(y) /\ y.late = 0 /\ y.here
    BY <1>1, <2>1, <2>6, <2>7, <2>12 DEF VisitOk, Refused, Unsent
  <2> QED
    BY <2>3, <2>6, <2>13, PulledOk
<1> QED
  BY <1>2, <1>3

(* A read of the source ends: the piece goes into the body's place.        *)
LEMMA ReadOk ==
    ASSUME NEW q, VisitOk(q), q.pull # 0
    PROVE  /\ VisitOk([q EXCEPT !.pull = 0, !.body = "errored", !.queue = <<>>])
           /\ q.body = "cancelled" => VisitOk([q EXCEPT !.pull = 0])
           /\ q.body # "cancelled" =>
                VisitOk([q EXCEPT !.pull = 0, !.queue = <<Slice(q.pull, q)>>])
<1>1. q \in VisitType /\ q.pump # "off" /\ Flowing(q) /\ Sending(q) /\ Refused(q)
  BY DEF VisitOk, Unsent
<1>2. q.queue = <<>> /\ q.body \in {"open", "cancelled"}
  BY <1>1 DEF Flowing
<1>3. PICK g \in Nat, h \in Nat, k \in Nat : Follow(q, g, h, k)
  BY <1>1 DEF Sending
<1>4. 0 \in 0 .. ChunkCount /\ ChunkCount \in Nat /\ q.pull \in 1 .. ChunkCount /\ q.next = q.pull + 1
  <2>1. ChunkCount \in Nat /\ q.pull \in 0 .. ChunkCount /\ q.next = q.pull + 1
    BY <1>1, PageSizes DEF VisitType, Sending
  <2> QED
    BY <2>1
<1>5. PICK a \in Nat, b \in Nat, p \in 1 .. ChunkCount : a = q.start /\ b = q.end /\ p = q.pull
  BY <1>1, <1>4 DEF VisitType
<1>6. /\ a <= b /\ b < TotalSize /\ TotalSize \in Nat /\ a < Upto(p) /\ ChunkOffset(p) <= b
  BY <1>1, <1>4, <1>5, PageOffsets DEF Sending, NextUp
<1>7. p + 1 <= ChunkCount => a < Upto(p + 1)
  <2> SUFFICES ASSUME p + 1 <= ChunkCount PROVE a < Upto(p + 1)
    OBVIOUS
  <2>1. p + 1 \in 1 .. ChunkCount
    BY <1>4
  <2>2. Upto(p) = ChunkOffset(p + 1) /\ Upto(p) \in Nat
    BY PageOffsets
  <2>3. ChunkOffset(p + 1) < Upto(p + 1) /\ Upto(p + 1) \in Nat
    BY <2>1, PageOffsets
  <2> QED
    BY <1>6, <2>2, <2>3
<1>8. ASSUME q.body = "cancelled" PROVE VisitOk([q EXCEPT !.pull = 0])
  <2>1. PICK y : y = [q EXCEPT !.pull = 0]
    OBVIOUS
  <2>2. /\ y \in VisitType /\ y.pc = q.pc /\ y.kind = q.kind /\ y.ask = q.ask
        /\ y.head = q.head /\ y.start = q.start /\ y.end = q.end /\ y.next = q.next
        /\ y.pull = 0 /\ y.body = q.body /\ y.queue = q.queue /\ y.pump = q.pump
        /\ y.sock = q.sock /\ y.got = q.got /\ y.here = q.here /\ y.late = q.late
        /\ y.offered = q.offered /\ y.cause = q.cause
    BY <1>1, <1>4, <2>1 DEF VisitType
  <2>3. Flowing(y)
    BY <1>1, <1>2, <2>2 DEF Flowing
  <2>4. Follow(y, g, h, k)
    BY <1>3, <1>8, <2>2 DEF Follow
  <2>5. NextUp(y) = p + 1
    BY <1>4, <1>5, <2>2 DEF NextUp
  <2>6. Sending(y)
    BY <1>1, <1>5, <1>7, <2>2, <2>4, <2>5 DEF Sending
  <2>7. VisitOk(y)
    BY <1>1, <2>2, <2>3, <2>6, UnderWay
  <2> QED
    BY <2>1, <2>7
<1>9. VisitOk([q EXCEPT !.pull = 0, !.body = "errored", !.queue = <<>>])
  <2>1. PICK y : y = [q EXCEPT !.pull = 0, !.body = "errored", !.queue = <<>>]
    OBVIOUS
  <2>2. /\ y \in VisitType /\ y.pc = q.pc /\ y.kind = q.kind /\ y.ask = q.ask
        /\ y.head = q.head /\ y.start = q.start /\ y.end = q.end /\ y.next = q.next
        /\ y.pull = 0 /\ y.body = "errored" /\ y.queue = q.queue /\ y.pump = q.pump
        /\ y.sock = q.sock /\ y.got = q.got /\ y.here = q.here /\ y.late = q.late
        /\ y.offered = q.offered /\ y.cause = q.cause
    <3>1. "errored" \in Bodies /\ <<>> \in Seq(Seq(Nat))
      BY DEF Bodies
    <3> QED
      BY <1>1, <1>2, <1>4, <2>1, <3>1 DEF VisitType
  <2>3. Flowing(y)
    BY <1>1, <1>2, <2>2 DEF Flowing
  <2>4. Follow(y, g, h, k)
    BY <1>3, <2>2 DEF Follow
  <2>5. NextUp(y) = p + 1
    BY <1>4, <1>5, <2>2 DEF NextUp
  <2>6. Sending(y)
    BY <1>1, <1>5, <1>7, <2>2, <2>4, <2>5 DEF Sending
  <2>7. VisitOk(y)
    BY <1>1, <2>2, <2>3, <2>6, UnderWay
  <2> QED
    BY <2>1, <2>7
<1>10. ASSUME q.body = "open"
       PROVE  VisitOk([q EXCEPT !.pull = 0, !.queue = <<Slice(q.pull, q)>>])
  <2>1. PICK piece : piece = Slice(q.pull, q)
    OBVIOUS
  <2>2. PICK e \in Nat, f \in Nat : e = Edge(p, a, b) /\ f = Edge(p + 1, a, b)
    BY <1>5, <1>6, SliceIsRun
  <2>3. piece = Run(e, f) /\ a <= e /\ e <= f /\ f <= b + 1
    <3>1. a <= b /\ a < Upto(p) /\ ChunkOffset(p) <= b /\ q.start = a /\ q.end = b
      BY <1>5, <1>6
    <3>2. Slice(p, q) = Run(Edge(p, a, b), Edge(p + 1, a, b))
      BY <3>1, SliceIsRun
    <3>3. a <= Edge(p, a, b) /\ Edge(p, a, b) <= Edge(p + 1, a, b)
      BY <3>1, SliceIsRun
    <3>4. Edge(p + 1, a, b) <= b + 1
      BY <3>1, SliceIsRun
    <3>5. Slice(p, q) = piece
      BY <1>5, <2>1
    <3> QED
      BY <2>2, <3>2, <3>3, <3>4, <3>5
  <2>4. piece \in Seq(Nat)
    BY <2>3, RunType
  <2>5. PICK queue : queue = <<piece>>
    OBVIOUS
  <2>6. queue \in Seq(Seq(Nat)) /\ Len(queue) = 1
    BY <2>4, <2>5
  <2>7. PICK y : y = [q EXCEPT !.pull = 0, !.queue = queue]
    OBVIOUS
  <2>8. /\ y \in VisitType /\ y.pc = q.pc /\ y.kind = q.kind /\ y.ask = q.ask
        /\ y.head = q.head /\ y.start = q.start /\ y.end = q.end /\ y.next = q.next
        /\ y.pull = 0 /\ y.body = q.body /\ y.queue = queue /\ y.pump = q.pump
        /\ y.sock = q.sock /\ y.got = q.got /\ y.here = q.here /\ y.late = q.late
        /\ y.offered = q.offered /\ y.cause = q.cause
    BY <1>1, <1>4, <2>6, <2>7 DEF VisitType
  <2>9. Flowing(y)
    <3>1. Len(y.queue) <= 1 /\ y.body = "open" /\ y.pull = 0
      <4>1. y.queue = queue /\ y.body = q.body /\ y.pull = 0
        BY <2>8
      <4>2. Len(y.queue) = 1
        BY <2>6, <4>1
      <4> QED
        BY <1>10, <4>1, <4>2
    <3>2. /\ Len(q.sock) <= 1 /\ (q.pump = "draining" <=> q.sock # <<>>) /\ q.late <= 1
          /\ q.here \/ q.pump = "reading" => q.late = 0
      BY <1>1 DEF Flowing
    <3> QED
      BY <2>8, <3>1, <3>2 DEF Flowing
  <2>10. NextUp(y) = p + 1 /\ NextUp(q) = p
    BY <1>4, <1>5, <2>8 DEF NextUp
  <2>11. k = e /\ h = k
    BY <1>2, <1>3, <1>5, <1>10, <2>2, <2>10 DEF Follow
  <2>12. Follow(y, g, h, f)
    BY <1>3, <1>5, <1>10, <2>2, <2>3, <2>5, <2>8, <2>10, <2>11 DEF Follow
  <2>13. Sending(y)
    BY <1>1, <1>5, <1>7, <2>8, <2>10, <2>12 DEF Sending
  <2>14. VisitOk(y)
    BY <1>1, <2>8, <2>9, <2>13, UnderWay
  <2> QED
    BY <2>1, <2>5, <2>7, <2>14
<1> QED
  BY <1>2, <1>8, <1>9, <1>10

(* The pump takes the piece that waits, for the visitor or the socket.     *)
LEMMA TakeOk ==
    ASSUME NEW q, VisitOk(q), q.pump = "reading", q.queue # <<>>
    PROVE  LET st == Pulled([q EXCEPT !.queue = <<>>])
               piece == Head(q.queue)
           IN  /\ st.here => VisitOk([st EXCEPT !.got = @ \o piece])
               /\ VisitOk([st EXCEPT !.sock = <<piece>>, !.pump = "draining"])
<1>1. q \in VisitType /\ Flowing(q) /\ Sending(q) /\ Refused(q)
  BY DEF VisitOk
<1>2. PICK g \in Nat, h \in Nat, k \in Nat : Follow(q, g, h, k)
  BY <1>1 DEF Sending
<1>3. q.body = "open" /\ q.pull = 0 /\ q.sock = <<>> /\ q.late = 0 /\ g = h
  <2>1. q.body = "open" /\ q.pull = 0 /\ q.sock = <<>> /\ q.late = 0
    BY <1>1 DEF Flowing
  <2>2. q.sock = IF g = h /\ q.sock = <<>> THEN <<>> ELSE <<Run(g, h)>>
    BY <1>2 DEF Follow
  <2> QED
    BY <2>1, <2>2
<1>4. PICK a \in Nat, b \in Nat : a = q.start /\ b = q.end
  BY <1>1 DEF VisitType
<1>5. /\ a <= g /\ g <= k /\ k <= b + 1 /\ q.got = Run(a, g) /\ q.queue = <<Run(g, k)>>
      /\ k = Edge(NextUp(q), a, b)
  BY <1>2, <1>3, <1>4 DEF Follow
<1>6. PICK piece : piece = Head(q.queue)
  OBVIOUS
<1>7. piece = Run(g, k) /\ piece \in Seq(Nat) /\ q.got \in Seq(Nat)
  <2>1. Run(g, k) \in Seq(Nat)
    BY <1>5, RunType
  <2> QED
    BY <1>1, <1>5, <1>6, <2>1 DEF VisitType
<1>8. PICK x : x = [q EXCEPT !.queue = <<>>]
  OBVIOUS
<1>9. /\ x \in VisitType /\ x.pc = q.pc /\ x.kind = q.kind /\ x.ask = q.ask
      /\ x.head = q.head /\ x.start = q.start /\ x.end = q.end /\ x.next = q.next
      /\ x.pull = q.pull /\ x.body = q.body /\ x.queue = <<>> /\ x.pump = q.pump
      /\ x.sock = q.sock /\ x.got = q.got /\ x.here = q.here /\ x.late = q.late
      /\ x.offered = q.offered /\ x.cause = q.cause
  <2>1. <<>> \in Seq(Seq(Nat))
    OBVIOUS
  <2> QED
    BY <1>1, <1>8, <2>1 DEF VisitType
<1>10. PICK st : st = Pulled(x)
  OBVIOUS
<1>11. st.here = q.here /\ st.got = q.got
  BY <1>3, <1>9, <1>10 DEF Pulled, VisitType
<1>12. ASSUME q.here PROVE VisitOk([st EXCEPT !.got = q.got \o piece])
  <2>1. PICK got : got = q.got \o piece
    OBVIOUS
  <2>2. got = Run(a, k) /\ got \in Seq(Nat)
    <3>1. Run(a, g) \o Run(g, k) = Run(a, k)
      BY <1>5, RunsJoin
    <3>2. a <= k
      BY <1>5
    <3> QED
      BY <1>5, <1>7, <2>1, <3>1, <3>2, RunType
  <2>3. PICK y : y = [x EXCEPT !.got = got]
    OBVIOUS
  <2>4. /\ y \in VisitType /\ y.pc = q.pc /\ y.kind = q.kind /\ y.ask = q.ask
        /\ y.head = q.head /\ y.start = q.start /\ y.end = q.end /\ y.next = q.next
        /\ y.pull = q.pull /\ y.body = q.body /\ y.queue = <<>> /\ y.pump = q.pump
        /\ y.sock = q.sock /\ y.got = got /\ y.here = q.here /\ y.late = q.late
        /\ y.offered = q.offered /\ y.cause = q.cause
    BY <1>9, <2>2, <2>3 DEF VisitType
  <2>5. Flowing(y)
    BY <1>1, <2>4 DEF Flowing
  <2>6. NextUp(y) = NextUp(q)
    BY <2>4 DEF NextUp
  <2>7. Follow(y, k, k, k)
    BY <1>3, <1>4, <1>5, <2>2, <2>4, <2>6 DEF Follow
  <2>8. Sending(y)
    BY <1>1, <2>4, <2>6, <2>7 DEF Sending
  <2>9. VisitOk(y)
    BY <1>1, <2>4, <2>5, <2>8, UnderWay
  <2>10. VisitOk(Pulled(y))
    BY <1>3, <1>12, <2>4, <2>9, PulledOk
  <2>11. Pulled(y) = [Pulled(x) EXCEPT !.got = got]
    BY <1>9, <2>3, <2>4 DEF Pulled, VisitType
  <2> QED
    BY <1>10, <2>1, <2>10, <2>11
<1>13. VisitOk([st EXCEPT !.sock = <<piece>>, !.pump = "draining"])
  <2>1. PICK sock : sock = <<piece>>
    OBVIOUS
  <2>2. sock = <<Run(g, k)>> /\ sock \in Seq(Seq(Nat)) /\ Len(sock) = 1
    BY <1>7, <2>1
  <2>3. PICK y : y = [x EXCEPT !.sock = sock, !.pump = "draining"]
    OBVIOUS
  <2>4. /\ y \in VisitType /\ y.pc = q.pc /\ y.kind = q.kind /\ y.ask = q.ask
        /\ y.head = q.head /\ y.start = q.start /\ y.end = q.end /\ y.next = q.next
        /\ y.pull = q.pull /\ y.body = q.body /\ y.queue = <<>> /\ y.pump = "draining"
        /\ y.sock = sock /\ y.got = q.got /\ y.here = q.here /\ y.late = q.late
        /\ y.offered = q.offered /\ y.cause = q.cause
    <3>1. "draining" \in Pumps
      BY DEF Pumps
    <3> QED
      BY <1>9, <2>2, <2>3, <3>1 DEF VisitType
  <2>5. Flowing(y)
    BY <1>1, <1>3, <2>2, <2>4 DEF Flowing
  <2>6. NextUp(y) = NextUp(q)
    BY <2>4 DEF NextUp
  <2>7. Follow(y, g, k, k)
    BY <1>3, <1>4, <1>5, <2>2, <2>4, <2>6 DEF Follow
  <2>8. Sending(y)
    BY <1>1, <2>4, <2>6, <2>7 DEF Sending
  <2>9. VisitOk(y)
    BY <1>1, <2>4, <2>5, <2>8, UnderWay
  <2>10. VisitOk(Pulled(y))
    BY <1>3, <2>4, <2>9, PulledOk
  <2>11. Pulled(y) = [Pulled(x) EXCEPT !.sock = sock, !.pump = "draining"]
    BY <1>9, <2>3, <2>4 DEF Pulled, VisitType
  <2> QED
    BY <1>10, <2>1, <2>10, <2>11
<1> QED
  BY <1>6, <1>8, <1>10, <1>11, <1>12, <1>13

(* The visitor has emptied the socket.                                     *)
LEMMA DrainOk ==
    ASSUME NEW q, VisitOk(q), q.pump = "draining", q.here
    PROVE  VisitOk([q EXCEPT !.got = q.got \o Head(q.sock), !.sock = <<>>, !.pump = "reading"])
<1>1. q \in VisitType /\ Flowing(q) /\ Sending(q) /\ Refused(q)
  BY DEF VisitOk
<1>2. PICK g \in Nat, h \in Nat, k \in Nat : Follow(q, g, h, k)
  BY <1>1 DEF Sending
<1>3. PICK a \in Nat : a = q.start
  BY <1>1 DEF VisitType
<1>4. q.sock # <<>> /\ q.late = 0
  BY <1>1 DEF Flowing
<1>5. a <= g /\ g <= h /\ h <= k /\ q.got = Run(a, g) /\ q.sock = <<Run(g, h)>>
  BY <1>2, <1>3, <1>4 DEF Follow
<1>6. PICK got : got = q.got \o Head(q.sock)
  OBVIOUS
<1>7. got = Run(a, h) /\ got \in Seq(Nat)
  <2>1. Run(a, g) \o Run(g, h) = Run(a, h)
    BY <1>5, RunsJoin
  <2>2. Head(q.sock) = Run(g, h)
    BY <1>5
  <2>3. a <= h
    BY <1>5
  <2> QED
    BY <1>5, <1>6, <2>1, <2>2, <2>3, RunType
<1>8. PICK y : y = [q EXCEPT !.got = got, !.sock = <<>>, !.pump = "reading"]
  OBVIOUS
<1>9. /\ y \in VisitType /\ y.pc = q.pc /\ y.kind = q.kind /\ y.ask = q.ask
      /\ y.head = q.head /\ y.start = q.start /\ y.end = q.end /\ y.next = q.next
      /\ y.pull = q.pull /\ y.body = q.body /\ y.queue = q.queue /\ y.pump = "reading"
      /\ y.sock = <<>> /\ y.got = got /\ y.here = q.here /\ y.late = q.late
      /\ y.offered = q.offered /\ y.cause = q.cause
  <2>1. "reading" \in Pumps /\ <<>> \in Seq(Seq(Nat))
    BY DEF Pumps
  <2> QED
    BY <1>1, <1>7, <1>8, <2>1 DEF VisitType
<1>10. Flowing(y)
  <2>1. Len(y.sock) <= 1
    BY <1>9
  <2>2. /\ q.queue # <<>> => q.body = "open" /\ q.pull = 0
        /\ q.pull # 0 => q.body \in {"open", "cancelled"}
        /\ Len(q.queue) <= 1
    BY <1>1 DEF Flowing
  <2>3. 0 <= 1
    OBVIOUS
  <2> QED
    BY <1>4, <1>9, <2>1, <2>2, <2>3 DEF Flowing
<1>11. NextUp(y) = NextUp(q)
  BY <1>9 DEF NextUp
<1>12. Follow(y, h, h, k)
  <2>1. /\ q.queue = IF h = k /\ q.queue = <<>> THEN <<>> ELSE <<Run(h, k)>>
        /\ q.body = "open" => k = Edge(NextUp(q), q.start, q.end)
        /\ q.body = "closed" => k = q.end + 1
        /\ k <= q.end + 1
    BY <1>2 DEF Follow
  <2>2. q.start <= h /\ h <= h /\ h <= k /\ y.got = Run(y.start, h)
    BY <1>3, <1>5, <1>7, <1>9
  <2> QED
    BY <1>9, <1>11, <2>1, <2>2 DEF Follow
<1>13. Sending(y)
  BY <1>1, <1>9, <1>11, <1>12 DEF Sending
<1>14. VisitOk(y)
  BY <1>1, <1>9, <1>10, <1>13, UnderWay
<1> QED
  BY <1>6, <1>8, <1>14

(* The visitor goes, and the pump is waiting for him or not.               *)
LEMMA HangUpOk ==
    ASSUME NEW q, VisitOk(q), q.pc = "streaming", q.here, NEW st,
           st = [q EXCEPT !.here = FALSE]
    PROVE  VisitOk(IF st.pump = "draining" THEN Cancelled(st) ELSE st)
<1>1. /\ q \in VisitType /\ Flowing(q) /\ Sending(q) /\ Refused(q) /\ q.pump # "off"
  BY DEF VisitOk, Unsent
<1>2. PICK g \in Nat, h \in Nat, k \in Nat : Follow(q, g, h, k)
  BY <1>1 DEF Sending
<1>3. q.late = 0
  BY <1>1 DEF Flowing
<1>4. /\ st \in VisitType /\ st.pc = q.pc /\ st.kind = q.kind /\ st.ask = q.ask
      /\ st.head = q.head /\ st.start = q.start /\ st.end = q.end /\ st.next = q.next
      /\ st.pull = q.pull /\ st.body = q.body /\ st.queue = q.queue /\ st.pump = q.pump
      /\ st.sock = q.sock /\ st.got = q.got /\ st.here = FALSE /\ st.late = q.late
      /\ st.offered = q.offered /\ st.cause = q.cause
  BY <1>1 DEF VisitType
<1>5. CASE st.pump # "draining"
  <2>1. Flowing(st)
    BY <1>1, <1>3, <1>4 DEF Flowing
  <2>2. NextUp(st) = NextUp(q)
    BY <1>4 DEF NextUp
  <2>3. Follow(st, g, h, k)
    BY <1>2, <1>4, <2>2 DEF Follow
  <2>4. Sending(st)
    BY <1>1, <1>4, <2>2, <2>3 DEF Sending
  <2> QED
    <3>1. st.pump # "off"
      BY <1>1, <1>4
    <3>2. VisitOk(st)
      BY <1>4, <2>1, <2>4, <3>1, UnderWay
    <3> QED
      BY <1>5, <3>2
<1>6. CASE st.pump = "draining"
  <2>1. PICK y : y = Cancelled(st)
    OBVIOUS
  <2>2. /\ y \in VisitType /\ y.pc = q.pc /\ y.kind = q.kind /\ y.ask = q.ask
        /\ y.head = q.head /\ y.start = q.start /\ y.end = q.end /\ y.next = q.next
        /\ y.pull = q.pull /\ y.body = "cancelled" /\ y.queue = <<>> /\ y.pump = "over"
        /\ y.sock = <<>> /\ y.got = q.got /\ y.here = FALSE /\ y.late = q.late
        /\ y.offered = q.offered /\ y.cause = q.cause
    <3>1. "over" \in Pumps /\ "cancelled" \in Bodies /\ <<>> \in Seq(Seq(Nat))
      BY DEF Pumps, Bodies
    <3> QED
      BY <1>4, <2>1, <3>1 DEF VisitType, Cancelled
  <2>3. Flowing(y)
    <3>1. Len(y.sock) <= 1 /\ Len(y.queue) <= 1 /\ y.late <= 1
      BY <1>3, <2>2
    <3> QED
      BY <1>3, <2>2, <3>1 DEF Flowing
  <2>4. NextUp(y) = NextUp(q)
    BY <2>2 DEF NextUp
  <2>5. q.start <= g /\ g <= q.end + 1 /\ q.got = Run(q.start, g)
    <3>1. PICK b \in Nat : b = q.end
      BY <1>1 DEF VisitType
    <3>2. q.start <= g /\ g <= h /\ h <= k /\ k <= b + 1 /\ q.got = Run(q.start, g)
      BY <1>2, <3>1 DEF Follow
    <3> QED
      BY <3>1, <3>2
  <2>6. g <= g
    OBVIOUS
  <2>7. Follow(y, g, g, g)
    BY <2>2, <2>5, <2>6 DEF Follow
  <2>8. Sending(y)
    BY <1>1, <2>2, <2>4, <2>7 DEF Sending
  <2>9. VisitOk(y)
    BY <1>1, <2>2, <2>3, <2>8, UnderWay
  <2> QED
    BY <1>6, <2>1, <2>9
<1> QED
  BY <1>5, <1>6

LEMMA EndOk ==
    ASSUME NEW q, VisitOk(q), q.pump = "reading"
    PROVE  VisitOk([q EXCEPT !.pump = "over"])
<1>1. q \in VisitType /\ Flowing(q) /\ Sending(q) /\ Refused(q)
  BY DEF VisitOk
<1>2. PICK g \in Nat, h \in Nat, k \in Nat : Follow(q, g, h, k)
  BY <1>1 DEF Sending
<1>3. PICK y : y = [q EXCEPT !.pump = "over"]
  OBVIOUS
<1>4. /\ y \in VisitType /\ y.pc = q.pc /\ y.kind = q.kind /\ y.ask = q.ask
      /\ y.head = q.head /\ y.start = q.start /\ y.end = q.end /\ y.next = q.next
      /\ y.pull = q.pull /\ y.body = q.body /\ y.queue = q.queue /\ y.pump = "over"
      /\ y.sock = q.sock /\ y.got = q.got /\ y.here = q.here /\ y.late = q.late
      /\ y.offered = q.offered /\ y.cause = q.cause
  <2>1. "over" \in Pumps
    BY DEF Pumps
  <2> QED
    BY <1>1, <1>3, <2>1 DEF VisitType
<1>5. Flowing(y)
  BY <1>1, <1>4 DEF Flowing
<1>6. NextUp(y) = NextUp(q)
  BY <1>4 DEF NextUp
<1>7. Follow(y, g, h, k)
  BY <1>2, <1>4, <1>6 DEF Follow
<1>8. Sending(y)
  BY <1>1, <1>4, <1>6, <1>7 DEF Sending
<1>9. VisitOk(y)
  BY <1>1, <1>4, <1>5, <1>8, UnderWay
<1> QED
  BY <1>3, <1>9

(* A request comes in; its record says what the share was like.            *)
LEMMA ResolveOk ==
    ASSUME NEW s \in Visits, Resolve(s)
    PROVE  \E y : VisitOk(y) /\ visit' = [visit EXCEPT ![s] = y]
<1>1. PICK kind \in Kinds, ask \in Asks :
        LET st == [NoVisit EXCEPT !.kind = kind, !.ask = ask,
                                  !.offered = kind \in Offers, !.cause = ~FileLink]
        IN CASE ~FileLink \/ ~Granted(kind) -> Answer(s, st, 404)
             [] FileLink /\ Granted(kind) /\ kind = "page" -> Answer(s, st, 200)
             [] OTHER -> visit' = [visit EXCEPT ![s] = [st EXCEPT !.pc = "asked"]]
  BY DEF Resolve
<1>2. PICK offered, cause : offered = (kind \in Offers) /\ cause = (~FileLink)
  OBVIOUS
<1>3. PICK q : q = [NoVisit EXCEPT !.kind = kind, !.ask = ask,
                                   !.offered = offered, !.cause = cause]
  OBVIOUS
<1>4. offered \in BOOLEAN /\ cause \in BOOLEAN
  BY <1>2 DEF FileLink
<1>5. /\ ChunkCount \in Nat /\ 1 \in 1 .. ChunkCount + 1 /\ 0 \in 0 .. ChunkCount
      /\ "none" \in Bodies /\ "idle" \in Phases /\ 0 \in Codes /\ "off" \in Pumps
      /\ "asked" \in Phases
  BY PageSizes DEF Bodies, Phases, Codes, Pumps
<1>6. /\ q \in VisitType /\ q.pc = "idle" /\ q.kind = kind /\ q.ask = ask /\ q.head = 0
      /\ q.pump = "off" /\ q.offered = offered /\ q.cause = cause /\ Unsent(q)
  <2>1. PICK n : n = NoVisit
    OBVIOUS
  <2>2. /\ n \in VisitType /\ n.pc = "idle" /\ n.head = 0 /\ n.pump = "off" /\ Unsent(n)
    BY <2>1, NewVisit
  <2>3. /\ q \in VisitType /\ q.pc = n.pc /\ q.kind = kind /\ q.ask = ask /\ q.head = n.head
        /\ q.pump = n.pump /\ q.offered = offered /\ q.cause = cause
        /\ q.body = n.body /\ q.pull = n.pull /\ q.queue = n.queue /\ q.sock = n.sock
        /\ q.got = n.got /\ q.here = n.here /\ q.late = n.late
    BY <1>3, <1>4, <2>1, <2>2 DEF VisitType
  <2>4. Unsent(q)
    BY <2>2, <2>3 DEF Unsent
  <2> QED
    BY <2>2, <2>3, <2>4
<1>7. VisitOk(q)
  BY <1>6 DEF VisitOk, Refused
<1>8. CASE ~FileLink \/ ~Granted(kind)
  <2>1. visit' = [visit EXCEPT ![s] = [q EXCEPT !.head = 404, !.pc = "done"]]
    BY <1>1, <1>2, <1>3, <1>8 DEF Answer
  <2>2. offered => cause
    BY <1>2, <1>8 DEF Offers, Granted, Kinds
  <2>3. PICK code \in Refusals : code = 404
    BY DEF Refusals
  <2>4. VisitOk([q EXCEPT !.head = code, !.pc = "done"])
    BY <1>6, <1>7, <2>2, RefuseOk
  <2> QED
    BY <2>1, <2>3, <2>4
<1>9. CASE FileLink /\ Granted(kind) /\ kind = "page"
  <2>1. visit' = [visit EXCEPT ![s] = [q EXCEPT !.head = 200, !.pc = "done"]]
    BY <1>1, <1>2, <1>3, <1>9 DEF Answer
  <2>2. VisitOk([q EXCEPT !.head = 200, !.pc = "done"])
    BY <1>6, <1>7, <1>9, ShowOk
  <2> QED
    BY <2>1, <2>2
<1>10. CASE FileLink /\ Granted(kind) /\ kind # "page"
  <2>1. visit' = [visit EXCEPT ![s] = [q EXCEPT !.pc = "asked"]]
    BY <1>1, <1>2, <1>3, <1>10
  <2>2. PICK y : y = [q EXCEPT !.pc = "asked"]
    OBVIOUS
  <2>3. /\ y \in VisitType /\ y.pc = "asked" /\ y.head = q.head /\ y.pump = q.pump
        /\ y.body = q.body /\ y.pull = q.pull /\ y.queue = q.queue /\ y.sock = q.sock
        /\ y.got = q.got /\ y.here = q.here /\ y.late = q.late
    BY <1>5, <1>6, <2>2 DEF VisitType
  <2>4. Unsent(y)
    BY <1>6, <2>3 DEF Unsent
  <2>5. VisitOk(y)
    BY <1>6, <2>3, <2>4 DEF VisitOk, Refused
  <2> QED
    BY <2>1, <2>2, <2>5
<1> QED
  BY <1>8, <1>9, <1>10

(* What went wrong is noted in the record.                                 *)
LEMMA CauseOk ==
    ASSUME NEW q, VisitOk(q), q.pump = "off", NEW y, y = [q EXCEPT !.cause = TRUE]
    PROVE  VisitOk(y) /\ y.cause /\ y.pump = "off"
<1>1. q \in VisitType /\ Unsent(q)
  BY DEF VisitOk
<1>2. /\ y \in VisitType /\ y.pc = q.pc /\ y.kind = q.kind /\ y.ask = q.ask
      /\ y.head = q.head /\ y.pump = q.pump /\ y.cause
      /\ y.body = q.body /\ y.pull = q.pull /\ y.queue = q.queue /\ y.sock = q.sock
      /\ y.got = q.got /\ y.here = q.here /\ y.late = q.late
  BY <1>1 DEF VisitType
<1>3. Unsent(y)
  BY <1>1, <1>2 DEF Unsent
<1>4. Refused(y)
  BY <1>2 DEF VisitOk, Refused
<1> QED
  BY <1>2, <1>3, <1>4 DEF VisitOk

LEMMA ListOk ==
    ASSUME NEW s \in Visits, List(s),
           NEW q, q = visit[s], VisitOk(q)
    PROVE  \E y : VisitOk(y) /\ visit' = [visit EXCEPT ![s] = y]
<1>1. q \in VisitType /\ q.pc = "asked" /\ q.head = 0 /\ q.pump = "off" /\ Unsent(q)
  BY DEF List, VisitOk, Sending
<1>2. CASE 1 \in rows
  <2>1. PICK y : y = [q EXCEPT !.pc = "listed"]
    OBVIOUS
  <2>2. visit' = [visit EXCEPT ![s] = y]
    BY <1>2, <2>1 DEF List
  <2>3. /\ y \in VisitType /\ y.pc = "listed" /\ y.head = q.head /\ y.pump = q.pump
        /\ y.body = q.body /\ y.pull = q.pull /\ y.queue = q.queue /\ y.sock = q.sock
        /\ y.got = q.got /\ y.here = q.here /\ y.late = q.late
    <3>1. "listed" \in Phases
      BY DEF Phases
    <3> QED
      BY <1>1, <2>1, <3>1 DEF VisitType
  <2>4. Unsent(y)
    BY <1>1, <2>3 DEF Unsent
  <2>5. VisitOk(y)
    BY <1>1, <2>3, <2>4 DEF VisitOk, Refused
  <2> QED
    BY <2>2, <2>5
<1>3. CASE 1 \notin rows
  <2>1. PICK code, y : /\ code = (IF q.kind = "poster" THEN 404 ELSE 500)
                       /\ y = [q EXCEPT !.cause = TRUE]
    OBVIOUS
  <2>2. visit' = [visit EXCEPT ![s] = [y EXCEPT !.head = code, !.pc = "done"]]
    BY <1>3, <2>1 DEF List, Answer
  <2>3. code \in Refusals
    BY <2>1 DEF Refusals
  <2>4. VisitOk(y) /\ y.cause /\ y.pump = "off"
    BY <1>1, <2>1, CauseOk
  <2>5. VisitOk([y EXCEPT !.head = code, !.pc = "done"])
    BY <2>3, <2>4, RefuseOk
  <2> QED
    BY <2>2, <2>5
<1> QED
  BY <1>2, <1>3

LEMMA ProbedOk ==
    ASSUME NEW s \in Visits, Probed(s),
           NEW q, q = visit[s], VisitOk(q)
    PROVE  \E y : VisitOk(y) /\ visit' = [visit EXCEPT ![s] = y]
<1>1. q \in VisitType /\ q.pc = "listed" /\ q.head = 0 /\ q.pump = "off" /\ Unsent(q)
  BY DEF Probed, VisitOk, Sending
<1>2. PICK blob : blob = IF q.kind = "poster" THEN Poster ELSE <<1, 1>>
  OBVIOUS
<1>3. CASE ~Readable(blob)
  <2>1. PICK code, y : code = (IF outage THEN 503 ELSE 500) /\ y = [q EXCEPT !.cause = TRUE]
    OBVIOUS
  <2>2. visit' = [visit EXCEPT ![s] = [y EXCEPT !.head = code, !.pc = "done"]]
    BY <1>2, <1>3, <2>1 DEF Probed, Answer
  <2>3. code \in Refusals
    BY <2>1 DEF Refusals
  <2>4. VisitOk(y) /\ y.cause /\ y.pump = "off"
    BY <1>1, <2>1, CauseOk
  <2>5. VisitOk([y EXCEPT !.head = code, !.pc = "done"])
    BY <2>3, <2>4, RefuseOk
  <2> QED
    BY <2>2, <2>5
<1>4. CASE Readable(blob) /\ q.kind = "poster"
  <2>1. visit' = [visit EXCEPT ![s] = [q EXCEPT !.head = 200, !.pc = "done"]]
    BY <1>2, <1>4 DEF Probed, Answer
  <2>2. VisitOk([q EXCEPT !.head = 200, !.pc = "done"])
    BY <1>1, <1>4, ShowOk
  <2> QED
    BY <2>1, <2>2
<1>5. CASE Readable(blob) /\ q.kind # "poster"
  <2>1. visit' = [visit EXCEPT ![s] = Respond(q)]
    BY <1>2, <1>5 DEF Probed
  <2>2. VisitOk(Respond(q))
    BY <1>1, RespondOk
  <2> QED
    BY <2>1, <2>2
<1> QED
  BY <1>3, <1>4, <1>5

LEMMA PumpOk ==
    ASSUME NEW s \in Visits, NEW q, q = visit[s], VisitOk(q),
           Pump(s) \/ Drain(s) \/ HangUp(s)
    PROVE  \E y : VisitOk(y) /\ visit' = [visit EXCEPT ![s] = y]
<1>1. q \in VisitType
  BY DEF VisitOk
<1>2. CASE PullEnds(s)
  <2>1. q.pull # 0
    BY <1>2 DEF PullEnds
  <2>2. CASE q.body = "cancelled"
    BY <1>2, <2>1, <2>2, ReadOk DEF PullEnds
  <2>3. CASE q.body # "cancelled" /\ Readable(<<1, q.pull>>)
    <3>1. [[q EXCEPT !.pull = 0] EXCEPT !.queue = <<Slice(q.pull, q)>>]
            = [q EXCEPT !.pull = 0, !.queue = <<Slice(q.pull, q)>>]
      BY <1>1 DEF VisitType
    <3>2. visit' = [visit EXCEPT ![s] =
                      [[q EXCEPT !.pull = 0] EXCEPT !.queue = <<Slice(q.pull, q)>>]]
      BY <1>2, <2>3 DEF PullEnds
    <3> QED
      BY <2>1, <2>3, <3>1, <3>2, ReadOk
  <2>4. CASE q.body # "cancelled" /\ ~Readable(<<1, q.pull>>)
    <3>1. [[q EXCEPT !.pull = 0] EXCEPT !.body = "errored", !.queue = <<>>]
            = [q EXCEPT !.pull = 0, !.body = "errored", !.queue = <<>>]
      BY <1>1 DEF VisitType
    <3>2. visit' = [visit EXCEPT ![s] =
                      [[q EXCEPT !.pull = 0] EXCEPT !.body = "errored", !.queue = <<>>]]
      BY <1>2, <2>4 DEF PullEnds
    <3> QED
      BY <2>1, <3>1, <3>2, ReadOk
  <2> QED
    BY <2>2, <2>3, <2>4
<1>3. CASE PumpTakes(s)
  <2>1. PICK st, piece : st = Pulled([q EXCEPT !.queue = <<>>]) /\ piece = Head(q.queue)
    OBVIOUS
  <2>2. /\ q.pump = "reading" /\ q.queue # <<>>
        /\ \/ st.here /\ visit' = [visit EXCEPT ![s] = [st EXCEPT !.got = @ \o piece]]
           \/ visit' = [visit EXCEPT ![s] =
                           [st EXCEPT !.sock = <<piece>>, !.pump = "draining"]]
    BY <1>3, <2>1 DEF PumpTakes
  <2>3. /\ st.here => VisitOk([st EXCEPT !.got = @ \o piece])
        /\ VisitOk([st EXCEPT !.sock = <<piece>>, !.pump = "draining"])
    BY <2>1, <2>2, TakeOk
  <2> QED
    BY <2>2, <2>3
<1>4. CASE PumpEnds(s)
  <2>1. q.pump = "reading" /\ visit' = [visit EXCEPT ![s] = [q EXCEPT !.pump = "over"]]
    BY <1>4 DEF PumpEnds
  <2> QED
    BY <2>1, EndOk
<1>5. CASE Drain(s)
  <2>1. q.pump = "draining" /\ q.here
    BY <1>5 DEF Drain
  <2>2. PICK y : y = [q EXCEPT !.got = q.got \o Head(q.sock), !.sock = <<>>,
                               !.pump = "reading"]
    OBVIOUS
  <2>3. visit' = [visit EXCEPT ![s] = y]
    BY <1>1, <1>5, <2>2 DEF Drain, VisitType
  <2> QED
    BY <2>1, <2>2, <2>3, DrainOk
<1>6. CASE HangUp(s)
  <2>1. PICK st : st = [q EXCEPT !.here = FALSE]
    OBVIOUS
  <2>2. /\ q.pc = "streaming" /\ q.here
        /\ visit' = [visit EXCEPT ![s] = IF st.pump = "draining" THEN Cancelled(st) ELSE st]
    BY <1>6, <2>1 DEF HangUp
  <2>3. VisitOk(IF st.pump = "draining" THEN Cancelled(st) ELSE st)
    BY <2>1, <2>2, HangUpOk
  <2> QED
    BY <2>2, <2>3
<1> QED
  BY <1>2, <1>3, <1>4, <1>5, <1>6 DEF Pump

LEMMA VisitsNext ==
    ASSUME VisitsOk, [PagesNext]_pagesVars
    PROVE  VisitsOk'
<1>1. CASE \E s \in Visits : Serve(s) \/ Pump(s) \/ Drain(s) \/ HangUp(s)
  <2>1. PICK s \in Visits : Serve(s) \/ Pump(s) \/ Drain(s) \/ HangUp(s)
    BY <1>1
  <2>2. PICK q : q = visit[s]
    OBVIOUS
  <2>3. VisitOk(q)
    BY <2>2 DEF VisitsOk
  <2>4. PICK y : VisitOk(y) /\ visit' = [visit EXCEPT ![s] = y]
    BY <2>1, <2>2, <2>3, ResolveOk, ListOk, ProbedOk, PumpOk DEF Serve
  <2> QED
    BY <2>4, VisitStep
<1>2. CASE visit' = visit
  BY <1>2 DEF VisitsOk
<1>3. CASE ShareDies \/ Outage \/ (\E f \in Files : TrashFile(f) \/ PurgeRows(f))
           \/ (\E c \in AllChunks : LoseCopy(c))
  <2>1. visit' = visit
    BY <1>3 DEF ShareDies, Outage, TrashFile, PurgeRows, LoseCopy
  <2> QED
    BY <1>2, <2>1
<1>4. CASE \E t \in Tabs : Visit(t) \/ Arrived(t) \/ FetchRefused(t) \/ Save(t)
  <2>1. visit' = visit
    BY <1>4 DEF Visit, Arrived, FetchRefused, Save
  <2> QED
    BY <1>2, <2>1
<1>5. CASE pagesVars' = pagesVars
  <2>1. visit' = visit
    BY <1>5 DEF pagesVars
  <2> QED
    BY <1>2, <2>1
<1> QED
  BY <1>1, <1>3, <1>4, <1>5 DEF PagesNext

LEMMA VisitsAlways == PagesSpec => []VisitsOk
<1>1. PagesInit => VisitsOk
  BY VisitsInit
<1>2. VisitsOk /\ [PagesNext]_pagesVars => VisitsOk'
  BY VisitsNext
<1> QED
  BY <1>1, <1>2, PTL DEF PagesSpec

(* However slow the visitor, a response holds no more than two chunks: one *)
(* in the body, or being read for it, and one in the socket; and for a     *)
(* visitor who has gone at most one more read begins.                      *)
THEOREM ReadsAreBounded == PagesSpec => []ReadsBounded
<1>1. VisitsOk => ReadsBounded
  <2> SUFFICES ASSUME VisitsOk, NEW s \in Visits, NEW q, q = visit[s]
               PROVE  /\ Len(q.queue) + (IF q.pull = 0 THEN 0 ELSE 1) + Len(q.sock) <= 2
                      /\ q.late <= 1
    BY DEF ReadsBounded
  <2>1. VisitOk(q) /\ q \in VisitType
    BY DEF VisitsOk, VisitOk
  <2>2. PICK m \in Nat, n \in Nat : m = Len(q.queue) /\ n = Len(q.sock)
    <3>1. q.queue \in Seq(Seq(Nat)) /\ q.sock \in Seq(Seq(Nat))
      BY <2>1 DEF VisitType
    <3>2. Len(q.queue) \in Nat /\ Len(q.sock) \in Nat
      BY <3>1
    <3> QED
      BY <3>2
  <2>3. m <= 1 /\ n <= 1 /\ (m = 0 \/ q.pull = 0) /\ q.late <= 1
    <3>1. CASE q.pump = "off"
      BY <2>1, <2>2, <3>1 DEF VisitOk, Unsent
    <3>2. CASE q.pump # "off"
      <4>1. Flowing(q)
        BY <2>1, <3>2 DEF VisitOk
      <4> QED
        BY <2>1, <2>2, <4>1 DEF Flowing
    <3> QED
      BY <3>1, <3>2
  <2>4. PICK r \in {0, 1} : r = (IF q.pull = 0 THEN 0 ELSE 1)
    OBVIOUS
  <2>5. m + r + n <= 2
    BY <2>3, <2>4
  <2> QED
    BY <2>2, <2>3, <2>4, <2>5
<1> QED
  BY <1>1, VisitsAlways, PTL

(* Of a request, with w the bytes it asks for: AnswersMatchRequest.        *)
Fits(q, w) ==
    /\ q.head \in {200, 206} /\ q.kind \in {"media", "download"} =>
         /\ w # {} /\ Len(q.got) <= Cardinality(w)
         /\ \A i \in DOMAIN q.got :
               q.got[i] = First(q.ask) + i - 1 /\ q.got[i] \in w
         /\ q.pump = "over" /\ q.body = "closed" => Len(q.got) = Cardinality(w)
    /\ q.head = 416 => q.ask.unit = "bad" \/ w = {}
    /\ q.head \in {404, 500, 503} /\ q.offered => q.cause

LEMMA AnswerFits ==
    ASSUME NEW q, VisitOk(q), NEW w, w = Wanted(q.ask)
    PROVE  Fits(q, w)
<1>1. q \in VisitType /\ q.ask \in Asks
  BY DEF VisitOk, VisitType
<1>2. /\ q.head = 416 => q.ask.unit = "bad" \/ w = {}
      /\ q.head \in {404, 500, 503} /\ q.offered => q.cause
  BY <1>1, WantedIs DEF VisitOk, Refused
<1>3. ASSUME q.head \in {200, 206}, q.kind \in {"media", "download"}
      PROVE  /\ w # {} /\ Len(q.got) <= Cardinality(w)
             /\ \A i \in DOMAIN q.got :
                   q.got[i] = First(q.ask) + i - 1 /\ q.got[i] \in w
             /\ q.pump = "over" /\ q.body = "closed" => Len(q.got) = Cardinality(w)
  <2>1. Flowing(q) /\ Sending(q)
    BY <1>3 DEF VisitOk
  <2>2. PICK a \in Nat, b \in Nat : a = q.start /\ b = q.end
    BY <1>1 DEF VisitType
  <2>3. PICK g \in Nat, h \in Nat, k \in Nat : Follow(q, g, h, k)
    BY <2>1 DEF Sending
  <2>4. /\ a = First(q.ask) /\ b = LastByte(q.ask) /\ a <= b
    BY <2>1, <2>2 DEF Sending
  <2>5. w = a .. b
    BY <1>1, <2>4, WantedIs
  <2>6. Cardinality(w) = b - a + 1
    <3>1. Cardinality(a .. b) = b - a + 1
      BY <2>4, FS_Interval
    <3> QED
      BY <2>5, <3>1
  <2>7. a <= g /\ g <= h /\ h <= k /\ k <= b + 1 /\ q.got = Run(a, g)
    BY <2>2, <2>3 DEF Follow
  <2>8. Len(q.got) = g - a /\ DOMAIN q.got = 1 .. g - a
    BY <2>7, RunType DEF Run
  <2>9. ASSUME NEW i \in DOMAIN q.got
        PROVE  q.got[i] = First(q.ask) + i - 1 /\ q.got[i] \in w
    <3>1. i \in 1 .. g - a /\ q.got[i] = a + i - 1
      BY <2>7, <2>8 DEF Run
    <3>2. a + i - 1 \in a .. b
      BY <2>7, <3>1
    <3> QED
      BY <2>4, <2>5, <3>1, <3>2
  <2>10. ASSUME q.pump = "over", q.body = "closed" PROVE Len(q.got) = Cardinality(w)
    <3>1. q.sock = <<>> /\ q.queue = <<>>
      BY <2>1, <2>10 DEF Flowing
    <3>2. /\ q.sock = IF g = h /\ q.sock = <<>> THEN <<>> ELSE <<Run(g, h)>>
          /\ q.queue = IF h = k /\ q.queue = <<>> THEN <<>> ELSE <<Run(h, k)>>
          /\ k = b + 1
      BY <2>2, <2>3, <2>10 DEF Follow
    <3>3. g = h /\ h = k
      BY <3>1, <3>2
    <3> QED
      BY <2>6, <2>8, <3>2, <3>3
  <2>11. w # {}
    BY <2>4, <2>5
  <2>12. Len(q.got) <= Cardinality(w)
    BY <2>6, <2>7, <2>8
  <2> QED
    BY <2>9, <2>10, <2>11, <2>12
<1> QED
  BY <1>2, <1>3 DEF Fits

(* Whatever the sizes of the chunks and the range, the bytes that arrive   *)
(* are those asked for, in order, and all of them when the response ends   *)
(* as complete; a range is refused only if it selects nothing, an offered  *)
(* link only for a cause that came up later.                               *)
THEOREM AnswersAreRight == PagesSpec => []AnswersMatchRequest
<1>1. VisitsOk => AnswersMatchRequest
  <2>1. ASSUME VisitsOk, NEW s \in Visits PROVE Fits(visit[s], Wanted(visit[s].ask))
    <3>1. VisitOk(visit[s])
      BY <2>1 DEF VisitsOk
    <3>2. PICK q, w : q = visit[s] /\ w = Wanted(q.ask)
      OBVIOUS
    <3> QED
      BY <3>1, <3>2, AnswerFits
  <2> QED
    BY <2>1 DEF Fits, AnswersMatchRequest
<1> QED
  BY <1>1, VisitsAlways, PTL

(* The chunks of f that have come make up the first part of its entry, or  *)
(* for the owner's zip any part.                                           *)
Part(f, come) == [c \in come |-> <<f, c>>]
Parts == UNION {{Part(f, come) : come \in SUBSET ChunksIn(f)} : f \in Files}
Entries == {ChunksOf(f) : f \in Files}

States == {"idle", "fetching", "saved", "failed"}
TabType == [pc : States, job : Jobs, listed : SUBSET Files, left : SUBSET Files,
            come : SUBSET Nat, file : Parts, saved : SUBSET Entries]

Coming(tb, f) ==
    /\ tb.come \subseteq ChunksIn(f) /\ tb.come # ChunksIn(f)
    /\ tb.file = Part(f, tb.come)
    /\ tb.job # "zip" => \E n \in Nat : tb.come = 1 .. n

Whole(files) == {ChunksOf(f) : f \in files}

(* What has been put together is whole, and but for the owner's zip it is  *)
(* all that has been dealt with.                                           *)
TabOk(tb) ==
    /\ tb \in TabType /\ tb.left \subseteq tb.listed
    /\ tb.pc = "fetching" =>
         /\ tb.left # {} => Coming(tb, Least(tb.left))
         /\ tb.saved \subseteq Whole(tb.listed \ tb.left)
         /\ tb.job # "zip" => tb.saved = Whole(tb.listed \ tb.left)
    /\ tb.pc = "saved" =>
         /\ tb.saved \subseteq Whole(tb.listed)
         /\ tb.job # "zip" => tb.saved = Whole(tb.listed)

TabsOk ==
    /\ rows \subseteq Files
    /\ tab = [t \in Tabs |-> tab[t]]
    /\ \A t \in Tabs : \A tb \in {tab[t]} : TabOk(tb)

(* There is a least one in any set of files or of chunks.                  *)
LEMMA LeastIn ==
    ASSUME NEW S \in SUBSET Nat, S # {}
    PROVE  Least(S) \in S /\ \A m \in S : Least(S) <= m
<1>1. \E n \in S : \A m \in S : n <= m
  BY LeastOf
<1> QED
  BY <1>1 DEF Least

LEMMA NewTab ==
    ASSUME NEW tb, tb = NoTab
    PROVE  tb \in TabType /\ tb.pc = "idle" /\ tb.left = {} /\ tb.saved = {}
           /\ tb.come = {} /\ tb.file = <<>>
<1>1. 1 \in Files /\ {} \in SUBSET ChunksIn(1)
  BY PageSizes
<1>2. <<>> = Part(1, {})
  BY DEF Part
<1>3. <<>> \in Parts
  BY <1>1, <1>2 DEF Parts
<1>4. "idle" \in States /\ "download" \in Jobs
  BY DEF States, Jobs
<1> QED
  BY <1>3, <1>4 DEF NoTab, TabType

LEMMA TabsInit == ASSUME PagesInit PROVE TabsOk
<1>1. PICK tb : tb = NoTab
  OBVIOUS
<1>2. TabOk(tb)
  BY <1>1, NewTab DEF TabOk
<1> QED
  BY <1>1, <1>2 DEF PagesInit, TabsOk

LEMMA TabStep ==
    ASSUME TabsOk, rows' = rows, NEW t \in Tabs, NEW y, TabOk(y), tab' = [tab EXCEPT ![t] = y]
    PROVE  TabsOk'
<1>1. /\ tab' = [u \in Tabs |-> tab'[u]]
      /\ \A u \in Tabs : tab'[u] = IF u = t THEN y ELSE tab[u]
  BY DEF TabsOk
<1>2. ASSUME NEW u \in Tabs, NEW tb \in {tab'[u]} PROVE TabOk(tb)'
  <2>1. TabOk(tb)
    BY <1>1, <1>2 DEF TabsOk
  <2> QED
    BY <2>1
<1> QED
  BY <1>1, <1>2 DEF TabsOk

(* The next file starts with nothing.                                      *)
LEMMA ComingStarts ==
    ASSUME NEW tb, tb.come = {}, tb.file = <<>>, NEW f \in Files
    PROVE  Coming(tb, f)
<1>1. PICK n \in Nat \ {0} : ChunksIn(f) = 1 .. n
  BY PageSizes
<1>2. 1 \in ChunksIn(f) /\ {} = 1 .. 0
  BY <1>1
<1>3. <<>> = Part(f, {})
  BY DEF Part
<1> QED
  BY <1>2, <1>3 DEF Coming

LEMMA VisitOfTab ==
    ASSUME TabsOk, NEW t \in Tabs, Visit(t)
    PROVE  \E y : TabOk(y) /\ tab' = [tab EXCEPT ![t] = y]
<1>1. PICK job \in Jobs :
        tab' = [tab EXCEPT ![t] =
                 IF LinkLets(job)
                 THEN [NoTab EXCEPT !.job = job, !.pc = "fetching",
                                    !.listed = Agenda(job), !.left = Agenda(job)]
                 ELSE [NoTab EXCEPT !.job = job, !.pc = "failed"]]
  BY DEF Visit
<1>2. PICK n : n = NoTab
  OBVIOUS
<1>3. n \in TabType /\ n.left = {} /\ n.saved = {} /\ n.come = {} /\ n.file = <<>>
  BY <1>2, NewTab
<1>4. CASE LinkLets(job)
  <2>1. PICK files : files = Agenda(job)
    OBVIOUS
  <2>2. files \subseteq Files
    BY <2>1, PageSizes DEF Agenda, TabsOk
  <2>3. PICK y : y = [n EXCEPT !.job = job, !.pc = "fetching", !.listed = files, !.left = files]
    OBVIOUS
  <2>4. /\ y \in TabType /\ y.pc = "fetching" /\ y.listed = files /\ y.left = files
        /\ y.come = {} /\ y.file = <<>> /\ y.saved = {}
    <3>1. "fetching" \in States
      BY DEF States
    <3> QED
      BY <1>3, <2>2, <2>3, <3>1 DEF TabType
  <2>5. files # {} => Coming(y, Least(files))
    BY <2>2, <2>4, PageSizes, LeastIn, ComingStarts
  <2>6. Whole(files \ files) = {}
    BY DEF Whole
  <2>7. TabOk(y)
    BY <2>4, <2>5, <2>6 DEF TabOk
  <2> QED
    BY <1>1, <1>2, <1>4, <2>1, <2>3, <2>7
<1>5. CASE ~LinkLets(job)
  <2>1. PICK y : y = [n EXCEPT !.job = job, !.pc = "failed"]
    OBVIOUS
  <2>2. /\ y \in TabType /\ y.pc = "failed" /\ y.left = {}
    <3>1. "failed" \in States
      BY DEF States
    <3> QED
      BY <1>3, <2>1, <3>1 DEF TabType
  <2>3. TabOk(y)
    BY <2>2 DEF TabOk
  <2> QED
    BY <1>1, <1>2, <1>5, <2>1, <2>3
<1> QED
  BY <1>4, <1>5

(* Another file is done with; it has been put together, unless it is one   *)
(* that the owner's zip leaves out.                                        *)
LEMMA FinishedOk ==
    ASSUME NEW tb, TabOk(tb), tb.pc = "fetching", NEW f \in tb.left,
           NEW entries, entries = {ChunksOf(f)} \/ (tb.job = "zip" /\ entries = {})
    PROVE  TabOk(Finished(tb, f, entries))
<1>1. tb \in TabType /\ tb.left \subseteq tb.listed
  BY DEF TabOk
<1>2. PICK listed, left, old : listed = tb.listed /\ left = tb.left /\ old = tb.saved
  OBVIOUS
<1>3. listed \subseteq Files /\ left \subseteq listed /\ f \in left /\ old \subseteq Entries
  BY <1>1, <1>2 DEF TabType
<1>4. /\ old \subseteq Whole(listed \ left)
      /\ tb.job # "zip" => old = Whole(listed \ left)
  BY <1>2 DEF TabOk
<1>5. PICK rest, saved : rest = left \ {f} /\ saved = old \cup entries
  OBVIOUS
<1>6. entries \subseteq Entries /\ saved \subseteq Entries /\ rest \subseteq Files
  BY <1>3, <1>5 DEF Entries
<1>7. PICK y : y = [tb EXCEPT !.left = rest, !.come = {}, !.file = <<>>, !.saved = saved]
  OBVIOUS
<1>8. y = Finished(tb, f, entries)
  BY <1>1, <1>2, <1>5, <1>7 DEF Finished, TabType
<1>9. <<>> \in Parts
  BY NewTab DEF TabType
<1>10. /\ y \in TabType /\ y.pc = "fetching" /\ y.job = tb.job /\ y.listed = listed
       /\ y.left = rest /\ y.come = {} /\ y.file = <<>> /\ y.saved = saved
  BY <1>1, <1>2, <1>6, <1>7, <1>9 DEF TabType
<1>11. rest # {} => Coming(y, Least(rest))
  BY <1>6, <1>10, PageSizes, LeastIn, ComingStarts
<1>12. Whole(listed \ rest) = Whole(listed \ left) \cup {ChunksOf(f)}
  BY <1>3, <1>5 DEF Whole
<1>13. /\ saved \subseteq Whole(listed \ rest)
       /\ tb.job # "zip" => saved = Whole(listed \ rest)
  BY <1>4, <1>5, <1>12
<1>14. TabOk(y)
  BY <1>3, <1>5, <1>10, <1>11, <1>13 DEF TabOk
<1> QED
  BY <1>8, <1>14

(* A chunk that was waited for is added to what has come of the file.      *)
(* Sequences are their elements.                                           *)
LEMMA RowIsSeq ==
    ASSUME NEW S, NEW m \in Nat, NEW r \in [1 .. m -> S]
    PROVE  r \in Seq(S) /\ Len(r) = m
  OBVIOUS

LEMMA Appending ==
    ASSUME NEW S, NEW p \in Seq(S), NEW n \in Nat, Len(p) = n, NEW x \in S
    PROVE  /\ Append(p, x) \in Seq(S) /\ Len(Append(p, x)) = n + 1
           /\ \A i \in 1 .. n + 1 : Append(p, x)[i] = IF i = n + 1 THEN x ELSE p[i]
  OBVIOUS

LEMMA SameElements ==
    ASSUME NEW S, NEW p \in Seq(S), NEW q \in Seq(S), Len(p) = Len(q),
           \A i \in 1 .. Len(p) : p[i] = q[i]
    PROVE  p = q
  OBVIOUS

(* Chunk k of file f belongs behind, or for the owner's zip among, those   *)
(* that have come.                                                         *)
Adds(tb, f, k) ==
    /\ k \in ChunksIn(f) /\ Buffered(tb, <<f, k>>) = Part(f, tb.come \cup {k})
    /\ tb.job # "zip" => \E n \in Nat : tb.come \cup {k} = 1 .. n

LEMMA BufferedIs ==
    ASSUME NEW t \in Tabs, NEW tb, tb = tab[t], NEW f \in Files,
           f = Least(tb.left), Coming(tb, f), NEW k \in Awaited(t)
    PROVE  Adds(tb, f, k)
<1> PICK more, c : more = tb.come \cup {k} /\ c = <<f, k>>
  OBVIOUS
<1>1. PICK missing : missing = ChunksIn(f) \ tb.come
  OBVIOUS
<1>2. PICK m \in Nat \ {0} : ChunksIn(f) = 1 .. m
  BY PageSizes
<1>3. missing # {} /\ missing \in SUBSET Nat /\ tb.come \subseteq ChunksIn(f)
  <2>1. tb.come \subseteq ChunksIn(f) /\ tb.come # ChunksIn(f)
    BY DEF Coming
  <2>2. missing \in SUBSET Nat
    BY <1>1, <1>2
  <2> QED
    BY <1>1, <2>1, <2>2
<1>4. k \in IF tb.job = "zip" THEN missing ELSE {Least(missing)}
  BY <1>1, <1>3 DEF Awaited
<1>5. k \in missing /\ (tb.job # "zip" => \A i \in missing : k <= i)
  <2>1. Least(missing) \in missing /\ \A i \in missing : Least(missing) <= i
    BY <1>3, LeastIn
  <2> QED
    BY <1>4, <2>1
<1>6. PICK come, file : come = tb.come /\ file = tb.file /\ file = Part(f, come)
  BY DEF Coming
<1>7. CASE tb.job = "zip"
  <2>1. DOMAIN file = come /\ \A i \in come : file[i] = <<f, i>>
    BY <1>6 DEF Part
  <2>2. c[2] = k
    OBVIOUS
  <2>3. Buffered(tb, c) = [i \in come \cup {k} |-> IF i = k THEN c ELSE file[i]]
    BY <1>6, <1>7, <2>1, <2>2 DEF Buffered
  <2>4. \A i \in come \cup {k} : (IF i = k THEN c ELSE file[i]) = <<f, i>>
    BY <2>1
  <2>5. Buffered(tb, c) = Part(f, more)
    BY <1>6, <2>3, <2>4 DEF Part
  <2> QED
    BY <1>1, <1>5, <1>7, <2>5 DEF Adds
<1>8. CASE tb.job # "zip"
  <2>1. PICK n \in Nat : come = 1 .. n
    BY <1>6, <1>8 DEF Coming
  <2>2. k = n + 1
    <3>1. k \in 1 .. m /\ k \notin 1 .. n
      BY <1>1, <1>2, <1>5, <1>6, <2>1
    <3>2. n + 1 \in 1 .. m /\ n + 1 \notin 1 .. n
      BY <2>1, <3>1
    <3>3. n + 1 \in missing
      BY <1>1, <1>2, <1>6, <2>1, <3>2
    <3>4. k <= n + 1
      BY <1>5, <1>8, <3>3
    <3> QED
      BY <3>1, <3>4
  <2>3. come \cup {k} = 1 .. n + 1
    BY <2>1, <2>2
  <2>4. Buffered(tb, c) = Append(file, c)
    BY <1>6, <1>8 DEF Buffered
  <2>5. file = [i \in 1 .. n |-> <<f, i>>]
    BY <1>6, <2>1 DEF Part
  <2>6. Append(file, c) = [i \in 1 .. n + 1 |-> <<f, i>>]
    <3>1. PICK T, m1 : T = {f} \X Nat /\ m1 = n + 1
      OBVIOUS
    <3>2. PICK r : r = [i \in 1 .. m1 |-> <<f, i>>]
      OBVIOUS
    <3>3. m1 \in Nat /\ \A i \in 1 .. m1 : i \in Nat
      BY <2>1, <3>1
    <3>4. r \in [1 .. m1 -> T] /\ file \in [1 .. n -> T] /\ c \in T
      <4>1. \A i \in Nat : <<f, i>> \in T
        BY <3>1
      <4>2. k \in Nat
        BY <2>1, <2>2
      <4> QED
        BY <2>5, <3>2, <3>3, <4>1, <4>2
    <3>5. r \in Seq(T) /\ Len(r) = m1
      BY <3>3, <3>4, RowIsSeq
    <3>6. file \in Seq(T) /\ Len(file) = n
      BY <2>1, <3>4, RowIsSeq
    <3>7. PICK longer : longer = Append(file, c)
      OBVIOUS
    <3>8. longer \in Seq(T) /\ Len(longer) = m1
      <4>1. longer \in Seq(T) /\ Len(longer) = n + 1
        BY <3>4, <3>6, <3>7, Appending
      <4> QED
        BY <3>1, <4>1
    <3>9. \A i \in 1 .. n + 1 : longer[i] = IF i = n + 1 THEN c ELSE file[i]
      BY <3>4, <3>6, <3>7, Appending
    <3>10. ASSUME NEW i \in 1 .. m1 PROVE longer[i] = r[i]
      <4>1. CASE i = n + 1
        BY <2>2, <3>1, <3>2, <3>9, <4>1
      <4>2. CASE i # n + 1
        <5>1. i \in 1 .. n
          BY <3>1, <4>2
        <5> QED
          BY <2>5, <3>1, <3>2, <3>9, <4>2, <5>1
      <4> QED
        BY <4>1, <4>2
    <3>11. longer = r
      BY <3>5, <3>8, <3>10, SameElements
    <3> QED
      BY <3>1, <3>2, <3>7, <3>11
  <2>7. Buffered(tb, c) = Part(f, more)
    BY <1>6, <2>3, <2>4, <2>6 DEF Part
  <2>8. n + 1 \in Nat
    BY <2>1
  <2>9. \E i \in Nat : more = 1 .. i
    BY <1>6, <2>3, <2>8
  <2>10. k \in ChunksIn(f)
    BY <1>1, <1>5
  <2> QED
    BY <2>7, <2>9, <2>10 DEF Adds
<1> QED
  BY <1>7, <1>8

LEMMA FetchedOk ==
    ASSUME TabsOk, NEW t \in Tabs, Arrived(t)
    PROVE  \E y : TabOk(y) /\ tab' = [tab EXCEPT ![t] = y]
<1>1. PICK tb : tb = tab[t]
  OBVIOUS
<1>2. TabOk(tb) /\ tb \in TabType /\ tb.pc = "fetching" /\ tb.left # {}
      /\ tb.left \subseteq tb.listed /\ tb.left \subseteq Files
  BY <1>1 DEF TabsOk, TabOk, TabType, Arrived
<1>3. PICK f : f = Least(tb.left)
  OBVIOUS
<1>4. f \in tb.left /\ f \in Files /\ Coming(tb, f)
  <2>1. tb.left \in SUBSET Nat
    BY <1>2, PageSizes
  <2>2. f \in tb.left
    BY <1>2, <1>3, <2>1, LeastIn
  <2> QED
    BY <1>2, <1>3, <2>2 DEF TabOk
<1>5. PICK k \in Awaited(t) :
        LET come == tb.come \cup {k}
            file == Buffered(tb, <<f, k>>)
        IN tab' = [tab EXCEPT ![t] = IF come = ChunksIn(f) THEN Finished(tb, f, {file})
                                     ELSE [tb EXCEPT !.come = come, !.file = file]]
  BY <1>1, <1>3 DEF Arrived
<1>6. PICK come, file : come = tb.come \cup {k} /\ file = Buffered(tb, <<f, k>>)
  OBVIOUS
<1>7. /\ come \subseteq ChunksIn(f) /\ file = Part(f, come)
      /\ tb.job # "zip" => \E n \in Nat : come = 1 .. n
  <2>1. /\ k \in ChunksIn(f) /\ file = Part(f, come)
        /\ tb.job # "zip" => \E n \in Nat : come = 1 .. n
    <3>1. Coming(tb, f) /\ f \in Files
      BY <1>4
    <3>2. Adds(tb, f, k)
      BY <1>1, <1>3, <3>1, BufferedIs
    <3> QED
      BY <1>6, <3>2 DEF Adds
  <2>2. tb.come \subseteq ChunksIn(f)
    BY <1>4 DEF Coming
  <2>3. come \subseteq ChunksIn(f)
    BY <1>6, <2>1, <2>2
  <2> QED
    BY <2>1, <2>3
<1>8. CASE come = ChunksIn(f)
  <2>1. tab' = [tab EXCEPT ![t] = Finished(tb, f, {file})]
    BY <1>5, <1>6, <1>8
  <2>2. file = ChunksOf(f)
    BY <1>7, <1>8 DEF Part, ChunksOf
  <2>3. TabOk(Finished(tb, f, {file}))
    BY <1>2, <1>4, <2>2, FinishedOk
  <2> QED
    BY <2>1, <2>3
<1>9. CASE come # ChunksIn(f)
  <2>1. PICK y : y = [tb EXCEPT !.come = come, !.file = file]
    OBVIOUS
  <2>2. tab' = [tab EXCEPT ![t] = y]
    BY <1>5, <1>6, <1>9, <2>1
  <2>3. come \in SUBSET Nat /\ file \in Parts
    BY <1>4, <1>7, PageSizes DEF Parts
  <2>4. /\ y \in TabType /\ y.pc = tb.pc /\ y.job = tb.job /\ y.listed = tb.listed
        /\ y.left = tb.left /\ y.come = come /\ y.file = file /\ y.saved = tb.saved
    BY <1>2, <2>1, <2>3 DEF TabType
  <2>5. Coming(y, f)
    BY <1>7, <1>9, <2>4 DEF Coming
  <2>6. TabOk(y)
    BY <1>2, <1>3, <2>4, <2>5 DEF TabOk
  <2> QED
    BY <2>2, <2>6
<1> QED
  BY <1>8, <1>9

LEMMA RefusedOk ==
    ASSUME TabsOk, NEW t \in Tabs, FetchRefused(t) \/ Save(t)
    PROVE  \E y : TabOk(y) /\ tab' = [tab EXCEPT ![t] = y]
<1>1. PICK tb : tb = tab[t]
  OBVIOUS
<1>2. TabOk(tb) /\ tb \in TabType /\ tb.pc = "fetching" /\ tb.left \subseteq Files
      /\ tb.left \subseteq tb.listed
  BY <1>1 DEF TabsOk, TabOk, TabType, FetchRefused, Save
<1>3. "failed" \in States /\ "saved" \in States
  BY DEF States
<1>4. TabOk([tb EXCEPT !.pc = "failed"])
  <2>1. PICK y : y = [tb EXCEPT !.pc = "failed"]
    OBVIOUS
  <2>2. y \in TabType /\ y.pc = "failed" /\ y.left = tb.left /\ y.listed = tb.listed
    BY <1>2, <1>3, <2>1 DEF TabType
  <2> QED
    BY <1>2, <2>1, <2>2 DEF TabOk
<1>5. CASE FetchRefused(t) /\ tb.job = "zip"
  <2>1. PICK f : f = Least(tb.left)
    OBVIOUS
  <2>2. tab' = [tab EXCEPT ![t] = Finished(tb, f, {})]
    BY <1>1, <1>5, <2>1 DEF FetchRefused
  <2>3. f \in tb.left
    <3>1. tb.left \in SUBSET Nat /\ tb.left # {}
      BY <1>1, <1>2, <1>5, PageSizes DEF FetchRefused
    <3> QED
      BY <2>1, <3>1, LeastIn
  <2>4. TabOk(Finished(tb, f, {}))
    BY <1>2, <1>5, <2>3, FinishedOk
  <2> QED
    BY <2>2, <2>4
<1>6. CASE FetchRefused(t) /\ tb.job # "zip"
  <2>1. tab' = [tab EXCEPT ![t] = [tb EXCEPT !.pc = "failed"]]
    BY <1>1, <1>6 DEF FetchRefused
  <2> QED
    BY <1>4, <2>1
<1>7. CASE Save(t)
  <2>1. CASE tb.saved = {}
    <3>1. tab' = [tab EXCEPT ![t] = [tb EXCEPT !.pc = "failed"]]
      BY <1>1, <1>7, <2>1 DEF Save
    <3> QED
      BY <1>4, <3>1
  <2>2. CASE tb.saved # {}
    <3>1. PICK y : y = [tb EXCEPT !.pc = "saved"]
      OBVIOUS
    <3>2. tab' = [tab EXCEPT ![t] = y]
      BY <1>1, <1>7, <2>2, <3>1 DEF Save
    <3>3. /\ y \in TabType /\ y.pc = "saved" /\ y.job = tb.job /\ y.listed = tb.listed
          /\ y.left = tb.left /\ y.saved = tb.saved
      BY <1>2, <1>3, <3>1 DEF TabType
    <3>4. tb.listed \ tb.left = tb.listed
      BY <1>1, <1>7 DEF Save
    <3>5. /\ tb.saved \subseteq Whole(tb.listed)
          /\ tb.job # "zip" => tb.saved = Whole(tb.listed)
      BY <1>2, <3>4 DEF TabOk
    <3>6. TabOk(y)
      BY <1>2, <3>3, <3>5 DEF TabOk
    <3> QED
      BY <3>2, <3>6
  <2> QED
    BY <2>1, <2>2
<1> QED
  BY <1>5, <1>6, <1>7

LEMMA TabsNext ==
    ASSUME TabsOk, [PagesNext]_pagesVars
    PROVE  TabsOk'
<1>1. CASE \E t \in Tabs : Visit(t) \/ Arrived(t) \/ FetchRefused(t) \/ Save(t)
  <2>1. PICK t \in Tabs : Visit(t) \/ Arrived(t) \/ FetchRefused(t) \/ Save(t)
    BY <1>1
  <2>2. rows' = rows
    BY <2>1 DEF Visit, Arrived, FetchRefused, Save, world
  <2>3. PICK y : TabOk(y) /\ tab' = [tab EXCEPT ![t] = y]
    BY <2>1, VisitOfTab, FetchedOk, RefusedOk
  <2> QED
    BY <2>2, <2>3, TabStep
<1>2. ASSUME tab' = tab, rows' \subseteq rows PROVE TabsOk'
  BY <1>2 DEF TabsOk
<1>3. CASE \E s \in Visits : Serve(s) \/ Pump(s) \/ Drain(s) \/ HangUp(s)
  <2>1. tab' = tab /\ rows' = rows
    BY <1>3 DEF Serve, Resolve, List, Probed, Pump, PullEnds, PumpTakes, PumpEnds,
                Drain, HangUp, world
  <2> QED
    BY <1>2, <2>1
<1>4. CASE ShareDies \/ Outage \/ (\E f \in Files : TrashFile(f) \/ PurgeRows(f))
           \/ (\E c \in AllChunks : LoseCopy(c))
  <2>1. tab' = tab /\ rows' \subseteq rows
    BY <1>4 DEF ShareDies, Outage, TrashFile, PurgeRows, LoseCopy
  <2> QED
    BY <1>2, <2>1
<1>5. CASE pagesVars' = pagesVars
  <2>1. tab' = tab /\ rows' = rows
    BY <1>5 DEF pagesVars
  <2> QED
    BY <1>2, <2>1
<1> QED
  BY <1>1, <1>3, <1>4, <1>5 DEF PagesNext

(* Every file that a browser saves has all its chunks in order, whatever   *)
(* is trashed, purged or lost meanwhile, and but for the owner's zip every *)
(* file that was listed is there.                                          *)
THEOREM SavesAreWhole == PagesSpec => []SavedIsWhole
<1>1. PagesInit => TabsOk
  BY TabsInit
<1>2. TabsOk /\ [PagesNext]_pagesVars => TabsOk'
  BY TabsNext
<1>3. TabsOk => SavedIsWhole
  BY DEF TabsOk, TabOk, SavedIsWhole, Whole
<1> QED
  BY <1>1, <1>2, <1>3, PTL DEF PagesSpec
=============================================================================
