------------------------- MODULE SenderPoolsProofs -------------------------
(* Proofs about SenderPools, for every value of its constants.             *)
EXTENDS SenderPools, FiniteSetTheorems, TLAPS

-----------------------------------------------------------------------------
(* The inductive invariant                                                 *)

Working == {"ready", "send", "parse", "backoff"}

(* A call and an upload under way have a sender, of the right service.     *)
SendersKnown ==
    /\ \A u \in Uploads :
         /\ upload[u].pc = "select" => upload[u].pool \in Pools
         /\ upload[u].pc \in Working => Sender(u) \in Senders
         /\ upload[u].pc = "parse" => Sender(u) \in Telegram
    /\ \A c \in Calls :
         /\ call[c].pc \in {"dial", "wait", "cdn", "again"} => call[c].sender \in Senders
         /\ call[c].pc = "again" => call[c].round < MaxRetries

Inv == TypeOK /\ SendersKnown /\ SendersAccounted /\ TelegramSerial

UploadType ==
    [pc : {"new", "select", "ready", "send", "parse", "backoff", "done", "failed"},
     pool : Pools \cup {None}, sender : Senders \cup {None},
     relay : BOOLEAN, attempt : 0 .. MaxRetries]
CallType ==
    [pc : {"new", "dial", "wait", "cdn", "again", "done", "failed"},
     op : {"read", "delete", None}, sender : Senders \cup {None},
     attempt : 0 .. MaxRetries, round : 0 .. MaxRetries]

-----------------------------------------------------------------------------
(* Counting the uploads a sender works on                                  *)

LEMMA Services ==
    /\ Discord \subseteq Headers /\ Headers \subseteq Senders
    /\ Telegram \subseteq Senders /\ Headers \cap Telegram = {}
    /\ \A s \in Senders : s \in Headers \/ s \in Telegram
BY SenderAssumption DEF Discord, Headers, Hooks, Senders

(* A set that one element enters or leaves.                                *)
LEMMA Count ==
    ASSUME NEW S, IsFiniteSet(S), NEW T, NEW u,
           \A v : v # u => (v \in T <=> v \in S)
    PROVE  /\ IsFiniteSet(T) /\ Cardinality(S) \in Nat /\ Cardinality(T) \in Nat
           /\ Cardinality(T) = Cardinality(S) + (IF u \in T THEN 1 ELSE 0)
                                             - (IF u \in S THEN 1 ELSE 0)
<1>1. Cardinality(S) \in Nat
  BY FS_CardinalityType
<1>2. CASE u \in T /\ u \in S
  <2>1. T = S
    BY <1>2
  <2> QED
    BY <1>1, <1>2, <2>1
<1>3. CASE u \notin T /\ u \notin S
  <2>1. T = S
    BY <1>3
  <2> QED
    BY <1>1, <1>3, <2>1
<1>4. CASE u \in T /\ u \notin S
  <2>1. T = S \cup {u}
    BY <1>4
  <2>2. IsFiniteSet(T) /\ Cardinality(T) = Cardinality(S) + 1
    BY <1>4, <2>1, FS_AddElement
  <2> QED
    BY <1>1, <1>4, <2>2
<1>5. CASE u \notin T /\ u \in S
  <2>1. T = S \ {u}
    BY <1>5
  <2>2. IsFiniteSet(T) /\ Cardinality(T) = Cardinality(S) - 1
    BY <1>5, <2>1, FS_RemoveElement
  <2>3. Cardinality(T) \in Nat
    BY <2>2, FS_CardinalityType
  <2> QED
    BY <1>1, <1>5, <2>2, <2>3
<1> QED
  BY <1>2, <1>3, <1>4, <1>5

(* What becomes of the counts when one upload moves.                       *)
LEMMA Counts ==
    ASSUME TypeOK, NEW u \in Uploads, NEW t \in UploadType,
           upload' = [upload EXCEPT ![u] = t], NEW s
    PROVE  /\ Cardinality(HeldBy(s)) \in Nat /\ Cardinality(HeldBy(s)') \in Nat
           /\ Cardinality(Posting(s)) \in Nat /\ Cardinality(Posting(s)') \in Nat
           /\ Cardinality(HeldBy(s)') = Cardinality(HeldBy(s))
                + (IF t.pc \in Working /\ t.sender = s THEN 1 ELSE 0)
                - (IF upload[u].pc \in Working /\ Sender(u) = s THEN 1 ELSE 0)
           /\ Cardinality(Posting(s)') = Cardinality(Posting(s))
                + (IF t.pc = "send" /\ t.sender = s THEN 1 ELSE 0)
                - (IF upload[u].pc = "send" /\ Sender(u) = s THEN 1 ELSE 0)
<1>1. /\ upload \in [Uploads -> UploadType]
      /\ \A v \in Uploads : upload'[v] = IF v = u THEN t ELSE upload[v]
  BY DEF TypeOK, UploadType
<1>2. IsFiniteSet(HeldBy(s)) /\ IsFiniteSet(Posting(s))
  <2>1. HeldBy(s) \subseteq Uploads /\ Posting(s) \subseteq Uploads
    BY DEF HeldBy, Posting
  <2> QED
    BY <2>1, SenderAssumption, FS_Subset
<1>3. /\ \A v : v # u => (v \in HeldBy(s)' <=> v \in HeldBy(s))
      /\ \A v : v # u => (v \in Posting(s)' <=> v \in Posting(s))
  BY <1>1 DEF HeldBy, Posting, Holds, Sender
<1>4. /\ u \in HeldBy(s)' <=> (t.pc \in Working /\ t.sender = s)
      /\ u \in HeldBy(s) <=> (upload[u].pc \in Working /\ Sender(u) = s)
      /\ u \in Posting(s)' <=> (t.pc = "send" /\ t.sender = s)
      /\ u \in Posting(s) <=> (upload[u].pc = "send" /\ Sender(u) = s)
  BY <1>1 DEF HeldBy, Posting, Holds, Sender, Working
<1>5. /\ Cardinality(HeldBy(s)) \in Nat /\ Cardinality(HeldBy(s)') \in Nat
      /\ Cardinality(HeldBy(s)') = Cardinality(HeldBy(s))
                + (IF u \in HeldBy(s)' THEN 1 ELSE 0) - (IF u \in HeldBy(s) THEN 1 ELSE 0)
  BY <1>2, <1>3, Count
<1>6. /\ Cardinality(Posting(s)) \in Nat /\ Cardinality(Posting(s)') \in Nat
      /\ Cardinality(Posting(s)') = Cardinality(Posting(s))
                + (IF u \in Posting(s)' THEN 1 ELSE 0) - (IF u \in Posting(s) THEN 1 ELSE 0)
  BY <1>2, <1>3, Count
<1> QED
  BY <1>4, <1>5, <1>6

(* The counters of an upload that a sender works on are not zero.          *)
LEMMA HeldCounts ==
    ASSUME Inv, NEW u \in Uploads, upload[u].pc \in Working
    PROVE  LET s == Sender(u) IN
           /\ s \in Discord => claims[s] \in Nat \ {0}
           /\ s \in Headers /\ upload[u].pc = "send" => inFlight[s] \in Nat \ {0}
           /\ s \in Telegram => inFlight[s] \in Nat \ {0}
           /\ s \in Telegram /\ upload[u].pc = "send" => inFlight[s] \in Nat \ {0, 1}
<1> DEFINE s == Sender(u)
<1>1. u \in HeldBy(s) /\ (upload[u].pc = "send" => u \in Posting(s))
  BY DEF HeldBy, Posting, Holds, Working
<1>2. IsFiniteSet(HeldBy(s)) /\ IsFiniteSet(Posting(s))
  <2>1. HeldBy(s) \subseteq Uploads /\ Posting(s) \subseteq Uploads
    BY DEF HeldBy, Posting
  <2> QED
    BY <2>1, SenderAssumption, FS_Subset
<1>3. /\ Cardinality(HeldBy(s)) \in Nat \ {0}
      /\ Cardinality(Posting(s)) \in Nat
      /\ upload[u].pc = "send" => Cardinality(Posting(s)) \in Nat \ {0}
  BY <1>1, <1>2, FS_CardinalityType, FS_EmptySet
<1> QED
  BY <1>3 DEF Inv, SendersAccounted

-----------------------------------------------------------------------------
(* The ways an upload moves                                                *)

LEMMA ReleasedBy ==
    ASSUME TypeOK, NEW s \in Senders, NEW n \in Nat, Released(s, n), n <= inFlight[s]
    PROVE  /\ inFlight' \in [Senders -> Nat]
           /\ inFlight'[s] = inFlight[s] - n
           /\ \A r \in Senders \ {s} : inFlight'[r] = inFlight[r]
BY DEF TypeOK, Released

(* The upload gets a sender, which had room for it.                        *)
LEMMA Enters ==
    ASSUME Inv, NEW u \in Uploads, NEW t \in UploadType, upload' = [upload EXCEPT ![u] = t],
           upload[u].pc \notin Working, t.pc = "ready", NEW s \in Senders, t.sender = s,
           s \in Discord => HasCapacity(s),
           s \in Telegram => CanUse(s),
           claims' = (IF s \in Discord THEN [claims EXCEPT ![s] = @ + 1] ELSE claims),
           IF s \in Telegram THEN Reserved(s) ELSE UNCHANGED inFlight
    PROVE  /\ claims' \in [Discord -> Nat] /\ inFlight' \in [Senders -> Nat]
           /\ SendersAccounted' /\ TelegramSerial'
<1>0. /\ claims \in [Discord -> Nat] /\ inFlight \in [Senders -> Nat] /\ MaxPerSender \in Nat
  BY SenderAssumption DEF Inv, TypeOK
<1>1. /\ claims' \in [Discord -> Nat]
      /\ \A r \in Discord : claims'[r] = claims[r] + (IF r = s THEN 1 ELSE 0)
  BY <1>0
<1>2. /\ inFlight' \in [Senders -> Nat]
      /\ \A r \in Headers : inFlight'[r] = inFlight[r]
      /\ \A r \in Telegram : inFlight'[r] = inFlight[r] + (IF r = s THEN 1 ELSE 0)
  BY <1>0, Services DEF Reserved
<1>3. ASSUME NEW r
      PROVE  /\ Cardinality(HeldBy(r)) \in Nat /\ Cardinality(Posting(r)) \in Nat
             /\ Cardinality(HeldBy(r)') = Cardinality(HeldBy(r)) + (IF r = s THEN 1 ELSE 0)
             /\ Cardinality(Posting(r)') = Cardinality(Posting(r))
  <2>1. TypeOK
    BY DEF Inv
  <2>2. /\ Cardinality(HeldBy(r)) \in Nat /\ Cardinality(HeldBy(r)') \in Nat
        /\ Cardinality(Posting(r)) \in Nat /\ Cardinality(Posting(r)') \in Nat
        /\ Cardinality(HeldBy(r)') = Cardinality(HeldBy(r))
                + (IF t.pc \in Working /\ t.sender = r THEN 1 ELSE 0)
                - (IF upload[u].pc \in Working /\ Sender(u) = r THEN 1 ELSE 0)
        /\ Cardinality(Posting(r)') = Cardinality(Posting(r))
                + (IF t.pc = "send" /\ t.sender = r THEN 1 ELSE 0)
                - (IF upload[u].pc = "send" /\ Sender(u) = r THEN 1 ELSE 0)
    BY <2>1, Counts
  <2>3. upload[u].pc # "send" /\ t.pc \in Working
    BY DEF Working
  <2> QED
    BY <2>2, <2>3
<1>4. \A r \in Discord : claims'[r] = Cardinality(HeldBy(r)') /\ claims'[r] <= MaxPerSender
  BY <1>0, <1>1, <1>3 DEF Inv, SendersAccounted, HasCapacity
<1>5. \A r \in Headers : inFlight'[r] = Cardinality(Posting(r)')
  BY <1>2, <1>3 DEF Inv, SendersAccounted
<1>6. \A r \in Telegram : inFlight'[r] = Cardinality(Posting(r)') + Cardinality(HeldBy(r)')
  BY <1>2, <1>3 DEF Inv, SendersAccounted
<1>7. \A r \in Telegram : Cardinality(HeldBy(r)') <= 1
  BY <1>0, <1>3 DEF Inv, SendersAccounted, TelegramSerial, CanUse
<1> QED
  BY <1>1, <1>2, <1>4, <1>5, <1>6, <1>7 DEF SendersAccounted, TelegramSerial

(* The upload goes on with its sender; in is whether it has a request      *)
(* under way afterwards, and the reservations follow.                      *)
LEMMA GoesOn ==
    ASSUME Inv, NEW u \in Uploads, NEW t \in UploadType, upload' = [upload EXCEPT ![u] = t],
           upload[u].pc \in Working, t.pc \in Working, t.sender = Sender(u),
           claims' = claims,
           \/ upload[u].pc # "send" /\ t.pc = "send" /\ Reserved(Sender(u))
           \/ upload[u].pc = "send" /\ t.pc # "send" /\ Released(Sender(u), 1)
           \/ upload[u].pc # "send" /\ t.pc # "send" /\ UNCHANGED inFlight
    PROVE  /\ claims' \in [Discord -> Nat] /\ inFlight' \in [Senders -> Nat]
           /\ SendersAccounted' /\ TelegramSerial'
<1> DEFINE s == Sender(u)
           d(r) == (IF r = s /\ t.pc = "send" THEN 1 ELSE 0)
                     - (IF r = s /\ upload[u].pc = "send" THEN 1 ELSE 0)
<1>0. /\ claims \in [Discord -> Nat] /\ inFlight \in [Senders -> Nat] /\ s \in Senders
  BY DEF Inv, TypeOK, SendersKnown
<1>1. inFlight[s] >= 1 \/ upload[u].pc # "send"
  BY <1>0, HeldCounts, Services
<1>2. /\ inFlight' \in [Senders -> Nat]
      /\ \A r \in Senders : inFlight'[r] = inFlight[r] + d(r)
  <2>1. CASE upload[u].pc # "send" /\ t.pc = "send" /\ Reserved(s)
    BY <1>0, <2>1 DEF Reserved
  <2>2. CASE upload[u].pc = "send" /\ t.pc # "send" /\ Released(s, 1)
    BY <1>0, <1>1, <2>2, ReleasedBy DEF Inv
  <2>3. CASE upload[u].pc # "send" /\ t.pc # "send" /\ UNCHANGED inFlight
    BY <1>0, <2>3
  <2> QED
    BY <2>1, <2>2, <2>3
<1>3. ASSUME NEW r
      PROVE  /\ Cardinality(HeldBy(r)) \in Nat /\ Cardinality(Posting(r)) \in Nat
             /\ Cardinality(HeldBy(r)') = Cardinality(HeldBy(r))
             /\ Cardinality(Posting(r)') = Cardinality(Posting(r)) + d(r)
  <2>1. TypeOK
    BY DEF Inv
  <2>2. /\ Cardinality(HeldBy(r)) \in Nat /\ Cardinality(HeldBy(r)') \in Nat
        /\ Cardinality(Posting(r)) \in Nat /\ Cardinality(Posting(r)') \in Nat
        /\ Cardinality(HeldBy(r)') = Cardinality(HeldBy(r))
                + (IF t.pc \in Working /\ t.sender = r THEN 1 ELSE 0)
                - (IF upload[u].pc \in Working /\ Sender(u) = r THEN 1 ELSE 0)
        /\ Cardinality(Posting(r)') = Cardinality(Posting(r))
                + (IF t.pc = "send" /\ t.sender = r THEN 1 ELSE 0)
                - (IF upload[u].pc = "send" /\ Sender(u) = r THEN 1 ELSE 0)
    BY <2>1, Counts
  <2> QED
    BY <2>2
<1>4. \A r \in Headers : inFlight'[r] = Cardinality(Posting(r)')
  BY <1>2, <1>3, Services DEF Inv, SendersAccounted
<1>5. \A r \in Telegram : inFlight'[r] = Cardinality(Posting(r)') + Cardinality(HeldBy(r)')
  <2> HIDE DEF d
  <2>1. \A r : d(r) \in Int
    BY DEF d
  <2> QED
    BY <1>0, <1>2, <1>3, <2>1, Services DEF Inv, SendersAccounted
<1>6. \A r \in Discord : claims'[r] = Cardinality(HeldBy(r)') /\ claims'[r] <= MaxPerSender
  BY <1>3 DEF Inv, SendersAccounted
<1>7. \A r \in Telegram : Cardinality(HeldBy(r)') <= 1
  BY <1>3 DEF Inv, TelegramSerial
<1> QED
  BY <1>0, <1>2, <1>4, <1>5, <1>6, <1>7 DEF SendersAccounted, TelegramSerial

(* The upload is over: its sender gets everything back.                    *)
LEMMA Ends ==
    ASSUME Inv, NEW u \in Uploads, upload[u].pc \in Working,
           NEW pc \in {"done", "failed"}, NEW n \in {0, 1},
           n = (IF upload[u].pc = "send" THEN 1 ELSE 0), Finish(u, pc, n)
    PROVE  /\ claims' \in [Discord -> Nat] /\ inFlight' \in [Senders -> Nat]
           /\ upload' \in [Uploads -> UploadType]
           /\ \A v \in Uploads \ {u} : upload'[v] = upload[v]
           /\ upload'[u].pc = pc
           /\ SendersAccounted' /\ TelegramSerial'
<1> DEFINE s == Sender(u)
           t == [NoUpload EXCEPT !.pc = pc]
           k == IF s \in Telegram THEN n + 1 ELSE n
<1>0. /\ claims \in [Discord -> Nat] /\ inFlight \in [Senders -> Nat] /\ s \in Senders
      /\ upload \in [Uploads -> UploadType] /\ MaxPerSender \in Nat
  BY SenderAssumption DEF Inv, TypeOK, SendersKnown, UploadType
<1>1. t \in UploadType /\ t.pc = pc /\ upload' = [upload EXCEPT ![u] = t]
  <2>1. 0 \in 0 .. MaxRetries
    BY SenderAssumption
  <2>2. NoUpload \in UploadType
    BY <2>1 DEF NoUpload, UploadType
  <2>3. t \in UploadType /\ t.pc = pc
    BY <2>2 DEF UploadType
  <2>4. upload' = [upload EXCEPT ![u] = t]
    BY DEF Finish
  <2> QED
    BY <2>3, <2>4
<1>2. k \in Nat /\ k <= inFlight[s]
  BY <1>0, HeldCounts, Services DEF Inv
<1>3. /\ inFlight' \in [Senders -> Nat]
      /\ \A r \in Senders : inFlight'[r] = IF r = s THEN inFlight[r] - k ELSE inFlight[r]
  BY <1>0, <1>2, ReleasedBy DEF Finish, Inv
<1>4. /\ claims' \in [Discord -> Nat]
      /\ \A r \in Discord : claims'[r] = IF r = s THEN claims[r] - 1 ELSE claims[r]
  <2>1. s \in Discord => claims[s] \in Nat \ {0}
    BY HeldCounts
  <2> QED
    BY <1>0, <2>1 DEF Finish
<1>5. ASSUME NEW r
      PROVE  /\ Cardinality(HeldBy(r)) \in Nat /\ Cardinality(Posting(r)) \in Nat
             /\ Cardinality(HeldBy(r)') = Cardinality(HeldBy(r)) - (IF r = s THEN 1 ELSE 0)
             /\ Cardinality(Posting(r)') = Cardinality(Posting(r)) - (IF r = s THEN n ELSE 0)
             /\ Cardinality(HeldBy(r)') \in Nat /\ Cardinality(Posting(r)') \in Nat
  <2> HIDE DEF t
  <2>1. TypeOK
    BY DEF Inv
  <2>2. /\ Cardinality(HeldBy(r)) \in Nat /\ Cardinality(HeldBy(r)') \in Nat
        /\ Cardinality(Posting(r)) \in Nat /\ Cardinality(Posting(r)') \in Nat
        /\ Cardinality(HeldBy(r)') = Cardinality(HeldBy(r))
                + (IF t.pc \in Working /\ t.sender = r THEN 1 ELSE 0)
                - (IF upload[u].pc \in Working /\ Sender(u) = r THEN 1 ELSE 0)
        /\ Cardinality(Posting(r)') = Cardinality(Posting(r))
                + (IF t.pc = "send" /\ t.sender = r THEN 1 ELSE 0)
                - (IF upload[u].pc = "send" /\ Sender(u) = r THEN 1 ELSE 0)
    BY <1>1, <2>1, Counts
  <2>3. t.pc \notin Working /\ t.pc # "send"
    BY <1>1 DEF Working
  <2> QED
    BY <2>2, <2>3
<1>6. \A r \in Discord : claims'[r] = Cardinality(HeldBy(r)') /\ claims'[r] <= MaxPerSender
  BY <1>0, <1>4, <1>5 DEF Inv, SendersAccounted
<1>7. \A r \in Headers : inFlight'[r] = Cardinality(Posting(r)')
  BY <1>3, <1>5, Services DEF Inv, SendersAccounted
<1>8. \A r \in Telegram : inFlight'[r] = Cardinality(Posting(r)') + Cardinality(HeldBy(r)')
  BY <1>0, <1>3, <1>5, Services DEF Inv, SendersAccounted
<1>9. \A r \in Telegram : Cardinality(HeldBy(r)') <= 1
  BY <1>5 DEF Inv, TelegramSerial
<1>10. /\ upload' \in [Uploads -> UploadType] /\ upload'[u].pc = pc
       /\ \A v \in Uploads \ {u} : upload'[v] = upload[v]
  BY <1>0, <1>1
<1> QED
  BY <1>3, <1>4, <1>6, <1>7, <1>8, <1>9, <1>10 DEF SendersAccounted, TelegramSerial

-----------------------------------------------------------------------------
(* Each action                                                             *)

LEMMA InitInv == Init => Inv
<1> SUFFICES ASSUME Init PROVE Inv
  OBVIOUS
<1>1. /\ 0 \in 0 .. MaxRetries /\ 0 \in 0 .. MaxFaults /\ Budget \in 0 .. Budget
      /\ MaxPerSender \in Nat
  BY SenderAssumption
<1>2. NoUpload \in UploadType /\ NoCall \in CallType
  BY <1>1 DEF NoUpload, UploadType, NoCall, CallType
<1>3. TypeOK
  BY <1>1, <1>2 DEF Init, TypeOK, UploadType, CallType
<1>4. SendersKnown
  BY DEF Init, SendersKnown, NoUpload, NoCall, Working
<1>5. \A s : HeldBy(s) = {} /\ Posting(s) = {}
  BY DEF Init, HeldBy, Posting, Holds, NoUpload
<1>6. Cardinality({}) = 0
  BY FS_EmptySet
<1>7. SendersAccounted /\ TelegramSerial
  BY <1>1, <1>5, <1>6, Services DEF Init, SendersAccounted, TelegramSerial
<1> QED
  BY <1>3, <1>4, <1>7 DEF Inv

(* A step that moves no upload and no counter keeps the accounts.          *)
LEMMA SameAccounts ==
    ASSUME Inv, UNCHANGED <<upload, inFlight, claims>>
    PROVE  SendersAccounted' /\ TelegramSerial'
<1>1. \A s : HeldBy(s)' = HeldBy(s) /\ Posting(s)' = Posting(s)
  BY DEF HeldBy, Posting, Holds, Sender
<1> QED
  BY <1>1 DEF Inv, SendersAccounted, TelegramSerial

LEMMA FaultType ==
    ASSUME TypeOK, Fault
    PROVE  faults' \in 0 .. MaxFaults
BY SenderAssumption DEF TypeOK, Fault

LEMMA RecordType ==
    ASSUME TypeOK, NEW s \in Senders, RecordResponse(s)
    PROVE  remaining' \in [Headers -> 0 .. Budget] /\ closed' \subseteq Headers
BY Services DEF TypeOK, RecordResponse

LEMMA CanUseOf ==
    ASSUME NEW S, NEW s \in Tier(S)
    PROVE  s \in S /\ CanUse(s) /\ (s \in Discord => HasCapacity(s))
BY DEF Tier, Usable

LEMMA PoolType ==
    ASSUME NEW pool \in Pools
    PROVE  PoolSenders(pool) \subseteq Senders
BY Services DEF Pools, PoolSenders, Senders, Headers, Hooks

(* What an upload's step leaves alone.                                     *)
LEMMA UploadFrame ==
    ASSUME Inv, NEW u \in Uploads, UNCHANGED call,
           remaining' \in [Headers -> 0 .. Budget], closed' \subseteq Headers,
           barred' \subseteq Telegram, blocked' \in BOOLEAN, faults' \in 0 .. MaxFaults,
           claims' \in [Discord -> Nat], inFlight' \in [Senders -> Nat],
           upload' \in [Uploads -> UploadType],
           \A v \in Uploads \ {u} : upload'[v] = upload[v],
           /\ upload'[u].pc = "select" => upload'[u].pool \in Pools
           /\ upload'[u].pc \in Working => upload'[u].sender \in Senders
           /\ upload'[u].pc = "parse" => upload'[u].sender \in Telegram,
           SendersAccounted', TelegramSerial'
    PROVE  Inv'
<1>1. TypeOK'
  BY DEF Inv, TypeOK, UploadType
<1>2. SendersKnown'
  BY DEF Inv, SendersKnown, Sender
<1> QED
  BY <1>1, <1>2 DEF Inv

LEMMA ChoosePoolInv ==
    ASSUME Inv, NEW u \in Uploads, ChoosePool(u)
    PROVE  Inv'
<1>1. PICK pool \in Pools :
        upload' = [upload EXCEPT ![u].pc = "select", ![u].pool = pool]
  BY DEF ChoosePool
<1> DEFINE t == [upload[u] EXCEPT !.pc = "select", !.pool = pool]
<1>2. upload \in [Uploads -> UploadType] /\ upload[u].pc = "new" /\ upload[u] \in UploadType
  BY DEF Inv, TypeOK, UploadType, ChoosePool
<1>3. t \in UploadType /\ t.pc = "select" /\ t.pool = pool /\ upload' = [upload EXCEPT ![u] = t]
  BY <1>1, <1>2 DEF UploadType
<1> HIDE DEF t
<1>4. \A s : HeldBy(s)' = HeldBy(s) /\ Posting(s)' = Posting(s)
  BY <1>2, <1>3 DEF HeldBy, Posting, Holds, Sender
<1>5. SendersAccounted' /\ TelegramSerial'
  BY <1>4 DEF Inv, SendersAccounted, TelegramSerial, ChoosePool
<1>6. upload' \in [Uploads -> UploadType] /\ upload'[u] = t
      /\ \A v \in Uploads \ {u} : upload'[v] = upload[v]
  BY <1>2, <1>3
<1> QED
  BY <1>3, <1>5, <1>6, UploadFrame DEF Inv, TypeOK, ChoosePool, limits, Working

LEMMA SelectInv ==
    ASSUME Inv, NEW u \in Uploads, Select(u)
    PROVE  Inv'
<1>1. PICK s \in Tier(PoolSenders(upload[u].pool)) :
         /\ upload' = [upload EXCEPT ![u].pc = "ready", ![u].sender = s,
                                     ![u].relay = s \in Relay]
         /\ claims' = IF s \in Discord THEN [claims EXCEPT ![s] = @ + 1] ELSE claims
         /\ IF s \in Telegram THEN Reserved(s) ELSE UNCHANGED inFlight
  BY DEF Select
<1> DEFINE t == [upload[u] EXCEPT !.pc = "ready", !.sender = s, !.relay = s \in Relay]
<1>2. upload \in [Uploads -> UploadType] /\ upload[u].pc = "select" /\ upload[u] \in UploadType
  BY DEF Inv, TypeOK, UploadType, Select
<1>3. s \in Senders /\ CanUse(s) /\ (s \in Discord => HasCapacity(s))
  BY <1>2, PoolType, CanUseOf DEF Inv, SendersKnown
<1>4. t \in UploadType /\ t.pc = "ready" /\ t.sender = s /\ upload' = [upload EXCEPT ![u] = t]
  <2>1. (s \in Relay) \in BOOLEAN
    OBVIOUS
  <2> QED
    BY <1>1, <1>2, <1>3, <2>1 DEF UploadType
<1> HIDE DEF t
<1>5. /\ claims' \in [Discord -> Nat] /\ inFlight' \in [Senders -> Nat]
      /\ SendersAccounted' /\ TelegramSerial'
  BY <1>1, <1>2, <1>3, <1>4, Enters DEF Working
<1>6. upload' \in [Uploads -> UploadType] /\ upload'[u] = t
      /\ \A v \in Uploads \ {u} : upload'[v] = upload[v]
  BY <1>2, <1>4
<1> QED
  BY <1>3, <1>4, <1>5, <1>6, UploadFrame DEF Inv, TypeOK, Select, limits, Working

(* An upload that keeps its sender, or is over, keeps the accounts.        *)
LEMMA WorkingInv ==
    ASSUME Inv, NEW u \in Uploads, upload[u].pc \in Working, UNCHANGED call,
           remaining' \in [Headers -> 0 .. Budget], closed' \subseteq Headers,
           barred' \subseteq Telegram, blocked' \in BOOLEAN, faults' \in 0 .. MaxFaults,
           \/ \E t \in UploadType :
                /\ upload' = [upload EXCEPT ![u] = t] /\ claims' = claims
                /\ t.pc \in Working /\ t.sender = Sender(u)
                /\ t.pc = "parse" => Sender(u) \in Telegram
                /\ \/ upload[u].pc # "send" /\ t.pc = "send" /\ Reserved(Sender(u))
                   \/ upload[u].pc = "send" /\ t.pc # "send" /\ Released(Sender(u), 1)
                   \/ upload[u].pc # "send" /\ t.pc # "send" /\ UNCHANGED inFlight
           \/ \E pc \in {"done", "failed"} :
                Finish(u, pc, IF upload[u].pc = "send" THEN 1 ELSE 0)
    PROVE  Inv'
<1>1. ASSUME NEW t \in UploadType,
             /\ upload' = [upload EXCEPT ![u] = t] /\ claims' = claims
             /\ t.pc \in Working /\ t.sender = Sender(u)
             /\ t.pc = "parse" => Sender(u) \in Telegram
             /\ \/ upload[u].pc # "send" /\ t.pc = "send" /\ Reserved(Sender(u))
                \/ upload[u].pc = "send" /\ t.pc # "send" /\ Released(Sender(u), 1)
                \/ upload[u].pc # "send" /\ t.pc # "send" /\ UNCHANGED inFlight
      PROVE  Inv'
  <2>1. /\ claims' \in [Discord -> Nat] /\ inFlight' \in [Senders -> Nat]
        /\ SendersAccounted' /\ TelegramSerial'
    BY <1>1, GoesOn
  <2>2. upload \in [Uploads -> UploadType] /\ Sender(u) \in Senders
    BY DEF Inv, TypeOK, UploadType, SendersKnown
  <2>3. upload' \in [Uploads -> UploadType] /\ upload'[u] = t
        /\ \A v \in Uploads \ {u} : upload'[v] = upload[v]
    BY <1>1, <2>2
  <2> QED
    BY <1>1, <2>1, <2>2, <2>3, UploadFrame DEF Working
<1>2. ASSUME NEW pc \in {"done", "failed"},
             Finish(u, pc, IF upload[u].pc = "send" THEN 1 ELSE 0)
      PROVE  Inv'
  <2> DEFINE n == IF upload[u].pc = "send" THEN 1 ELSE 0
  <2>1. n \in {0, 1} /\ Finish(u, pc, n)
    BY <1>2
  <2> HIDE DEF n
  <2>2. n = IF upload[u].pc = "send" THEN 1 ELSE 0
    BY DEF n
  <2>3. /\ claims' \in [Discord -> Nat] /\ inFlight' \in [Senders -> Nat]
        /\ upload' \in [Uploads -> UploadType]
        /\ \A v \in Uploads \ {u} : upload'[v] = upload[v]
        /\ upload'[u].pc = pc
        /\ SendersAccounted' /\ TelegramSerial'
    BY <2>1, <2>2, Ends
  <2> QED
    BY <2>3, UploadFrame DEF Working
<1> QED
  BY <1>1, <1>2

LEMMA UploadMoves ==
    ASSUME Inv, NEW u \in Uploads, upload[u].pc \in Working
    PROVE  /\ upload[u] \in UploadType
           /\ \A pc \in Working :
                /\ [upload[u] EXCEPT !.pc = pc] \in UploadType
                /\ [upload[u] EXCEPT !.pc = pc].pc = pc
                /\ [upload[u] EXCEPT !.pc = pc].sender = Sender(u)
                /\ [upload EXCEPT ![u].pc = pc] = [upload EXCEPT ![u] = [upload[u] EXCEPT !.pc = pc]]
           /\ Sender(u) \in Senders
<1>1. upload \in [Uploads -> UploadType] /\ upload[u] \in UploadType /\ Sender(u) \in Senders
  BY DEF Inv, TypeOK, UploadType, SendersKnown
<1> QED
  BY <1>1 DEF UploadType, Sender, Working

LEMMA PostInv ==
    ASSUME Inv, NEW u \in Uploads, Post(u)
    PROVE  Inv'
<1> DEFINE t == [upload[u] EXCEPT !.pc = "send"]
<1>1. upload[u].pc = "ready" /\ upload[u].pc \in Working /\ "send" \in Working
  BY DEF Post, Working
<1>2. t \in UploadType /\ t.pc = "send" /\ t.sender = Sender(u) /\ upload' = [upload EXCEPT ![u] = t]
  BY <1>1, UploadMoves DEF Post
<1> HIDE DEF t
<1> QED
  BY <1>1, <1>2, WorkingInv DEF Post, Inv, TypeOK, limits

LEMMA BackoffTo ==
    ASSUME Inv, NEW u \in Uploads, upload[u].pc \in Working, Backoff(u)
    PROVE  \E t \in UploadType :
             /\ upload' = [upload EXCEPT ![u] = t] /\ claims' = claims
             /\ t.pc = "backoff" /\ t.sender = Sender(u)
<1> DEFINE t == [upload[u] EXCEPT !.pc = "backoff"]
<1>1. "backoff" \in Working
  BY DEF Working
<1>2. t \in UploadType /\ t.pc = "backoff" /\ t.sender = Sender(u)
      /\ upload' = [upload EXCEPT ![u] = t] /\ claims' = claims
  BY <1>1, UploadMoves DEF Backoff
<1> QED
  BY <1>2

LEMMA PostBreaksInv ==
    ASSUME Inv, NEW u \in Uploads, PostBreaks(u)
    PROVE  Inv'
<1>1. upload[u].pc = "send" /\ upload[u].pc \in Working /\ faults' \in 0 .. MaxFaults
  BY FaultType DEF PostBreaks, Working, Inv
<1>2. CASE Finish(u, "failed", 1)
  BY <1>1, <1>2, WorkingInv DEF PostBreaks, Inv, TypeOK, limits
<1>3. CASE ~Finish(u, "failed", 1)
  <2> DEFINE atOnce == upload[u].relay \/ Sender(u) \in Bots
             pc == IF atOnce THEN "ready" ELSE "backoff"
             n == IF atOnce THEN upload[u].attempt + 1 ELSE upload[u].attempt
             t == [upload[u] EXCEPT !.relay = FALSE, !.pc = pc, !.attempt = n]
  <2>1. /\ upload[u].attempt < MaxRetries /\ Released(Sender(u), 1) /\ claims' = claims
        /\ upload' = [upload EXCEPT ![u].relay = FALSE, ![u].pc = pc,
                        ![u].attempt = IF atOnce THEN @ + 1 ELSE @]
    BY <1>3 DEF PostBreaks
  <2>2. /\ upload \in [Uploads -> UploadType] /\ upload[u] \in UploadType
        /\ pc \in Working \ {"send", "parse"}
    BY DEF Inv, TypeOK, UploadType, Working
  <2>3. n \in 0 .. MaxRetries
    BY <2>1, <2>2, SenderAssumption DEF UploadType
  <2>4. upload' = [upload EXCEPT ![u] = t]
    BY <2>1, <2>2
  <2> HIDE DEF pc, n
  <2>5. t \in UploadType /\ t.pc = pc /\ t.sender = Sender(u)
    BY <2>2, <2>3 DEF UploadType, Sender, Working
  <2> HIDE DEF t
  <2> QED
    BY <1>1, <2>1, <2>2, <2>4, <2>5, WorkingInv DEF PostBreaks, Inv, TypeOK, limits
<1> QED
  BY <1>2, <1>3

LEMMA AnswerInv ==
    ASSUME Inv, NEW u \in Uploads, DiscordAnswers(u) \/ TelegramAnswers(u)
    PROVE  Inv'
<1>1. upload[u].pc = "send" /\ upload[u].pc \in Working /\ call' = call
      /\ Sender(u) \in Senders /\ TypeOK
  BY DEF DiscordAnswers, TelegramAnswers, Working, Inv, SendersKnown
<1>2. CASE DiscordAnswers(u)
  <2>1. /\ faults' \in 0 .. MaxFaults /\ barred' \subseteq Telegram /\ blocked' \in BOOLEAN
    BY <1>1, <1>2, FaultType DEF DiscordAnswers, TypeOK
  <2>2. remaining' \in [Headers -> 0 .. Budget] /\ closed' \subseteq Headers
    BY <1>1, <1>2, RecordType DEF DiscordAnswers
  <2>3. CASE Finish(u, "done", 1) \/ Finish(u, "failed", 1)
    BY <1>1, <2>1, <2>2, <2>3, WorkingInv
  <2>4. CASE Backoff(u) /\ Released(Sender(u), 1)
    <3>1. PICK t \in UploadType :
             /\ upload' = [upload EXCEPT ![u] = t] /\ claims' = claims
             /\ t.pc = "backoff" /\ t.sender = Sender(u)
      BY <1>1, <2>4, BackoffTo
    <3> QED
      BY <1>1, <2>1, <2>2, <2>4, <3>1, WorkingInv DEF Working
  <2> QED
    BY <1>2, <2>3, <2>4 DEF DiscordAnswers
<1>3. CASE TelegramAnswers(u)
  <2> DEFINE t == [upload[u] EXCEPT !.pc = "parse"]
  <2>1. t \in UploadType /\ t.pc = "parse" /\ t.sender = Sender(u)
        /\ upload' = [upload EXCEPT ![u] = t]
    BY <1>1, <1>3, UploadMoves DEF TelegramAnswers, Working
  <2> HIDE DEF t
  <2>2. "parse" \in Working
    BY DEF Working
  <2> QED
    BY <1>1, <1>3, <2>1, <2>2, WorkingInv DEF TelegramAnswers, TypeOK, limits
<1> QED
  BY <1>2, <1>3

LEMMA ParsedInv ==
    ASSUME Inv, NEW u \in Uploads, TelegramParsed(u) \/ BackoffOver(u)
    PROVE  Inv'
<1>1. /\ upload[u].pc \in {"parse", "backoff"} /\ upload[u].pc \in Working /\ call' = call
      /\ upload[u].pc # "send" /\ Sender(u) \in Senders /\ TypeOK
      /\ upload[u].pc = "parse" => Sender(u) \in Telegram
  BY DEF TelegramParsed, BackoffOver, Working, Inv, SendersKnown
<1>2. faults' \in 0 .. MaxFaults
  BY <1>1, FaultType DEF TelegramParsed, BackoffOver, TypeOK
<1>3. /\ remaining' \in [Headers -> 0 .. Budget] /\ closed' \subseteq Headers
      /\ barred' \subseteq Telegram /\ blocked' \in BOOLEAN
  BY <1>1 DEF TelegramParsed, BackoffOver, TypeOK, limits, Bar
<1>4. CASE Finish(u, "done", 0) \/ Finish(u, "failed", 0)
  BY <1>1, <1>2, <1>3, <1>4, WorkingInv
<1>5. CASE Backoff(u) /\ UNCHANGED inFlight
  <2>1. PICK t \in UploadType :
           /\ upload' = [upload EXCEPT ![u] = t] /\ claims' = claims
           /\ t.pc = "backoff" /\ t.sender = Sender(u)
    BY <1>1, <1>5, BackoffTo
  <2> QED
    BY <1>1, <1>2, <1>3, <1>5, <2>1, WorkingInv DEF Working
<1>6. CASE BackoffOver(u) /\ upload[u].attempt < MaxRetries
  <2> DEFINE n == upload[u].attempt + 1
             t == [upload[u] EXCEPT !.pc = "ready", !.attempt = n]
  <2>1. /\ upload' = [upload EXCEPT ![u].pc = "ready", ![u].attempt = @ + 1]
        /\ UNCHANGED <<claims, inFlight>>
    BY <1>6 DEF BackoffOver
  <2>2. upload \in [Uploads -> UploadType] /\ upload[u] \in UploadType /\ "ready" \in Working
    BY <1>1 DEF TypeOK, UploadType, Working
  <2>3. n \in 0 .. MaxRetries
    BY <1>6, <2>2, SenderAssumption DEF UploadType
  <2>4. upload' = [upload EXCEPT ![u] = t]
    BY <2>1, <2>2
  <2> HIDE DEF n
  <2>5. t \in UploadType /\ t.pc = "ready" /\ t.sender = Sender(u)
    BY <2>2, <2>3 DEF UploadType, Sender
  <2> HIDE DEF t
  <2> QED
    BY <1>1, <1>2, <1>3, <2>1, <2>2, <2>4, <2>5, WorkingInv
<1> QED
  BY <1>4, <1>5, <1>6 DEF TelegramParsed, BackoffOver

-----------------------------------------------------------------------------
(* Reads and deletes                                                       *)

LEMMA CallFrame ==
    ASSUME Inv, NEW c \in Calls, UNCHANGED <<upload, inFlight, claims>>,
           remaining' \in [Headers -> 0 .. Budget], closed' \subseteq Headers,
           barred' \subseteq Telegram, blocked' \in BOOLEAN, faults' \in 0 .. MaxFaults,
           NEW t \in CallType, call' = [call EXCEPT ![c] = t],
           t.pc \in {"dial", "wait", "cdn", "again"} => t.sender \in Senders,
           t.pc = "again" => t.round < MaxRetries
    PROVE  Inv'
<1>1. /\ call \in [Calls -> CallType]
      /\ call' \in [Calls -> CallType]
      /\ \A d \in Calls : call'[d] = IF d = c THEN t ELSE call[d]
  BY DEF Inv, TypeOK, CallType
<1>2. TypeOK'
  BY <1>1 DEF Inv, TypeOK, CallType
<1>3. SendersKnown'
  BY <1>1 DEF Inv, SendersKnown, Sender
<1> QED
  BY <1>2, <1>3, SameAccounts DEF Inv

(* Set: a call that is over forgets its sender.                            *)
LEMMA SetTo ==
    ASSUME Inv, NEW c \in Calls, NEW pc \in {"wait", "cdn", "again", "done", "failed"},
           call[c].pc \in {"dial", "wait", "cdn", "again"}, Set(c, pc),
           pc = "again" => call[c].round < MaxRetries
    PROVE  \E t \in CallType :
             /\ call' = [call EXCEPT ![c] = t]
             /\ t.pc \in {"dial", "wait", "cdn", "again"} => t.sender \in Senders
             /\ t.pc = "again" => t.round < MaxRetries
<1>1. call \in [Calls -> CallType] /\ call[c] \in CallType /\ call[c].sender \in Senders
  BY DEF Inv, TypeOK, CallType, SendersKnown
<1>2. CASE pc \in {"done", "failed"}
  <2> DEFINE t == [NoCall EXCEPT !.pc = pc]
  <2>1. t = [pc |-> pc, op |-> None, sender |-> None, attempt |-> 0, round |-> 0]
    BY DEF NoCall
  <2>2. 0 \in 0 .. MaxRetries
    BY SenderAssumption
  <2>3. t \in CallType /\ t.pc = pc
    BY <1>2, <2>1, <2>2 DEF CallType
  <2>4. call' = [call EXCEPT ![c] = t]
    BY <1>2 DEF Set
  <2> HIDE DEF t
  <2> QED
    BY <1>2, <2>3, <2>4
<1>3. CASE pc \notin {"done", "failed"}
  <2> DEFINE t == [call[c] EXCEPT !.pc = pc]
  <2>1. t \in CallType /\ t.pc = pc /\ t.sender = call[c].sender /\ t.round = call[c].round
    BY <1>1, <1>3 DEF CallType
  <2>2. call' = [call EXCEPT ![c] = t]
    BY <1>1, <1>3 DEF Set
  <2> HIDE DEF t
  <2> QED
    BY <1>1, <2>1, <2>2
<1> QED
  BY <1>2, <1>3

LEMMA DialTo ==
    ASSUME Inv, NEW c \in Calls, NEW s \in Senders, NEW op \in {"read", "delete"},
           NEW round \in 0 .. MaxRetries, Dial(c, s, op, round)
    PROVE  \E t \in CallType :
             /\ call' = [call EXCEPT ![c] = t]
             /\ t.pc \in {"dial", "wait", "cdn", "again"} => t.sender \in Senders
             /\ t.pc = "again" => t.round < MaxRetries
<1>1. 0 \in 0 .. MaxRetries
  BY SenderAssumption
<1>2. CASE Set(c, "failed")
  <2> DEFINE t == [NoCall EXCEPT !.pc = "failed"]
  <2>1. t = [pc |-> "failed", op |-> None, sender |-> None, attempt |-> 0, round |-> 0]
    BY DEF NoCall
  <2>2. t \in CallType /\ t.pc = "failed"
    BY <1>1, <2>1 DEF CallType
  <2>3. call' = [call EXCEPT ![c] = t]
    BY <1>2 DEF Set
  <2> HIDE DEF t
  <2> QED
    BY <2>2, <2>3
<1>3. CASE call' = [call EXCEPT ![c] = [pc |-> "dial", op |-> op, sender |-> s,
                                        attempt |-> 0, round |-> round]]
  <2> DEFINE t == [pc |-> "dial", op |-> op, sender |-> s, attempt |-> 0, round |-> round]
  <2>1. t \in CallType
    BY <1>1 DEF CallType
  <2> QED
    BY <1>3, <2>1
<1> QED
  BY <1>2, <1>3 DEF Dial

LEMMA CallInv ==
    ASSUME Inv, NEW c \in Calls, CallStep(c)
    PROVE  Inv'
<1>0. /\ call[c] \in CallType /\ TypeOK
      /\ call[c].pc \in {"dial", "wait", "cdn", "again"} => call[c].sender \in Senders
      /\ call[c].pc = "again" => call[c].round < MaxRetries
  BY DEF Inv, TypeOK, CallType, SendersKnown
<1>1. UNCHANGED <<upload, inFlight, claims>>
  BY DEF CallStep, StartCall, CallAnswered, CallThrottled, CallBreaks, CallAgain,
         CdnAnswers, CdnAgain
<1>2. faults' \in 0 .. MaxFaults
  BY <1>0, FaultType DEF CallStep, StartCall, CallAnswered, CallThrottled, CallBreaks,
     CallAgain, CdnAnswers, CdnAgain, TypeOK
<1>3. /\ remaining' \in [Headers -> 0 .. Budget] /\ closed' \subseteq Headers
      /\ barred' \subseteq Telegram /\ blocked' \in BOOLEAN
  <2>1. CASE CallAnswered(c)
    BY <1>0, <2>1, RecordType DEF CallAnswered, TypeOK
  <2>2. CASE CallThrottled(c)
    <3> DEFINE s == call[c].sender
    <3>1. call[c].pc = "dial" /\ s \in Senders
      BY <1>0, <2>2 DEF CallThrottled
    <3>2. 0 \in 0 .. Budget /\ Hooks \subseteq Headers
      BY SenderAssumption DEF Headers
    <3>3. CASE s \in Hooks /\ UNCHANGED barred /\ UNCHANGED blocked /\ Throttle(s)
      BY <1>0, <3>2, <3>3 DEF Throttle, TypeOK
    <3>4. CASE RecordResponse(s) /\ UNCHANGED <<barred, blocked>>
      BY <1>0, <3>1, <3>4, RecordType DEF TypeOK
    <3>5. CASE s \in Telegram /\ Bar(s) /\ UNCHANGED <<remaining, closed, blocked>>
      BY <1>0, <3>5 DEF Bar, TypeOK
    <3>6. CASE blocked' = TRUE /\ UNCHANGED <<remaining, closed>> /\ UNCHANGED barred
      BY <1>0, <3>6 DEF TypeOK
    <3> QED
      BY <2>2, <3>3, <3>4, <3>5, <3>6 DEF CallThrottled
  <2>3. CASE UNCHANGED limits
    BY <1>0, <2>3 DEF limits, TypeOK
  <2> QED
    BY <2>1, <2>2, <2>3 DEF CallStep, StartCall, CallBreaks, CallAgain, CdnAnswers, CdnAgain
<1>4. ASSUME \E t \in CallType :
               /\ call' = [call EXCEPT ![c] = t]
               /\ t.pc \in {"dial", "wait", "cdn", "again"} => t.sender \in Senders
               /\ t.pc = "again" => t.round < MaxRetries
      PROVE  Inv'
  BY <1>1, <1>2, <1>3, <1>4, CallFrame
<1>5. ASSUME NEW pc \in {"wait", "cdn", "done", "failed"}, Set(c, pc),
             call[c].pc \in {"dial", "wait", "cdn", "again"}
      PROVE  Inv'
  BY <1>4, <1>5, SetTo
<1>6. CASE StartCall(c)
  <2>1. PICK s \in Senders, op \in {"read", "delete"} : Dial(c, s, op, 0)
    BY <1>6 DEF StartCall
  <2>2. 0 \in 0 .. MaxRetries
    BY SenderAssumption
  <2> QED
    BY <1>4, <2>1, <2>2, DialTo
<1>7. CASE CallAnswered(c) \/ CallThrottled(c) \/ CallBreaks(c)
  BY <1>5, <1>7 DEF CallAnswered, CallThrottled, CallBreaks
<1>8. CASE CallAgain(c) /\ call[c].attempt < MaxRetries
  <2> DEFINE n == call[c].attempt + 1
             t == [call[c] EXCEPT !.pc = "dial", !.attempt = n]
  <2>1. call' = [call EXCEPT ![c].pc = "dial", ![c].attempt = @ + 1] /\ call[c].pc = "wait"
    BY <1>8 DEF CallAgain
  <2>2. n \in 0 .. MaxRetries /\ call \in [Calls -> CallType]
    BY <1>0, <1>8, SenderAssumption DEF CallType, TypeOK
  <2>3. call' = [call EXCEPT ![c] = t]
    BY <2>1, <2>2
  <2> HIDE DEF n
  <2>4. t \in CallType /\ t.pc = "dial" /\ t.sender = call[c].sender
    BY <1>0, <2>2 DEF CallType
  <2> HIDE DEF t
  <2> QED
    BY <1>0, <1>4, <2>1, <2>3, <2>4
<1>9. CASE CallAgain(c) /\ ~(call[c].attempt < MaxRetries)
  BY <1>5, <1>9 DEF CallAgain
<1>10. CASE CdnAnswers(c)
  <2>1. CASE Set(c, "again") /\ call[c].round < MaxRetries
    BY <1>4, <1>10, <2>1, SetTo DEF CdnAnswers
  <2> QED
    BY <1>5, <1>10, <2>1 DEF CdnAnswers
<1>11. CASE CdnAgain(c)
  <2>1. /\ call[c].round + 1 \in 0 .. MaxRetries /\ call[c].sender \in Senders
        /\ Dial(c, call[c].sender, "read", call[c].round + 1)
    BY <1>0, <1>11, SenderAssumption DEF CdnAgain, CallType
  <2> QED
    BY <1>4, <2>1, DialTo
<1> QED
  BY <1>6, <1>7, <1>8, <1>9, <1>10, <1>11 DEF CallStep

LEMMA TimeInv ==
    ASSUME Inv, \/ \E s \in Senders : WindowResets(s)
                \/ BlockLifts
                \/ UNCHANGED vars
    PROVE  Inv'
<1>1. UNCHANGED <<upload, call, inFlight, claims, remaining, faults>>
  BY DEF WindowResets, BlockLifts, vars
<1>2. closed' \subseteq Headers /\ barred' \subseteq Telegram /\ blocked' \in BOOLEAN
  BY DEF WindowResets, BlockLifts, vars, Inv, TypeOK
<1>3. TypeOK' /\ SendersKnown'
  BY <1>1, <1>2 DEF Inv, TypeOK, SendersKnown, Sender
<1> QED
  BY <1>1, <1>3, SameAccounts DEF Inv

LEMMA InvNext == ASSUME Inv, [Next]_vars PROVE Inv'
<1>1. ASSUME NEW u \in Uploads, UploadStep(u) PROVE Inv'
  BY <1>1, ChoosePoolInv, SelectInv, PostInv, PostBreaksInv, AnswerInv, ParsedInv
  DEF UploadStep
<1> QED
  BY <1>1, CallInv, TimeInv DEF Next

-----------------------------------------------------------------------------
LEMMA InvAlways == Spec => []Inv
BY InitInv, InvNext, PTL DEF Spec

(* The limiters, the uploads and the calls keep their types, for any       *)
(* senders: no attempt or round is one too many.                           *)
THEOREM TypeCorrect == Spec => []TypeOK
<1>1. Inv => TypeOK
  BY DEF Inv
<1> QED
  BY <1>1, InvAlways, PTL

(* No sender is ever leaked: however uploads are retried, fall back from   *)
(* the relay, break or end, claims and reservations count exactly what is  *)
(* going on, and a Discord sender works on MAX_CONCURRENT_PER_SENDER       *)
(* uploads at most.                                                        *)
THEOREM Accounted == Spec => []SendersAccounted
<1>1. Inv => SendersAccounted
  BY DEF Inv
<1> QED
  BY <1>1, InvAlways, PTL

(* A Telegram bot never works on two uploads.                              *)
THEOREM OneUploadPerBot == Spec => []TelegramSerial
<1>1. Inv => TelegramSerial
  BY DEF Inv
<1> QED
  BY <1>1, InvAlways, PTL

=============================================================================
