---------------------------- MODULE SenderPools ----------------------------
(***************************************************************************)
(* The senders behind the storage pools: Discord webhooks, reached         *)
(* directly or through a relay, Discord bots and Telegram bots, how an     *)
(* upload picks one, and the rate limiters that every call keeps.          *)
(*                                                                         *)
(* Time is abstracted to the moments that matter: a rate-limit window, a   *)
(* send interval and a Cloudflare block are on until they end.  Steps are  *)
(* the code between two awaits.                                            *)
(***************************************************************************)
EXTENDS Integers, FiniteSets

CONSTANTS
    Direct,        \* webhooks reached directly
    Relay,         \* webhooks reached through the relay
    Bots,          \* Discord bots
    Replicas,      \* webhooks of the replica pool, which has its own limiter
    Telegram,      \* Telegram bots
    Uploads,       \* uploads a pool is asked for
    Calls,         \* reads and deletes
    MaxPerSender,  \* MAX_CONCURRENT_PER_SENDER
    MaxRetries,    \* MAX_RETRIES
    Budget,        \* bound: largest x-ratelimit-remaining
    MaxFaults,     \* bound: how many answers may be something else than 200
    None           \* no value

Discord == Direct \cup Relay \cup Bots
Hooks == Direct \cup Relay \cup Replicas
Headers == Hooks \cup Bots     \* senders whose answers carry a budget
Senders == Headers \cup Telegram
Pools == {"DISCORD", "TELEGRAM", "REPLICA"}

ASSUME SenderAssumption ==
    /\ {MaxPerSender, Budget} \subseteq Nat \ {0}
    /\ MaxRetries \in Nat /\ MaxFaults \in Nat
    /\ IsFiniteSet(Uploads) /\ IsFiniteSet(Discord)
    /\ Headers \cap Telegram = {} /\ Replicas \cap Discord = {}
    /\ Bots \cap (Direct \cup Relay) = {} /\ Direct \cap Relay = {}
    /\ None \notin Senders

VARIABLES
    remaining,  \* what a limiter believes is left of a sender's budget
    closed,     \* senders whose window has not reset (resetAt in the future)
    inFlight,   \* reservations of a sender
    claims,     \* senderActiveUploads
    barred,     \* Telegram bots within their interval or a retry_after
    blocked,    \* Cloudflare blocks this host, as far as the limiter knows
    upload,     \* uploads
    call,       \* reads and deletes
    faults      \* history: faults so far

limits == <<remaining, closed, barred, blocked>>
vars == <<remaining, closed, inFlight, claims, barred, blocked, upload, call,
          faults>>

NoUpload == [pc |-> "new", pool |-> None, sender |-> None, relay |-> FALSE,
             attempt |-> 0]
NoCall == [pc |-> "new", op |-> None, sender |-> None, attempt |-> 0, round |-> 0]

TypeOK ==
    /\ remaining \in [Headers -> 0 .. Budget]
    /\ closed \subseteq Headers /\ barred \subseteq Telegram
    /\ inFlight \in [Senders -> Nat] /\ claims \in [Discord -> Nat]
    /\ blocked \in BOOLEAN
    /\ upload \in [Uploads ->
         [pc : {"new", "select", "ready", "send", "parse", "backoff", "done",
                "failed"},
          pool : Pools \cup {None}, sender : Senders \cup {None},
          relay : BOOLEAN, attempt : 0 .. MaxRetries]]
    /\ call \in [Calls ->
         [pc : {"new", "dial", "wait", "cdn", "again", "done", "failed"},
          op : {"read", "delete", None}, sender : Senders \cup {None},
          attempt : 0 .. MaxRetries, round : 0 .. MaxRetries]]
    /\ faults \in 0 .. MaxFaults

Init ==
    /\ remaining = [s \in Headers |-> Budget]
    /\ closed = {} /\ barred = {} /\ blocked = FALSE
    /\ inFlight = [s \in Senders |-> 0]
    /\ claims = [s \in Discord |-> 0]
    /\ upload = [u \in Uploads |-> NoUpload]
    /\ call = [c \in Calls |-> NoCall]
    /\ faults = 0

Fault == faults < MaxFaults /\ faults' = faults + 1

-----------------------------------------------------------------------------
(* The limiters                                                            *)

CanUse(s) ==
    IF s \in Telegram THEN s \notin barred /\ inFlight[s] = 0
                      ELSE s \notin closed \/ remaining[s] > inFlight[s]

Reserved(s) == inFlight' = [inFlight EXCEPT ![s] = @ + 1]
Released(s, n) ==
    inFlight' = [inFlight EXCEPT ![s] = IF @ > n THEN @ - n ELSE 0]

(* recordResponse: the headers replace what was known, whatever order the  *)
(* answers come in; some answers have none.                                *)
RecordResponse(s) ==
    IF s \in Telegram THEN UNCHANGED <<remaining, closed>>
    ELSE \/ UNCHANGED <<remaining, closed>>
         \/ /\ \E left \in 0 .. Budget : remaining' = [remaining EXCEPT ![s] = left]
            /\ closed' = closed \cup {s}

WindowResets(s) ==
    /\ \/ s \in closed /\ closed' = closed \ {s} /\ UNCHANGED barred
       \/ s \in barred /\ barred' = barred \ {s} /\ UNCHANGED closed
    /\ UNCHANGED <<remaining, inFlight, claims, blocked, upload, call, faults>>

BlockLifts ==
    /\ blocked /\ blocked' = FALSE
    /\ UNCHANGED <<remaining, closed, inFlight, claims, barred, upload, call, faults>>

-----------------------------------------------------------------------------
(* An upload picks a pool and a sender                                     *)

HasCapacity(s) == claims[s] < MaxPerSender
Usable(S) == {s \in S : CanUse(s) /\ (s \in Discord => HasCapacity(s))}

PoolSenders(pool) == CASE pool = "DISCORD" -> Discord
                       [] pool = "TELEGRAM" -> Telegram
                       [] pool = "REPLICA" -> Replicas

Striped == {p \in {"DISCORD", "TELEGRAM"} : PoolSenders(p) # {}}
Availability(pool) == Cardinality(Usable(PoolSenders(pool)))

(* getPrimaryPool: the pool with most senders to spare; the worker copies  *)
(* to the replica pool.                                                    *)
ChoosePool(u) ==
    /\ upload[u].pc = "new"
    /\ \E pool \in Pools :
         /\ \/ /\ pool \in Striped
               /\ \A p \in Striped : Availability(p) <= Availability(pool)
            \/ pool = "REPLICA" /\ Replicas # {}
         /\ upload' = [upload EXCEPT ![u].pc = "select", ![u].pool = pool]
    /\ UNCHANGED <<limits, inFlight, claims, call, faults>>

(* Direct webhooks, then bots, then the relay; within a tier the cursors   *)
(* spread the load, here any sender of it.                                 *)
Tier(S) == IF Usable(S \cap Direct) # {} THEN Usable(S \cap Direct)
           ELSE IF Usable(S \cap Bots) # {} THEN Usable(S \cap Bots)
           ELSE Usable(S)

(* Mutant: the Telegram bot is only reserved by uploadDocument. *)
SelectUnreserved(u) ==
    /\ upload[u].pc = "select"
    /\ \E s \in Tier(PoolSenders(upload[u].pool)) :
         /\ upload' = [upload EXCEPT ![u].pc = "ready", ![u].sender = s,
                                     ![u].relay = s \in Relay]
         /\ claims' = IF s \in Discord THEN [claims EXCEPT ![s] = @ + 1] ELSE claims
    /\ UNCHANGED <<limits, inFlight, call, faults>>

(* Selection and claim are one step: the primary Discord pool counts the   *)
(* upload, Telegram pools reserve the bot, the Discord replica pool does   *)
(* neither.                                                                *)
Select(u) ==
    /\ upload[u].pc = "select"
    /\ \E s \in Tier(PoolSenders(upload[u].pool)) :
         /\ upload' = [upload EXCEPT ![u].pc = "ready", ![u].sender = s,
                                     ![u].relay = s \in Relay]
         /\ claims' = IF s \in Discord THEN [claims EXCEPT ![s] = @ + 1] ELSE claims
         /\ IF s \in Telegram THEN Reserved(s) ELSE UNCHANGED inFlight
    /\ UNCHANGED <<limits, call, faults>>

-----------------------------------------------------------------------------
(* uploadChunk, uploadChunkBot and uploadDocument                          *)

Sender(u) == upload[u].sender

(* Mutant: the bot selection reserved is not given back. *)
FinishReserved(u, pc, n) ==
    /\ upload' = [upload EXCEPT ![u] = [NoUpload EXCEPT !.pc = pc]]
    /\ claims' = IF Sender(u) \in Discord
                   THEN [claims EXCEPT ![Sender(u)] = IF @ > 1 THEN @ - 1 ELSE 0]
                   ELSE claims
    /\ Released(Sender(u), n)

(* The upload ends, and the finally of the pool gives the sender back; n   *)
(* reservations of the attempt are released with it.                       *)
Finish(u, pc, n) ==
    /\ upload' = [upload EXCEPT ![u] = [NoUpload EXCEPT !.pc = pc]]
    /\ claims' = IF Sender(u) \in Discord
                   THEN [claims EXCEPT ![Sender(u)] = IF @ > 1 THEN @ - 1 ELSE 0]
                   ELSE claims
    /\ Released(Sender(u), IF Sender(u) \in Telegram THEN n + 1 ELSE n)

Post(u) ==
    /\ upload[u].pc = "ready"
    /\ upload' = [upload EXCEPT ![u].pc = "send"]
    /\ Reserved(Sender(u))
    /\ UNCHANGED <<limits, claims, call, faults>>

Backoff(u) ==
    /\ upload' = [upload EXCEPT ![u].pc = "backoff"]
    /\ UNCHANGED claims

(* Mutant: a relay that cannot be reached leaves its reservation. *)
PostBreaksReserved(u) ==
    /\ upload[u].pc = "send" /\ Fault
    /\ \/ /\ upload[u].attempt < MaxRetries /\ Backoff(u)
          /\ IF upload[u].relay THEN UNCHANGED inFlight ELSE Released(Sender(u), 1)
       \/ upload[u].attempt = MaxRetries /\ Finish(u, "failed", 1)
    /\ UNCHANGED <<limits, call>>

(* No answer: the connection fails, or the request takes a minute.  An     *)
(* upload through the relay goes on without it, and a bot's goes on at     *)
(* once or, unless it timed out, not at all.                               *)
PostBreaks(u) ==
    /\ upload[u].pc = "send" /\ Fault
    /\ \/ /\ upload[u].attempt < MaxRetries
          /\ Released(Sender(u), 1) /\ UNCHANGED claims
          /\ LET atOnce == upload[u].relay \/ Sender(u) \in Bots
             IN  upload' = [upload EXCEPT
                   ![u].relay = FALSE,
                   ![u].pc = IF atOnce THEN "ready" ELSE "backoff",
                   ![u].attempt = IF atOnce THEN @ + 1 ELSE @]
       \/ /\ upload[u].attempt = MaxRetries \/ Sender(u) \in Bots
          /\ Finish(u, "failed", 1)
    /\ UNCHANGED <<limits, call>>

(* Discord answers: 200; 429 or 5xx, tried again; anything else. *)
DiscordAnswers(u) ==
    /\ upload[u].pc = "send" /\ Sender(u) \in Headers
    /\ RecordResponse(Sender(u))
    /\ \/ Finish(u, "done", 1) /\ UNCHANGED faults
       \/ Fault /\ Backoff(u) /\ Released(Sender(u), 1)
       \/ Fault /\ Finish(u, "failed", 1)
    /\ UNCHANGED <<barred, blocked, call>>

(* Telegram answers; the envelope is read after the reservation is back. *)
TelegramAnswers(u) ==
    /\ upload[u].pc = "send" /\ Sender(u) \in Telegram
    /\ upload' = [upload EXCEPT ![u].pc = "parse"]
    /\ Released(Sender(u), 1)
    /\ UNCHANGED <<limits, claims, call, faults>>

Bar(s) == barred' = barred \cup {s}

TelegramParsed(u) ==
    /\ upload[u].pc = "parse"
    /\ \/ Bar(Sender(u)) /\ Finish(u, "done", 0) /\ UNCHANGED faults
       \/ Fault /\ Bar(Sender(u)) /\ Backoff(u) /\ UNCHANGED inFlight
       \/ Fault /\ UNCHANGED barred /\ Backoff(u) /\ UNCHANGED inFlight
       \/ Fault /\ UNCHANGED barred /\ Finish(u, "failed", 0)
    /\ UNCHANGED <<remaining, closed, blocked, call>>

(* A 429 on the last attempt is waited out all the same. *)
BackoffOver(u) ==
    /\ upload[u].pc = "backoff"
    /\ IF upload[u].attempt < MaxRetries
         THEN /\ upload' = [upload EXCEPT ![u].pc = "ready", ![u].attempt = @ + 1]
              /\ UNCHANGED <<claims, inFlight>>
         ELSE Finish(u, "failed", 0)
    /\ UNCHANGED <<limits, call, faults>>

-----------------------------------------------------------------------------
(* Reads and deletes: they keep the limiters, and do not wait for them     *)

Set(c, pc) ==
    call' = [call EXCEPT ![c] = IF pc \in {"done", "failed"}
                                  THEN [NoCall EXCEPT !.pc = pc]
                                  ELSE [@ EXCEPT !.pc = pc]]

(* getChunkUrl does not dial while the block it knows of lasts. *)
Dial(c, s, op, round) ==
    IF op = "read" /\ s \in Hooks /\ blocked
      THEN Set(c, "failed")
      ELSE call' = [call EXCEPT ![c] = [pc |-> "dial", op |-> op, sender |-> s,
                                        attempt |-> 0, round |-> round]]

StartCall(c) ==
    /\ call[c].pc = "new"
    /\ \E s \in Senders, op \in {"read", "delete"} : Dial(c, s, op, 0)
    /\ UNCHANGED <<limits, inFlight, claims, upload, faults>>

(* 200: a read has the address now; 404: for a delete as good as done. *)
CallAnswered(c) ==
    /\ call[c].pc = "dial"
    /\ RecordResponse(call[c].sender)
    /\ \/ /\ Set(c, IF call[c].op = "read" THEN "cdn" ELSE "done")
          /\ UNCHANGED faults
       \/ Fault /\ Set(c, IF call[c].op = "read" THEN "failed" ELSE "done")
    /\ UNCHANGED <<inFlight, claims, barred, blocked, upload>>

(* recordThrottle: the sender has nothing left. *)
Throttle(s) ==
    /\ remaining' = [remaining EXCEPT ![s] = 0]
    /\ closed' = closed \cup {s}

(* 429.  A read through a webhook gives up when Cloudflare blocks the host *)
(* or the wait is longer than a minute; the others wait.                   *)
CallThrottled(c) ==
    LET s == call[c].sender
    IN  /\ call[c].pc = "dial" /\ Fault
        /\ \/ /\ call[c].op = "read" /\ s \in Hooks
              /\ \/ blocked' = TRUE /\ Set(c, "failed") /\ UNCHANGED <<remaining, closed>>
                 \/ Throttle(s) /\ Set(c, "failed") /\ UNCHANGED blocked
                 \/ Throttle(s) /\ Set(c, "wait") /\ UNCHANGED blocked
              /\ UNCHANGED barred
           \/ /\ s \in Headers /\ ~(call[c].op = "read" /\ s \in Hooks)
              /\ RecordResponse(s) /\ Set(c, "wait")
              /\ UNCHANGED <<barred, blocked>>
           \/ /\ s \in Telegram
              /\ Bar(s) /\ Set(c, "wait")
              /\ UNCHANGED <<remaining, closed, blocked>>
        /\ UNCHANGED <<inFlight, claims, upload>>

(* A 5xx or no answer: again, or the end. *)
CallBreaks(c) ==
    /\ call[c].pc = "dial" /\ Fault
    /\ \/ call[c].attempt < MaxRetries /\ Set(c, "wait")
       \/ Set(c, "failed")
    /\ UNCHANGED <<limits, inFlight, claims, upload>>

(* The loop does not ask again whether Cloudflare blocks the host. *)
CallAgain(c) ==
    /\ call[c].pc = "wait"
    /\ IF call[c].attempt < MaxRetries
         THEN call' = [call EXCEPT ![c].pc = "dial", ![c].attempt = @ + 1]
         ELSE Set(c, "failed")
    /\ UNCHANGED <<limits, inFlight, claims, upload, faults>>

(* The bytes come from the CDN, which no limiter counts. *)
CdnAnswers(c) ==
    /\ call[c].pc = "cdn"
    /\ \/ Set(c, "done") /\ UNCHANGED faults
       \/ Fault /\ call[c].round < MaxRetries /\ Set(c, "again")
       \/ Fault /\ Set(c, "failed")
    /\ UNCHANGED <<limits, inFlight, claims, upload>>

CdnAgain(c) ==
    /\ call[c].pc = "again"
    /\ Dial(c, call[c].sender, "read", call[c].round + 1)
    /\ UNCHANGED <<limits, inFlight, claims, upload, faults>>

-----------------------------------------------------------------------------
UploadStep(u) ==
    \/ ChoosePool(u) \/ Select(u) \/ Post(u) \/ PostBreaks(u)
    \/ DiscordAnswers(u) \/ TelegramAnswers(u) \/ TelegramParsed(u)
    \/ BackoffOver(u)

CallStep(c) ==
    \/ StartCall(c) \/ CallAnswered(c) \/ CallThrottled(c) \/ CallBreaks(c)
    \/ CallAgain(c) \/ CdnAnswers(c) \/ CdnAgain(c)

Next ==
    \/ \E u \in Uploads : UploadStep(u)
    \/ \E c \in Calls : CallStep(c)
    \/ \E s \in Senders : WindowResets(s)
    \/ BlockLifts

(* Windows end, requests end within their timeout, and an upload polls for *)
(* a sender; the number of uploads is finite, so polling is enough.        *)
Fairness ==
    /\ \A s \in Senders : WF_vars(WindowResets(s))
    /\ \A u \in Uploads : WF_vars(UploadStep(u))
    /\ \A c \in Calls : WF_vars(CallStep(c))

Spec == Init /\ [][Next]_vars /\ Fairness

-----------------------------------------------------------------------------
Holds(u, s) == /\ upload[u].pc \in {"ready", "send", "parse", "backoff"}
               /\ Sender(u) = s
HeldBy(s) == {u \in Uploads : Holds(u, s)}
Posting(s) == {u \in HeldBy(s) : upload[u].pc = "send"}

(* Whatever way uploads end, retry or fall back, the counters say what is  *)
(* going on: a claim for every upload a primary Discord sender works on,   *)
(* two at most, and a reservation for every request, and for every upload  *)
(* a Telegram bot works on.  A leak would take a sender out for good.      *)
SendersAccounted ==
    /\ \A s \in Discord : /\ claims[s] = Cardinality(HeldBy(s))
                          /\ claims[s] <= MaxPerSender
    /\ \A s \in Headers : inFlight[s] = Cardinality(Posting(s))
    /\ \A s \in Telegram :
         inFlight[s] = Cardinality(Posting(s)) + Cardinality(HeldBy(s))

(* A Telegram bot works on one upload at a time, however many ask at once. *)
TelegramSerial == \A s \in Telegram : Cardinality(HeldBy(s)) <= 1

(* Every upload a pool was asked for succeeds or fails: none waits for a   *)
(* sender for ever.                                                        *)
UploadsEnd ==
    \A u \in Uploads :
        upload[u].pc = "select" ~> upload[u].pc \in {"done", "failed"}

(* No read dials while Cloudflare is known to block the host.  The code    *)
(* asks before the first attempt only.                                     *)
NoDialWhileBlocked ==
    [][\A c \in Calls :
         call'[c].op = "read" /\ call'[c].sender \in Hooks
           /\ call[c].pc # "dial" /\ call'[c].pc = "dial" => ~blocked]_vars

=============================================================================
