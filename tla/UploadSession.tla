--------------------------- MODULE UploadSession ---------------------------
(***************************************************************************)
(* One upload from a browser: the signed-in pipeline of lib/upload.ts with *)
(* its row in the upload store, or the anonymous one of lib/anonUpload.ts. *)
(*                                                                         *)
(* Workers share one pass over the file, each chunk is PUT with retries, a *)
(* failed pass is resumed against what the server says it holds, and the   *)
(* manifest commit is retried and, in the end, looked up.  JavaScript runs *)
(* one task at a time, so a step is the code between two awaits; a request *)
(* the browser gave up on may still reach the server (ghosts).             *)
(***************************************************************************)
EXTENDS Integers, Sequences, FiniteSets

CONSTANTS
    MaxChunks,   \* bound: chunks of the largest file
    MaxWorkers,  \* CONCURRENCY
    Attempts,    \* CHUNK_MAX_ATTEMPTS
    Passes,      \* RESUME_MAX_ATTEMPTS
    MaxFaults    \* bound: how many requests and file reads may fail

ASSUME UploadAssumption ==
    /\ MaxChunks \in Nat /\ MaxFaults \in Nat
    /\ {MaxWorkers, Attempts, Passes} \subseteq Nat \ {0}

VARIABLES
    mode,       \* "user" or "anon": which pipeline
    count,      \* chunkCount of the file
    phase,      \* where uploadFile is
    pass,       \* which pass over the file
    row,        \* status of the row in the upload store
    aborted,    \* controller.signal.aborted
    iter,       \* the shared chunk iterator and its mutex
    worker,     \* the workers of the pass
    done,       \* doneChunks: no, acked, or skipped without a record
    serverHas,  \* serverHasChunks
    server,     \* status of the File row, and the chunks with a row
    ghosts,     \* chunks of PUTs nobody waits for any more
    commit,     \* the commitManifest request
    cancelled,  \* history: the user cancelled the row shown
    faults      \* history: faults so far

transfer == <<iter, worker, done>>
vars == <<mode, count, phase, pass, row, aborted, iter, worker, done,
          serverHas, server, ghosts, commit, cancelled, faults>>

AllChunks == 0 .. MaxChunks - 1
Workers == 1 .. MaxWorkers
Chunks == 0 .. count - 1
Last == count - 1     \* the chunk that doubles as the manifest
Terminal == {"DONE", "FAILED", "CANCELLED"}
Ended == phase \in {"returned", "thrown"}

Off == [pc |-> "off", chunk |-> 0, attempt |-> 0, landed |-> FALSE, why |-> "none"]
At(pc) == [Off EXCEPT !.pc = pc]
Failed(why) == [Off EXCEPT !.pc = "failed", !.why = why]
Sending(c, n) == [Off EXCEPT !.pc = "send", !.chunk = c, !.attempt = n]
Settled(w) == worker[w].pc \in {"off", "ok", "failed"}
NoCommit == [attempt |-> 0, answer |-> "none", ghost |-> FALSE]

(* The blob records the commit will carry: a chunk the server was found to *)
(* hold has none.                                                          *)
Records == {c \in Chunks : done[c] = "acked"}

TypeOK ==
    /\ mode \in {"user", "anon"} /\ count \in 0 .. MaxChunks
    /\ phase \in {"init", "pass", "query", "resume", "commit", "again",
                  "recover", "returned", "thrown"}
    /\ pass \in 0 .. Passes
    /\ row \in Terminal \cup {"UPLOADING", "COMMITTING_MANIFEST", "absent"}
    /\ aborted \in BOOLEAN /\ cancelled \in BOOLEAN
    /\ iter \in [locked : BOOLEAN, at : 0 .. MaxChunks, waiters : Seq(Workers)]
    /\ worker \in [Workers ->
         [pc : {"off", "next", "wait", "woken", "read", "send", "backoff",
                "ok", "failed"},
          chunk : Nat, attempt : 0 .. Attempts, landed : BOOLEAN,
          why : {"none", "abort", "definitive", "network"}]]
    /\ done \in [AllChunks -> {"no", "acked", "skipped"}]
    /\ serverHas \subseteq AllChunks /\ ghosts \subseteq AllChunks
    /\ server \in [status : {"none", "UPLOADING", "READY"},
                   stored : SUBSET AllChunks]
    /\ commit \in [attempt : 0 .. Attempts, answer : {"none", "ok", "error"},
                   ghost : BOOLEAN]
    /\ faults \in 0 .. MaxFaults

Init ==
    /\ mode \in {"user", "anon"} /\ count \in 0 .. MaxChunks
    /\ phase = "init" /\ pass = 0
    /\ row = IF mode = "user" THEN "UPLOADING" ELSE "absent"
    /\ aborted = FALSE /\ cancelled = FALSE
    /\ iter = [locked |-> FALSE, at |-> 0, waiters |-> <<>>]
    /\ worker = [w \in Workers |-> Off]
    /\ done = [c \in AllChunks |-> "no"]
    /\ serverHas = {} /\ ghosts = {}
    /\ server = [status |-> "none", stored |-> {}]
    /\ commit = NoCommit /\ faults = 0

Fault == faults < MaxFaults /\ faults' = faults + 1

-----------------------------------------------------------------------------
(* The row of the upload, and the ways uploadFile ends                     *)

(* Mutant: a cancelled row takes updates. *)
UpdateAlways(status) == row' = IF row = "absent" THEN row ELSE status

(* updateUpload: no row, no update; CANCELLED is not left again. *)
Update(status) ==
    row' = IF row = "absent" \/ row = "CANCELLED" THEN row ELSE status

Return ==
    /\ phase' = "returned"
    /\ Update("DONE")
    /\ UNCHANGED aborted

(* The catch clause; the anonymous pipeline has neither row nor signal. *)
Throw ==
    /\ phase' = "thrown"
    /\ Update(IF aborted THEN "CANCELLED" ELSE "FAILED")
    /\ aborted' = (mode = "user")

(* A worker of the pass before, were there one left, would go on. *)
StartPass(n) ==
    /\ phase' = "pass" /\ pass' = n
    /\ iter' = [locked |-> FALSE, at |-> 0, waiters |-> <<>>]
    /\ worker' = [w \in Workers |-> IF ~Settled(w) THEN worker[w]
                                     ELSE IF w <= count THEN At("next") ELSE Off]

InitLands ==
    /\ phase = "init" /\ server.status = "none"
    /\ server' = [server EXCEPT !.status = "UPLOADING"]
    /\ UNCHANGED <<mode, count, phase, pass, row, aborted, transfer, serverHas,
                   ghosts, commit, cancelled, faults>>

(* The placeholder row makes way for one with the real id. *)
InitAnswered ==
    /\ phase = "init" /\ server.status = "UPLOADING"
    /\ row' = IF mode = "anon" THEN "absent"
              ELSE IF aborted THEN "CANCELLED" ELSE "UPLOADING"
    /\ IF aborted THEN phase' = "thrown" /\ UNCHANGED <<pass, iter, worker>>
                  ELSE StartPass(1)
    /\ UNCHANGED <<mode, count, aborted, done, serverHas, server, ghosts,
                   commit, cancelled, faults>>

InitFails ==
    /\ phase = "init" /\ Fault /\ Throw
    /\ UNCHANGED <<mode, count, pass, transfer, serverHas, server, ghosts,
                   commit, cancelled>>

(* The X of the row shown. *)
Cancel ==
    /\ row \notin Terminal \cup {"absent"}
    /\ aborted' = TRUE /\ cancelled' = TRUE
    /\ Update("CANCELLED")
    /\ UNCHANGED <<mode, count, phase, pass, transfer, serverHas, server,
                   ghosts, commit, faults>>

(* The X of the placeholder, clicked before the view shows the real row:   *)
(* the controller is still registered under the placeholder's id, the row  *)
(* is not there any more.                                                  *)
CancelPlaceholder ==
    /\ mode = "user" /\ phase # "init" /\ ~Ended /\ ~aborted
    /\ aborted' = TRUE
    /\ UNCHANGED <<mode, count, phase, pass, row, transfer, serverHas, server,
                   ghosts, commit, cancelled, faults>>

(* UploadProgress drops a finished row after three seconds. *)
RemoveRow ==
    /\ row \in Terminal
    /\ row' = "absent"
    /\ UNCHANGED <<mode, count, phase, pass, aborted, transfer, serverHas,
                   server, ghosts, commit, cancelled, faults>>

-----------------------------------------------------------------------------
(* The workers of a pass                                                   *)

Elsewhere == UNCHANGED <<mode, count, phase, pass, row, aborted, serverHas,
                         server, commit, cancelled>>

(* The signal is aborted; the anonymous pipeline has none. *)
Stop == aborted /\ mode = "user"

Go(w, state) == worker' = [worker EXCEPT ![w] = state]

(* nextChunk: take the mutex, or join those who wait for it. *)
Lock(w) ==
    IF iter.locked
      THEN /\ iter' = [iter EXCEPT !.waiters = Append(@, w)]
           /\ Go(w, At("wait"))
      ELSE /\ iter' = [iter EXCEPT !.locked = TRUE]
           /\ Go(w, At("read"))

(* Mutant: nobody is woken. *)
UnlockSilently(w, at, state) ==
    /\ iter' = [iter EXCEPT !.locked = FALSE, !.at = at]
    /\ Go(w, state)

(* The finally of nextChunk wakes the first who waits. *)
Unlock(w, at, state) ==
    LET first == IF iter.waiters = <<>> THEN {} ELSE {Head(iter.waiters)}
    IN  /\ iter' = [locked |-> FALSE, at |-> at,
                    waiters |-> IF first = {} THEN <<>> ELSE Tail(iter.waiters)]
        /\ worker' = [v \in Workers |-> IF v = w THEN state
                                        ELSE IF v \in first THEN At("woken")
                                        ELSE worker[v]]

Loop(w) ==
    /\ worker[w].pc = "next"
    /\ IF Stop
         THEN Go(w, Failed("abort")) /\ UNCHANGED iter
         ELSE Lock(w)
    /\ UNCHANGED <<done, ghosts, faults>> /\ Elsewhere

(* A woken worker takes the mutex without looking at the signal. *)
Woken(w) ==
    /\ worker[w].pc = "woken"
    /\ Lock(w)
    /\ UNCHANGED <<done, ghosts, faults>> /\ Elsewhere

(* What uploadChunk does before its first await. *)
Read(w) ==
    LET c == iter.at
    IN  /\ worker[w].pc = "read"
        /\ \/ /\ c = count
              /\ Unlock(w, c, At("ok"))
              /\ UNCHANGED done
           \/ /\ c < count /\ Stop
              /\ Unlock(w, c + 1, Failed("abort"))
              /\ UNCHANGED done
           \/ /\ c < count /\ ~Stop /\ done[c] # "no"
              /\ Unlock(w, c + 1, At("next"))
              /\ UNCHANGED done
           \/ /\ c < count /\ ~Stop /\ done[c] = "no"
              /\ c \in serverHas
              /\ Unlock(w, c + 1, At("next"))
              /\ done' = [done EXCEPT ![c] = "skipped"]
           \/ /\ c < count /\ ~Stop /\ done[c] = "no"
              /\ c \notin serverHas
              /\ Unlock(w, c + 1, Sending(c, 1))
              /\ UNCHANGED done
        /\ UNCHANGED <<ghosts, faults>> /\ Elsewhere

(* A generator that threw is done: the other workers find no more chunks. *)
ReadFails(w) ==
    /\ worker[w].pc = "read" /\ Fault
    /\ Unlock(w, count, Failed("network"))
    /\ UNCHANGED <<done, ghosts>> /\ Elsewhere

PutLands(w) ==
    /\ worker[w].pc = "send" /\ ~worker[w].landed
    /\ Go(w, [worker[w] EXCEPT !.landed = TRUE])
    /\ server' = [server EXCEPT !.stored = @ \cup {worker[w].chunk}]
    /\ UNCHANGED <<mode, count, phase, pass, row, aborted, iter, done,
                   serverHas, ghosts, commit, cancelled, faults>>

(* A response already read when the upload is aborted still counts. *)
Ack(w) ==
    /\ worker[w].pc = "send" /\ worker[w].landed
    /\ done' = [done EXCEPT ![worker[w].chunk] = "acked"]
    /\ Go(w, At("next"))
    /\ UNCHANGED <<iter, ghosts, faults>> /\ Elsewhere

Forsake(w) ==
    ghosts' = IF worker[w].landed THEN ghosts ELSE ghosts \cup {worker[w].chunk}

(* Mutant: the last attempt of a chunk gives up without an error. *)
PutFailsQuietly(w) ==
    /\ worker[w].pc = "send" /\ Fault
    /\ Forsake(w)
    /\ Go(w, IF worker[w].attempt = Attempts THEN At("next")
             ELSE [worker[w] EXCEPT !.pc = "backoff", !.landed = FALSE])
    /\ UNCHANGED <<iter, done>> /\ Elsewhere

(* The connection breaks, or the API answers 5xx. *)
PutFails(w) ==
    /\ worker[w].pc = "send" /\ Fault
    /\ Forsake(w)
    /\ Go(w, IF Stop THEN Failed("abort")
             ELSE IF mode = "anon" \/ worker[w].attempt = Attempts
                    THEN Failed("network")
                    ELSE [worker[w] EXCEPT !.pc = "backoff", !.landed = FALSE])
    /\ UNCHANGED <<iter, done>> /\ Elsewhere

(* A 4xx, the session expired for instance. *)
PutRefused(w) ==
    /\ worker[w].pc = "send" /\ ~worker[w].landed /\ Fault
    /\ Go(w, Failed(IF Stop THEN "abort" ELSE "definitive"))
    /\ UNCHANGED <<iter, done, ghosts>> /\ Elsewhere

BackoffOver(w) ==
    /\ worker[w].pc = "backoff" /\ ~aborted
    /\ Go(w, Sending(worker[w].chunk, worker[w].attempt + 1))
    /\ UNCHANGED <<iter, done, ghosts, faults>> /\ Elsewhere

(* The signal rejects the fetch, or the delay between two. *)
SignalStops(w) ==
    /\ Stop
    /\ \/ worker[w].pc = "send" /\ Forsake(w)
       \/ worker[w].pc = "backoff" /\ UNCHANGED ghosts
    /\ Go(w, Failed("abort"))
    /\ UNCHANGED <<iter, done, faults>> /\ Elsewhere

(* A PUT the browser gave up on reaches the server after all. *)
GhostLands(c) ==
    /\ c \in ghosts
    /\ ghosts' = ghosts \ {c}
    /\ server' = [server EXCEPT !.stored = @ \cup {c}]
    /\ UNCHANGED <<mode, count, phase, pass, row, aborted, transfer, serverHas,
                   commit, cancelled, faults>>

-----------------------------------------------------------------------------
(* The passes, and the commit                                              *)

StartCommit ==
    IF Stop THEN Throw /\ UNCHANGED commit
    ELSE /\ phase' = "commit"
         /\ commit' = [commit EXCEPT !.attempt = 1]
         /\ Update("COMMITTING_MANIFEST")
         /\ UNCHANGED aborted

(* Mutant: all in place of allSettled, as in the anonymous pipeline. *)
PassEndsEarly ==
    /\ phase = "pass" /\ mode = "user"
    /\ \/ (\A w \in Workers : Settled(w)) /\ StartCommit
       \/ /\ \E w \in Workers : worker[w].pc = "failed"
          /\ pass < Passes /\ phase' = "query"
          /\ UNCHANGED <<row, aborted, commit>>
    /\ UNCHANGED <<mode, count, pass, transfer, serverHas, server, ghosts,
                   cancelled, faults>>

(* allSettled: every worker has ended.  The first failure decides. *)
PassEnds ==
    /\ phase = "pass" /\ mode = "user"
    /\ \A w \in Workers : Settled(w)
    /\ LET failed == {w \in Workers : worker[w].pc = "failed"}
           first == CHOOSE w \in failed : \A v \in failed : w <= v
       IN  \/ failed = {} /\ StartCommit
           \/ /\ failed # {} /\ UNCHANGED commit
              /\ \/ aborted \/ worker[first].why = "definitive" \/ pass = Passes
              /\ Throw
           \/ /\ failed # {} /\ UNCHANGED <<row, aborted, commit>>
              /\ ~aborted /\ worker[first].why # "definitive" /\ pass < Passes
              /\ phase' = "query"
    /\ UNCHANGED <<mode, count, pass, transfer, serverHas, server, ghosts,
                   cancelled, faults>>

(* Promise.all: the first failure ends the upload, the others go on. *)
AnonPassEnds ==
    /\ phase = "pass" /\ mode = "anon"
    /\ \/ (\A w \in Workers : worker[w].pc \in {"off", "ok"}) /\ StartCommit
       \/ (\E w \in Workers : worker[w].pc = "failed") /\ Throw /\ UNCHANGED commit
    /\ UNCHANGED <<mode, count, pass, transfer, serverHas, server, ghosts,
                   cancelled, faults>>

(* uploadStatus, best effort. *)
Query ==
    /\ phase = "query" /\ phase' = "resume"
    /\ \/ serverHas' = server.stored /\ UNCHANGED faults
       \/ Fault /\ UNCHANGED serverHas
    /\ UNCHANGED <<mode, count, pass, row, aborted, transfer, server, ghosts,
                   commit, cancelled>>

(* A signal aborted before the delay began does not cut it short. *)
Resume ==
    /\ phase = "resume"
    /\ StartPass(pass + 1)
    /\ UNCHANGED <<mode, count, row, aborted, done, serverHas, server, ghosts,
                   commit, cancelled, faults>>

SignalEnds ==
    /\ phase \in {"resume", "commit", "again"} /\ Stop
    /\ Throw
    /\ commit' = [commit EXCEPT !.ghost =
                    @ \/ (phase = "commit" /\ commit.answer = "none")]
    /\ UNCHANGED <<mode, count, pass, transfer, serverHas, server, ghosts,
                   cancelled, faults>>

(* commitManifest on the server: one transaction. *)
Committable == server.status = "UPLOADING" /\ Last \in Records

Commit ==
    server' = IF Committable
                THEN [status |-> "READY", stored |-> server.stored \cup Records]
                ELSE server

CommitLands ==
    /\ phase = "commit" /\ commit.answer = "none"
    /\ Commit
    /\ commit' = [commit EXCEPT !.answer = IF Committable THEN "ok" ELSE "error"]
    /\ UNCHANGED <<mode, count, phase, pass, row, aborted, transfer, serverHas,
                   ghosts, cancelled, faults>>

GhostCommits ==
    /\ commit.ghost /\ Commit
    /\ commit' = [commit EXCEPT !.ghost = FALSE]
    /\ UNCHANGED <<mode, count, phase, pass, row, aborted, transfer, serverHas,
                   ghosts, cancelled, faults>>

CommitOk ==
    /\ phase = "commit" /\ commit.answer = "ok"
    /\ Return
    /\ UNCHANGED <<mode, count, pass, transfer, serverHas, server, ghosts,
                   commit, cancelled, faults>>

(* The answer is an error, or none comes. *)
CommitFails ==
    /\ phase = "commit"
    /\ \/ commit.answer = "error" /\ UNCHANGED faults
       \/ Fault
    /\ \/ (Stop \/ mode = "anon") /\ Throw
       \/ /\ ~Stop /\ mode = "user" /\ UNCHANGED <<row, aborted>>
          /\ phase' = IF commit.attempt = Attempts THEN "recover" ELSE "again"
    /\ commit' = [commit EXCEPT !.ghost = @ \/ commit.answer = "none"]
    /\ UNCHANGED <<mode, count, pass, transfer, serverHas, server, ghosts,
                   cancelled>>

CommitAgain ==
    /\ phase = "again" /\ ~aborted
    /\ phase' = "commit"
    /\ commit' = [commit EXCEPT !.attempt = @ + 1, !.answer = "none"]
    /\ UNCHANGED <<mode, count, pass, row, aborted, transfer, serverHas, server,
                   ghosts, cancelled, faults>>

(* Mutant: a failed commit is taken for one whose answer was lost. *)
RecoverTrusting ==
    /\ phase = "recover" /\ Return
    /\ UNCHANGED <<mode, count, pass, transfer, serverHas, server, ghosts,
                   commit, cancelled, faults>>

(* The last resort does not look at the signal. *)
Recover ==
    /\ phase = "recover"
    /\ \/ server.status = "READY" /\ Return /\ UNCHANGED faults
       \/ server.status # "READY" /\ Throw /\ UNCHANGED faults
       \/ Fault /\ Throw
    /\ UNCHANGED <<mode, count, pass, transfer, serverHas, server, ghosts,
                   commit, cancelled>>

-----------------------------------------------------------------------------
WorkerStep(w) ==
    \/ Loop(w) \/ Woken(w) \/ Read(w) \/ ReadFails(w)
    \/ PutLands(w) \/ Ack(w) \/ PutFails(w) \/ PutRefused(w)
    \/ BackoffOver(w) \/ SignalStops(w)

SessionStep ==
    \/ InitLands \/ InitAnswered \/ InitFails
    \/ PassEnds \/ AnonPassEnds \/ Query \/ Resume \/ SignalEnds
    \/ CommitLands \/ CommitOk \/ CommitFails \/ CommitAgain \/ Recover

Next ==
    \/ SessionStep
    \/ \E w \in Workers : WorkerStep(w)
    \/ Cancel \/ CancelPlaceholder \/ RemoveRow \/ GhostCommits
    \/ \E c \in ghosts : GhostLands(c)

(* Every request is answered or breaks, and every delay ends.  Nothing     *)
(* makes the user click, or a request the browser forgot arrive.           *)
Fairness ==
    /\ WF_vars(SessionStep)
    /\ \A w \in Workers : WF_vars(WorkerStep(w))

Spec == Init /\ [][Next]_vars /\ Fairness

-----------------------------------------------------------------------------
(* A file the server calls READY has a row for every chunk of it, however  *)
(* its chunks were retried, skipped or resumed (commitManifest itself does *)
(* not count them).                                                        *)
ReadyIsComplete == server.status = "READY" => Chunks \subseteq server.stored

(* The browser says an upload is done only when the server can serve it,   *)
(* also when the answer to the commit was lost.                            *)
DoneIsReady == phase = "returned" \/ row = "DONE" => server.status = "READY"

(* No two workers ever send the same chunk at the same time: a resumed     *)
(* pass has to wait for the stragglers of the one before.                  *)
OneSenderPerChunk ==
    \A v, w \in Workers :
        /\ v # w
        /\ worker[v].pc \in {"send", "backoff"}
        /\ worker[w].pc \in {"send", "backoff"}
        => worker[v].chunk # worker[w].chunk

(* A row the user cancelled never shows anything else again, though the    *)
(* pipeline is still unwinding, may swap the row or may even succeed, and   *)
(* once the signal is aborted no worker starts a PUT.                       *)
CancelIsFinal ==
    [][/\ cancelled => row' \in {"CANCELLED", "absent"}
       /\ \A w \in Workers : Stop /\ worker'[w].pc = "send"
            => worker[w].pc = "send" /\ worker'[w].chunk = worker[w].chunk]_vars

(* uploadFile returns or throws, and every worker of it ends: no worker    *)
(* waits for the iterator for ever.                                        *)
Terminates == <>(Ended /\ \A w \in Workers : Settled(w))

(* A resume makes up for what the chunk retries could not: after it the    *)
(* commit names the chunk that stands for the manifest.  The code breaks   *)
(* this when the acknowledgement of the last chunk was lost.               *)
ResumedUploadCommits == phase = "commit" /\ count > 0 => Last \in Records

=============================================================================
