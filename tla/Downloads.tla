----------------------------- MODULE Downloads -----------------------------
(***************************************************************************)
(* Getting the bytes of one file back: the downloads of the web client,    *)
(* which pull its chunks into memory with a pool of workers and save them  *)
(* as a file, the progress entry they share in the download store, and the *)
(* range requests of a media element, which the API answers from the       *)
(* chunks that cover the range - while the file may go to the trash or be  *)
(* purged.                                                                 *)
(*                                                                         *)
(* In the browser everything between two answers, timeouts or clicks is    *)
(* one step, and so is what the API does between two awaits.               *)
(***************************************************************************)
EXTENDS Integers, Sequences, FiniteSets

CONSTANTS
    Calls,      \* downloadFile calls for the file
    Streams,    \* range requests
    Pool,       \* DOWNLOAD_CONCURRENCY
    Retries,    \* MAX_CHUNK_RETRIES
    MaxChunks,  \* bound: chunks of the file
    MaxSize,    \* bound: bytes of a chunk
    None        \* no call

ASSUME DownloadsAssumption ==
    /\ Pool \in Nat \ {0} /\ Retries \in Nat
    /\ MaxChunks \in Nat \ {0} /\ MaxSize \in Nat
    /\ None \notin Calls

VARIABLES
    anonymous,   \* the file is an anonymous session's
    size,        \* the plaintext size of each chunk
    server,      \* the file on the server: "ready", "trashed" or "purged"
    call,        \* the downloadFile calls
    entry,       \* the file's entry in the download store
    controller,  \* the call whose AbortController the store has
    dismissing,  \* the timer that removes the entry is running
    stream       \* the range requests

vars == <<anonymous, size, server, call, entry, controller, dismissing, stream>>
fileVars == <<anonymous, size>>
pageVars == <<call, entry, controller, dismissing>>

Count == Len(size)
Chunks == 1 .. Count

(* Where chunk i begins in the file. *)
Offset(i) ==
    LET sum[k \in 1 .. Count + 1] == IF k = 1 THEN 0 ELSE sum[k - 1] + size[k - 1]
    IN  sum[i]
Total == Offset(Count + 1)

Workers == 1 .. Pool
Off == [chunk |-> 0, attempt |-> 0]
On(i) == [chunk |-> i, attempt |-> 0]

NoEntry == [shown |-> FALSE, status |-> "FAILED", got |-> 0]
NewEntry == [shown |-> TRUE, status |-> "DOWNLOADING", got |-> 0]
NewCall == [pc |-> "idle", tracked |-> FALSE, cursor |-> 1, got |-> {},
            worker |-> [w \in Workers |-> Off], cancelled |-> FALSE, alone |-> FALSE]

(* The Range header: none; "bytes=first-last", or "bytes=first-" with a    *)
(* last past the end; "bytes=-last", the last bytes of the file; others.   *)
Headers == {"none", "range", "suffix", "other"}

NewStream == [pc |-> "idle", header |-> "none", first |-> 0, last |-> 0,
              at |-> 1, until |-> 1, body |-> <<>>]

Places == 0 .. MaxChunks * MaxSize + 1

PageTypes ==
    /\ anonymous \in BOOLEAN
    /\ size \in Seq(0 .. MaxSize) /\ Count \in 1 .. MaxChunks
    /\ server \in {"ready", "trashed", "purged"}
    /\ call \in [Calls -> [pc : {"idle", "listing", "pulling", "saved", "failed"},
                           tracked : BOOLEAN, cursor : 1 .. Count + 1,
                           got : SUBSET Chunks,
                           worker : [Workers -> [chunk : 0 .. Count, attempt : 0 .. Retries]],
                           cancelled : BOOLEAN, alone : BOOLEAN]]
    /\ entry \in [shown : BOOLEAN, status : {"DOWNLOADING", "DONE", "FAILED"},
                  got : 0 .. Count]
    /\ controller \in Calls \cup {None}
    /\ dismissing \in BOOLEAN

TypeOK ==
    /\ PageTypes
    /\ \A s \in Streams :
         /\ stream[s].pc \in {"idle", "found", "reading", "done", "refused",
                              "invalid", "unsatisfiable", "failed"}
         /\ stream[s].header \in Headers
         /\ stream[s].first \in Places /\ stream[s].last \in Places
         /\ stream[s].at \in Chunks /\ stream[s].until \in Chunks
         /\ stream[s].body \in Seq(0 .. Total - 1)

Init ==
    /\ anonymous \in BOOLEAN
    /\ size \in UNION {[1 .. n -> 0 .. MaxSize] : n \in 1 .. MaxChunks}
    /\ server = "ready"
    /\ call = [c \in Calls |-> NewCall]
    /\ entry = NoEntry
    /\ controller = None
    /\ dismissing = FALSE
    /\ stream = [s \in Streams |-> NewStream]

-----------------------------------------------------------------------------
(* The download store: updateDownload changes an entry that is there.      *)

Shown(status) == IF entry.shown THEN [entry EXCEPT !.status = status] ELSE entry
Progress(n) == IF entry.shown THEN [entry EXCEPT !.got = n] ELSE entry

Running(c) == call[c].pc \in {"listing", "pulling"}
Quiet(c) == ~Running(c) /\ \A w \in Workers : call[c].worker[w] = Off

(* Bound: downloads look at no sizes and share only the file with range    *)
(* requests, so a behaviour has downloads, of even chunks, or requests.    *)
BoundDownloads == (\A s \in Streams : stream[s].pc = "idle")
                  /\ \A i \in Chunks : size[i] = MaxSize
BoundStreams == \A c \in Calls : call[c].pc = "idle"

(* The pool: the workers take the first chunks.  All of them fail at once  *)
(* if the download has been cancelled.                                     *)
Pulling(cl) ==
    IF cl.cancelled THEN [cl EXCEPT !.pc = "failed"]
    ELSE [cl EXCEPT
            !.pc = "pulling",
            !.cursor = IF Pool < Count THEN Pool + 1 ELSE Count + 1,
            !.worker = [w \in Workers |-> IF w <= Count THEN On(w) ELSE Off]]

(* Mutant: the controller is not registered. *)
StartUnregistered(c) ==
    /\ call[c].pc = "idle" /\ BoundDownloads
    /\ server = "ready"
    /\ \E tracked \in BOOLEAN :
         LET new == [NewCall EXCEPT !.pc = "listing", !.tracked = tracked,
                       !.alone = ~entry.shown /\ ~dismissing /\ \A d \in Calls : Quiet(d)]
         IN  /\ tracked => ~anonymous
             /\ call' = [d \in Calls |->
                           IF d # c THEN [call[d] EXCEPT !.alone = FALSE]
                           ELSE IF anonymous THEN Pulling(new) ELSE new]
             /\ entry' = IF tracked THEN NewEntry ELSE Shown("DOWNLOADING")
    /\ UNCHANGED <<controller, fileVars, server, dismissing, stream>>

(* The user downloads the file: from the dashboard, which adds an entry to *)
(* the store first, or from a page that does not (an anonymous drive,      *)
(* which knows the number of chunks; the video player, which does not).    *)
(* History: alone if nothing of an earlier download is left.               *)
Start(c) ==
    /\ call[c].pc = "idle" /\ BoundDownloads
    /\ server = "ready"
    /\ \E tracked \in BOOLEAN :
         LET new == [NewCall EXCEPT !.pc = "listing", !.tracked = tracked,
                       !.alone = ~entry.shown /\ ~dismissing /\ \A d \in Calls : Quiet(d)]
         IN  /\ tracked => ~anonymous
             /\ call' = [d \in Calls |->
                           IF d # c THEN [call[d] EXCEPT !.alone = FALSE]
                           ELSE IF anonymous THEN Pulling(new) ELSE new]
             /\ entry' = IF tracked THEN NewEntry ELSE Shown("DOWNLOADING")
    /\ controller' = c
    /\ UNCHANGED <<fileVars, server, dismissing, stream>>

Fail(c) == Shown(IF call[c].tracked THEN "FAILED" ELSE entry.status)

(* Mutant: the pool does not look whether the download was cancelled. *)
ListedRegardless(c) ==
    /\ call[c].pc = "listing" /\ server # "purged"
    /\ call' = [call EXCEPT ![c] = [Pulling([@ EXCEPT !.cancelled = FALSE])
                                      EXCEPT !.cancelled = call[c].cancelled]]
    /\ entry' = Shown("DOWNLOADING")
    /\ UNCHANGED <<fileVars, server, controller, dismissing, stream>>

(* The answer to the uploadStatus query, which nothing aborts. *)
Listed(c) ==
    /\ call[c].pc = "listing" /\ server # "purged"
    /\ call' = [call EXCEPT ![c] = Pulling(@)]
    /\ entry' = IF call[c].cancelled THEN Fail(c) ELSE Shown("DOWNLOADING")
    /\ UNCHANGED <<fileVars, server, controller, dismissing, stream>>

ListFails(c) ==
    /\ call[c].pc = "listing"
    /\ call' = [call EXCEPT ![c].pc = "failed"]
    /\ entry' = Fail(c)
    /\ UNCHANGED <<fileVars, server, controller, dismissing, stream>>

(* What GET /api/blob serves: the owner gets the chunks until they are     *)
(* purged, an anonymous session only those of a file not in the trash.     *)
Served == server = "ready" \/ (server = "trashed" /\ ~anonymous)

(* A worker has its chunk and takes the next one.  When the last worker    *)
(* ends, the chunks are saved, unless one of them has failed.              *)
Fetched(c, w) ==
    LET i == call[c].worker[w].chunk
        more == call[c].cursor <= Count
        got == call[c].got \cup {i}
        last == ~more /\ \A v \in Workers \ {w} : call[c].worker[v] = Off
        saved == last /\ call[c].pc = "pulling"
    IN  /\ i # 0 /\ Served
        /\ call' = [call EXCEPT
             ![c].got = got,
             ![c].worker[w] = IF more THEN On(call[c].cursor) ELSE Off,
             ![c].cursor = IF more THEN @ + 1 ELSE @,
             ![c].pc = IF saved THEN "saved" ELSE @]
        /\ entry' = LET e == Progress(Cardinality(got))
                    IN  IF saved /\ e.shown THEN [e EXCEPT !.status = "DONE"] ELSE e
        /\ UNCHANGED <<fileVars, server, controller, dismissing, stream>>

(* Mutant: after the last retry the count begins anew. *)
TimesOutForEver(c, w) ==
    /\ call[c].worker[w] # Off
    /\ call' = [call EXCEPT ![c].worker[w].attempt = IF @ < Retries THEN @ + 1 ELSE 0]
    /\ UNCHANGED <<fileVars, server, entry, controller, dismissing, stream>>

(* CHUNK_TIMEOUT_MS passes; the chunk is asked for again. *)
TimesOut(c, w) ==
    /\ call[c].worker[w] # Off
    /\ call[c].worker[w].attempt < Retries
    /\ call' = [call EXCEPT ![c].worker[w].attempt = @ + 1]
    /\ UNCHANGED <<fileVars, server, entry, controller, dismissing, stream>>

(* Any other error, or the last timeout: the worker ends and the download  *)
(* has failed, but the other workers go on to the end of the file.         *)
FetchFails(c, w) ==
    /\ call[c].worker[w] # Off
    /\ call' = [call EXCEPT ![c].worker[w] = Off, ![c].pc = "failed"]
    /\ entry' = IF call[c].pc = "pulling" THEN Fail(c) ELSE entry
    /\ UNCHANGED <<fileVars, server, controller, dismissing, stream>>

(* The user cancels the download the entry shows: the fetches in flight    *)
(* are aborted; a query is not.                                            *)
Cancel ==
    /\ entry.shown /\ entry.status = "DOWNLOADING" /\ controller # None
    /\ ~call[controller].cancelled
    /\ LET c == controller
           pulling == call[c].pc = "pulling"
       IN  /\ call' = [call EXCEPT ![c].cancelled = TRUE,
                         ![c].worker = [w \in Workers |-> Off],
                         ![c].pc = IF pulling THEN "failed" ELSE @]
           /\ entry' = IF pulling THEN Fail(c) ELSE entry
    /\ UNCHANGED <<fileVars, server, controller, dismissing, stream>>

(* DownloadProgress removes an entry three seconds after it saw its end.   *)
DismissSoon ==
    /\ entry.shown /\ entry.status # "DOWNLOADING" /\ ~dismissing
    /\ dismissing' = TRUE
    /\ UNCHANGED <<fileVars, server, call, entry, controller, stream>>

Dismiss ==
    /\ dismissing
    /\ dismissing' = FALSE
    /\ entry' = NoEntry
    /\ controller' = None
    /\ UNCHANGED <<fileVars, server, call, stream>>

-----------------------------------------------------------------------------
(* GET /api/stream/:fileId                                                 *)

Min2(a, b) == IF a < b THEN a ELSE b
Max2(a, b) == IF a < b THEN b ELSE a

StreamFind(s) ==
    /\ stream[s].pc = "idle" /\ BoundStreams
    /\ \E header \in Headers, first, last \in 0 .. Total + 1 :
         /\ header # "range" => first = 0
         /\ header \in {"none", "other"} => last = 0
         /\ stream' = [stream EXCEPT ![s].pc = IF server = "ready" THEN "found" ELSE "refused",
                         ![s].header = header, ![s].first = first, ![s].last = last]
    /\ UNCHANGED <<fileVars, server, pageVars>>

(* The chunks of [first, last]: findIndex, and the loop up to the chunk    *)
(* that ends after last.                                                   *)
FirstChunk(first) ==
    LET after == {i \in Chunks : first < Offset(i) + size[i]}
    IN  IF after = {} THEN 0 ELSE CHOOSE i \in after : \A j \in after : i <= j

(* Mutant: the loop stops at a chunk that ends just before the last byte. *)
LastChunkEarly(from, last) ==
    LET ends == {i \in from .. Count : Offset(i) + size[i] >= last} \cup {Count}
    IN  CHOOSE i \in ends : \A j \in ends : i <= j

LastChunk(from, last) ==
    LET ends == {i \in from .. Count : Offset(i) + size[i] > last} \cup {Count}
    IN  CHOOSE i \in ends : \A j \in ends : i <= j

(* The chunk rows, and from them the range.  The pattern the header is     *)
(* matched with knows only ranges with a first byte.  A file without any   *)
(* byte has no first chunk, and the handler throws.                        *)
StreamRange(s) ==
    LET all == stream[s].header = "none"
        first == IF all THEN 0 ELSE stream[s].first
        last == IF all THEN Total - 1 ELSE Min2(stream[s].last, Total - 1)
        from == FirstChunk(first)
    IN  /\ stream[s].pc = "found"
        /\ stream' =
             IF server = "purged" THEN [stream EXCEPT ![s].pc = "refused"]
             ELSE IF stream[s].header \notin {"none", "range"}
               THEN [stream EXCEPT ![s].pc = "invalid"]
             ELSE IF ~all /\ (first >= Total \/ first > last)
               THEN [stream EXCEPT ![s].pc = "unsatisfiable"]
             ELSE IF from = 0 THEN [stream EXCEPT ![s].pc = "failed"]
             ELSE [stream EXCEPT ![s].pc = "reading", ![s].first = first,
                     ![s].last = last, ![s].at = from, ![s].until = LastChunk(from, last)]
        /\ UNCHANGED <<fileVars, server, pageVars>>

(* The bytes of chunk i that lie in the range, by their place in the file. *)
Piece(i, first, last) ==
    LET from == Max2(0, first - Offset(i))
        to == Min2(size[i] - 1, last - Offset(i))
    IN  IF from <= to THEN [k \in 1 .. to - from + 1 |-> Offset(i) + from + k - 1] ELSE <<>>

StreamPiece(s) ==
    /\ stream[s].pc = "reading" /\ server # "purged"
    /\ stream' = [stream EXCEPT
         ![s].body = @ \o Piece(stream[s].at, stream[s].first, stream[s].last),
         ![s].at = IF @ = stream[s].until THEN @ ELSE @ + 1,
         ![s].pc = IF stream[s].at = stream[s].until THEN "done" ELSE @]
    /\ UNCHANGED <<fileVars, server, pageVars>>

(* No copy of the chunk can be read. *)
StreamFails(s) ==
    /\ stream[s].pc = "reading"
    /\ stream' = [stream EXCEPT ![s].pc = "failed"]
    /\ UNCHANGED <<fileVars, server, pageVars>>

-----------------------------------------------------------------------------
(* What happens to the file meanwhile: FileLifecycle has the details.      *)
Trash ==
    /\ server = "ready" /\ server' = "trashed"
    /\ UNCHANGED <<fileVars, pageVars, stream>>

Restore ==
    /\ server = "trashed" /\ ~anonymous /\ server' = "ready"
    /\ UNCHANGED <<fileVars, pageVars, stream>>

(* An anonymous file may expire without having been in the trash. *)
Purge ==
    /\ server = "trashed" \/ (server = "ready" /\ anonymous)
    /\ server' = "purged"
    /\ UNCHANGED <<fileVars, pageVars, stream>>

Next ==
    \/ \E c \in Calls : Start(c) \/ Listed(c) \/ ListFails(c)
    \/ \E c \in Calls, w \in Workers : Fetched(c, w) \/ TimesOut(c, w) \/ FetchFails(c, w)
    \/ Cancel \/ DismissSoon \/ Dismiss
    \/ \E s \in Streams : StreamFind(s) \/ StreamRange(s) \/ StreamPiece(s) \/ StreamFails(s)
    \/ Trash \/ Restore \/ Purge

Spec == Init /\ [][Next]_vars

(* Every query is answered or fails, and every fetch ends within its       *)
(* timeout.                                                                *)
Fairness ==
    /\ \A c \in Calls : WF_vars(Listed(c) \/ ListFails(c))
    /\ \A c \in Calls, w \in Workers :
         WF_vars(Fetched(c, w) \/ TimesOut(c, w) \/ FetchFails(c, w))

FairSpec == Spec /\ Fairness

-----------------------------------------------------------------------------
(* What is saved is the whole file, every chunk in its place, and nothing  *)
(* is saved once the user has cancelled - in whatever order answers,       *)
(* timeouts and the cancellation arrive and however the workers share the  *)
(* chunks.                                                                 *)
SavesWholeFiles ==
    [][\A c \in Calls : call[c].pc # "saved" /\ call'[c].pc = "saved"
         => call'[c].got = Chunks /\ ~call[c].cancelled]_vars

(* The store tells the truth about a download that began when nothing of   *)
(* an earlier one of the file was left and has stayed the only one: while  *)
(* it runs it is shown with its own progress and can be cancelled, and it  *)
(* is shown as done only if the file was saved.  (With two at a time they  *)
(* overwrite one entry; a failed one goes on counting, and its timer       *)
(* removes the entry of the next.)                                         *)
EntryTellsTheTruth ==
    \A c \in Calls : call[c].tracked /\ call[c].alone =>
        /\ Running(c) => /\ entry = [shown |-> TRUE, status |-> "DOWNLOADING",
                                     got |-> Cardinality(call[c].got)]
                         /\ controller = c
        /\ ~Running(c) /\ entry.shown =>
             (entry.status = "DONE") = (call[c].pc = "saved")

(* A download ends, and so do all of its workers.                          *)
DownloadsEnd == \A c \in Calls : Running(c) ~> Quiet(c)

(* A range request that succeeds is answered with exactly the bytes from   *)
(* first to last, or to the end of the file, whatever the sizes of the     *)
(* chunks, and is never answered in part because the file is purged        *)
(* meanwhile.  One with a first byte is unsatisfiable only if no byte of   *)
(* the file is in it, and never refused as invalid.  (Other headers are,   *)
(* those for the last bytes of the file included: see below.)              *)
StreamsExactly ==
    \A s \in Streams :
        LET q == stream[s]
            n == q.last - q.first + 1
        IN  /\ q.pc = "done" =>
                 /\ q.body = [k \in 1 .. n |-> q.first + k - 1]
                 /\ q.header = "range" \/ (q.header = "none" /\ n = Total)
            /\ q.pc = "unsatisfiable" =>
                 q.header = "range" /\ q.first .. Min2(q.last, Total - 1) = {}
            /\ q.pc = "invalid" => q.header \in {"suffix", "other"}

-----------------------------------------------------------------------------
(* A statement the code does not keep; README says why.                    *)

(* docs/hermes/plan.md:132: the endpoint "maps the requested byte range to *)
(* the corresponding chunk(s)".  A range that some byte of the file is in  *)
(* is not refused: not the last n bytes, "bytes=-n", either.               *)
LastBytesServed ==
    \A s \in Streams :
        LET q == stream[s]
        IN  q.pc = "invalid" /\ q.header = "suffix" => q.last = 0 \/ Total = 0
=============================================================================
