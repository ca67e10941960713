----------------------------- MODULE SharePages -----------------------------
(* What the visitors of a share link get: the page the server renders, the  *)
(* media and the download it streams chunk by chunk through the pump of the *)
(* HTTP server, and the files the tab of the app (SharedFile) and the       *)
(* folder zips put together chunk by chunk and save.                        *)
(*                                                                          *)
(* A share is live or dead: why it dies (revoked, expired, seen too often)  *)
(* is the matter of Library.  A chunk is the byte positions it holds; a     *)
(* read of it finds one of its copies or none.  Chunk 0 of the link's file  *)
(* is its thumbnail.                                                        *)
(*                                                                          *)
(* No name here is one of Downloads: what is proved of chunks that lie one  *)
(* behind the other is proved for both modules in one place.                *)
EXTENDS Integers, Sequences, FiniteSets

CONSTANTS Sizes,      \* for each file of the shared folder its chunk sizes;
                      \* the file of the link is the first
          Permits,    \* what a share may allow, and whether its file has a
                      \* thumbnail: sets of "preview", "content", "thumb"
          Visits,     \* requests to the share handlers at the same time
          Tabs,       \* downloads put together by a browser
          MaxFaults,  \* bound: outages and copies lost
          MaxVisits   \* bound: requests and downloads of a behaviour

\* uploadFile cuts a file into ceil(size / chunk size) chunks, so that none is
\* empty, and only a file with a chunk can be committed
ASSUME SharePagesAssumption ==
    /\ Sizes \in Seq(Seq(Nat \ {0}) \ {<<>>}) /\ Sizes # <<>>
    /\ MaxFaults \in Nat /\ MaxVisits \in Nat

VARIABLES
  live,    \* the link is neither revoked, expired nor used up
  allow,   \* what the share allows
  rows,    \* files whose rows exist
  trash,   \* files put in the trash, with their folder
  copies,  \* chunks with a copy that can be read
  outage,  \* the provider is unreachable
  visit,   \* requests
  tab,     \* downloads put together by a browser
  faults

pagesVars == <<live, allow, rows, trash, copies, outage, visit, tab, faults>>
world == <<live, allow, rows, trash, copies, outage, faults>>

Files == DOMAIN Sizes
ChunksIn(f) == DOMAIN Sizes[f]
Poster == <<1, 0>>
AllChunks == {Poster} \cup UNION {{f} \X ChunksIn(f) : f \in Files}
Least(S) == CHOOSE n \in S : \A m \in S : n <= m

(* Offsets of the chunks of the link's file, from the sizes of the rows.    *)
ChunkCount == Len(Sizes[1])
ChunkOffset(c) ==
    LET sum[k \in 1 .. ChunkCount + 1] == IF k = 1 THEN 0 ELSE sum[k - 1] + Sizes[1][k - 1]
    IN  sum[c]
Upto(c) == ChunkOffset(c + 1)
TotalSize == Upto(ChunkCount)

-----------------------------------------------------------------------------
(* A request.  "head" is the status line; "body" and "queue" the            *)
(* ReadableStream with its one place; "pull" the chunk it reads or 0; "pump"*)
(* the loop that copies the body to the socket; "sock" the pieces the       *)
(* socket has not got rid of; "got" what the visitor has; "late" counts the *)
(* reads begun after he has gone.                                           *)

Asks == {[unit |-> "none", from |-> 0, to |-> 0],       \* no Range header
         [unit |-> "bad", from |-> 0, to |-> 0],        \* not bytes=..-..
         [unit |-> "both", from |-> 0, to |-> 0]}       \* bytes=-
        \cup [unit : {"range"}, from : 0..TotalSize, to : 0..TotalSize]
        \cup [unit : {"from"}, from : 0..TotalSize, to : {0}]
        \cup [unit : {"suffix"}, from : {0}, to : 0..(TotalSize + 1)]

Kinds == {"page", "media", "poster", "download"}
Jobs == {"preview", "download", "sharedZip", "zip"}
Bodies == {"none", "open", "closed", "errored", "cancelled"}
Pieces == Seq(0..(TotalSize - 1))

NoVisit ==
    [pc |-> "idle", kind |-> "page", ask |-> [unit |-> "none", from |-> 0, to |-> 0],
     head |-> 0, start |-> 0, end |-> 0, next |-> 1, pull |-> 0, body |-> "none",
     queue |-> <<>>, pump |-> "off", sock |-> <<>>, got |-> <<>>, here |-> TRUE,
     late |-> 0, offered |-> FALSE, cause |-> FALSE]

\* a download: the files that were listed, those not done yet, the chunks of
\* the file under way that have come and its buffers, the files put together
NoTab == [pc |-> "idle", job |-> "download", listed |-> {}, left |-> {}, come |-> {},
          file |-> <<>>, saved |-> {}]

PagesTypeOK ==
    /\ live \in BOOLEAN /\ outage \in BOOLEAN
    /\ allow \in Permits
    /\ rows \subseteq Files /\ trash \subseteq Files /\ copies \subseteq AllChunks
    /\ \A s \in Visits :
          /\ visit[s].pc \in {"idle", "asked", "listed", "streaming", "done"}
          /\ visit[s].kind \in Kinds /\ visit[s].ask \in Asks
          /\ visit[s].head \in {0, 200, 206, 404, 416, 500, 503}
          /\ visit[s].body \in Bodies /\ Len(visit[s].queue) <= 1
          /\ visit[s].pump \in {"off", "reading", "draining", "over"}
          /\ visit[s].got \in Pieces /\ visit[s].sock \in Seq(Pieces)
    /\ \A t \in Tabs :
          /\ tab[t].pc \in {"idle", "fetching", "saved", "failed"} /\ tab[t].job \in Jobs
          /\ tab[t].left \subseteq tab[t].listed /\ tab[t].listed \subseteq Files
          /\ tab[t].left # {} => tab[t].come \subseteq ChunksIn(Least(tab[t].left))
    /\ faults \in 0..MaxFaults

PagesInit ==
    /\ live = TRUE /\ allow \in Permits
    /\ rows = Files /\ trash = {} /\ copies = AllChunks /\ outage = FALSE
    /\ visit = [s \in Visits |-> NoVisit]
    /\ tab = [t \in Tabs |-> NoTab]
    /\ faults = 0

-----------------------------------------------------------------------------
(* The world around the visitors.                                           *)

ShareDies ==
    /\ live /\ live' = FALSE
    /\ UNCHANGED <<allow, rows, trash, copies, outage, visit, tab, faults>>

\* a folder goes to the trash with the links of its files left alone
TrashFile(f) ==
    /\ f \notin trash /\ trash' = trash \cup {f}
    /\ UNCHANGED <<live, allow, rows, copies, outage, visit, tab, faults>>

\* a copy is lost, or the purge of its file deletes it
LoseCopy(c) ==
    /\ c \in copies /\ copies' = copies \ {c}
    /\ \/ c[1] \in trash /\ faults' = faults
       \/ c[1] \notin trash /\ faults < MaxFaults /\ faults' = faults + 1
    /\ UNCHANGED <<live, allow, rows, trash, outage, visit, tab>>

\* behind the copies the purge deletes the rows, the link of the file included
PurgeRows(f) ==
    /\ f \in rows \cap trash /\ ~\E c \in copies : c[1] = f
    /\ rows' = rows \ {f}
    /\ UNCHANGED <<live, allow, trash, copies, outage, visit, tab, faults>>

Outage ==
    /\ \/ outage /\ outage' = FALSE /\ faults' = faults
       \/ ~outage /\ faults < MaxFaults /\ outage' = TRUE /\ faults' = faults + 1
    /\ UNCHANGED <<live, allow, rows, trash, copies, visit, tab>>

Readable(c) == c \in copies /\ ~outage

-----------------------------------------------------------------------------
(* The handlers of /s/:shareId.                                             *)

\* the link of a file goes with the file
FileLink == live /\ 1 \in rows

\* what handleSharePage links to: the preview and its poster by what the share
\* allows, the download likewise
Offers == (IF "preview" \in allow THEN {"media"} ELSE {})
          \cup (IF {"preview", "thumb"} \subseteq allow THEN {"poster"} ELSE {})
          \cup (IF "content" \in allow THEN {"download"} ELSE {})
\* what each handler demands of the share it has resolved
Granted(kind) ==
    CASE kind = "page" -> TRUE
      [] kind = "media" -> "preview" \in allow
      [] kind = "poster" -> {"preview", "thumb"} \subseteq allow
      [] kind = "download" -> "content" \in allow

\* bound: one more visit
MoreVisits ==
    Cardinality({s \in Visits : visit[s].pc # "idle"})
    + Cardinality({t \in Tabs : tab[t].pc # "idle"}) < MaxVisits

Answer(s, st, code) ==
    visit' = [visit EXCEPT ![s] = [st EXCEPT !.head = code, !.pc = "done"]]

\* resolveShareForPage; the page itself needs nothing else
Resolve(s) ==
    /\ visit[s].pc = "idle" /\ MoreVisits
    /\ \E kind \in Kinds, ask \in Asks :
          LET st == [NoVisit EXCEPT !.kind = kind, !.ask = ask,
                                    !.offered = kind \in Offers, !.cause = ~FileLink]
          IN /\ kind \notin {"media", "download"} => ask.unit = "none"
             /\ CASE ~FileLink \/ ~Granted(kind) -> Answer(s, st, 404)
                  [] FileLink /\ Granted(kind) /\ kind = "page" -> Answer(s, st, 200)
                  [] OTHER -> visit' = [visit EXCEPT ![s] = [st EXCEPT !.pc = "asked"]]
    /\ UNCHANGED <<world, tab>>

\* getShareChunks, or the row of the thumbnail
List(s) ==
    /\ visit[s].pc = "asked"
    /\ IF 1 \in rows
       THEN visit' = [visit EXCEPT ![s].pc = "listed"]
       ELSE Answer(s, [visit[s] EXCEPT !.cause = TRUE],
                   IF visit[s].kind = "poster" THEN 404 ELSE 500)
    /\ UNCHANGED <<world, tab>>

\* the first byte and the last that buildShareFileResponse will send
First(ask) == CASE ask.unit \in {"range", "from"} -> ask.from
                [] ask.unit = "suffix" -> IF ask.to > TotalSize THEN 0 ELSE TotalSize - ask.to
                [] OTHER -> 0
LastByte(ask) == IF ask.unit = "range" /\ ask.to < TotalSize THEN ask.to ELSE TotalSize - 1
Satisfiable(ask) == First(ask) < TotalSize /\ First(ask) <= LastByte(ask)

\* the first chunk with a byte of the range
StartChunk(start) == CHOOSE c \in ChunksIn(1) : ChunkOffset(c) <= start /\ start < Upto(c)

\* CallPullIfNeeded: with its place free and no read under way, the stream
\* reads the next chunk, or closes behind the last
Pulled(st) ==
    IF st.body # "open" \/ st.queue # <<>> \/ st.pull # 0 THEN st
    ELSE IF st.next > ChunkCount \/ ChunkOffset(st.next) > st.end
    THEN [st EXCEPT !.body = "closed"]
    ELSE [st EXCEPT !.pull = st.next, !.next = @ + 1,
                    !.late = IF st.here THEN @ ELSE @ + 1]

Respond(st) ==
    LET ask == st.ask
    IN IF ask.unit = "bad" \/ (ask.unit # "none" /\ ~Satisfiable(ask))
       THEN [st EXCEPT !.head = 416, !.pc = "done"]
       ELSE Pulled([st EXCEPT
              !.head = IF ask.unit = "none" THEN 200 ELSE 206, !.pc = "streaming",
              !.start = First(ask), !.end = LastByte(ask),
              !.next = StartChunk(First(ask)), !.body = "open", !.pump = "reading"])

\* assertFirstChunkReadable has read a chunk, always the first of the file;
\* the poster is read whole and sent
Probed(s) ==
    LET st == visit[s]
        blob == IF st.kind = "poster" THEN Poster ELSE <<1, 1>>
    IN /\ st.pc = "listed"
       /\ IF ~Readable(blob)
          THEN Answer(s, [st EXCEPT !.cause = TRUE], IF outage THEN 503 ELSE 500)
          ELSE IF st.kind = "poster" THEN Answer(s, st, 200)
          ELSE visit' = [visit EXCEPT ![s] = Respond(st)]
       /\ UNCHANGED <<world, tab>>

-----------------------------------------------------------------------------
(* The body and the pump.                                                   *)

Higher(a, b) == IF a > b THEN a ELSE b
Lower(a, b) == IF a < b THEN a ELSE b
Bytes(a, b) == [i \in 1..(b - a + 1) |-> a + i - 1]
SliceToEnd(c, st) == Bytes(Higher(st.start, ChunkOffset(c)), Upto(c) - 1)

Slice(c, st) == Bytes(Higher(st.start, ChunkOffset(c)), Lower(st.end, Upto(c) - 1))

PullEndsSilently(s) ==
    LET st == visit[s]
    IN /\ st.pull # 0
       /\ visit' = [visit EXCEPT ![s] =
            [st EXCEPT !.pull = 0,
                       !.queue = IF st.body = "open" /\ Readable(<<1, st.pull>>)
                                 THEN <<Slice(st.pull, st)>> ELSE @]]
       /\ UNCHANGED <<world, tab>>

\* a read of the stream's source ends; a cancelled body drops what it brought
PullEnds(s) ==
    LET st == visit[s]
        rest == [st EXCEPT !.pull = 0]
    IN /\ st.pull # 0
       /\ visit' = [visit EXCEPT ![s] =
            IF st.body = "cancelled" THEN rest
            ELSE IF Readable(<<1, st.pull>>)
            THEN [rest EXCEPT !.queue = <<Slice(st.pull, st)>>]
            ELSE [rest EXCEPT !.body = "errored", !.queue = <<>>]]
       /\ UNCHANGED <<world, tab>>

Cancelled(st) == [st EXCEPT !.body = "cancelled", !.queue = <<>>, !.pump = "over",
                            !.sock = <<>>]

PumpTakesOn(s) ==
    /\ visit[s].pump = "reading" /\ visit[s].queue # <<>>
    /\ visit' = [visit EXCEPT ![s] =
                    [Pulled([@ EXCEPT !.queue = <<>>]) EXCEPT
                       !.sock = Append(@, Head(visit[s].queue))]]
    /\ UNCHANGED <<world, tab>>

\* reader.read() brings a piece, which makes room for the next read, and
\* nodeRes.write() takes it at once or keeps it; on a socket that has closed
\* it says false too, and neither "drain" nor "close" comes any more
PumpTakes(s) ==
    LET st == Pulled([visit[s] EXCEPT !.queue = <<>>])
        piece == Head(visit[s].queue)
    IN /\ visit[s].pump = "reading" /\ visit[s].queue # <<>>
       /\ \/ /\ st.here
             /\ visit' = [visit EXCEPT ![s] = [st EXCEPT !.got = @ \o piece]]
          \/ visit' = [visit EXCEPT ![s] =
                          [st EXCEPT !.sock = <<piece>>, !.pump = "draining"]]
       /\ UNCHANGED <<world, tab>>

\* the visitor has taken what the socket held: "drain"
Drain(s) ==
    /\ visit[s].pump = "draining" /\ visit[s].here
    /\ visit' = [visit EXCEPT ![s].got = @ \o Head(visit[s].sock),
                              ![s].sock = <<>>,
                              ![s].pump = "reading"]
    /\ UNCHANGED <<world, tab>>

\* the socket closes; only a pump that waits for "drain" hears of it
HangUp(s) ==
    /\ visit[s].pc = "streaming" /\ visit[s].here /\ visit[s].pump # "over"
    /\ LET st == [visit[s] EXCEPT !.here = FALSE]
       IN visit' = [visit EXCEPT ![s] =
                       IF st.pump = "draining" THEN Cancelled(st) ELSE st]
    /\ UNCHANGED <<world, tab>>

\* the body is closed or failed: the response ends
PumpEnds(s) ==
    /\ visit[s].pump = "reading" /\ visit[s].queue = <<>>
    /\ visit[s].body \in {"closed", "errored"}
    /\ visit' = [visit EXCEPT ![s].pump = "over"]
    /\ UNCHANGED <<world, tab>>

-----------------------------------------------------------------------------
(* The tab of the app: SharedFile and the folder zips.                      *)

ChunksOf(f) == [c \in ChunksIn(f) |-> <<f, c>>]
\* the files to fetch, one after the other; a listing leaves out the trash
Agenda(job) == IF job \in {"preview", "download"} THEN {1} ELSE rows \ trash

\* whether the link lets the tab go on; the owner needs none
LinkLets(job) == CASE job = "zip" -> TRUE
                   [] job = "sharedZip" -> live
                   [] OTHER -> FileLink
\* the answer to a fetch; a shared folder has no file that is in the trash
Sends(job, c) ==
    /\ LinkLets(job) /\ c[1] \in rows /\ Readable(c)
    /\ job = "sharedZip" => c[1] \notin trash

\* accessShare, or the owner's listing of a folder
Visit(t) ==
    /\ tab[t].pc = "idle" /\ MoreVisits
    /\ \E job \in Jobs :
          /\ job = "preview" => "preview" \in allow
          /\ tab' = [tab EXCEPT ![t] =
               IF LinkLets(job)
               THEN [NoTab EXCEPT !.job = job, !.pc = "fetching",
                                  !.listed = Agenda(job), !.left = Agenda(job)]
               ELSE [NoTab EXCEPT !.job = job, !.pc = "failed"]]
    /\ UNCHANGED <<world, visit>>

\* the chunks it waits for: the next one, but the owner's zip asks for all of
\* a file at once
Awaited(t) ==
    LET missing == ChunksIn(Least(tab[t].left)) \ tab[t].come
    IN  IF tab[t].job = "zip" \/ missing = {} THEN missing ELSE {Least(missing)}
\* buffers.push, or the place that Promise.all keeps for a chunk
Buffered(tb, c) ==
    IF tb.job = "zip" THEN [i \in DOMAIN tb.file \cup {c[2]} |-> IF i = c[2] THEN c ELSE tb.file[i]]
    ELSE Append(tb.file, c)

\* a file is done with, and what has become of it goes into the download
Finished(tb, f, entries) ==
    [tb EXCEPT !.left = @ \ {f}, !.come = {}, !.file = <<>>, !.saved = @ \cup entries]

\* a chunk arrives; with the last one of a file its entry is complete
Arrived(t) ==
    LET tb == tab[t]
        f == Least(tb.left)
    IN /\ tb.pc = "fetching" /\ tb.left # {}
       /\ \E k \in Awaited(t) :
             LET come == tb.come \cup {k}
                 file == Buffered(tb, <<f, k>>)
             IN /\ Sends(tb.job, <<f, k>>)
                /\ tab' = [tab EXCEPT ![t] =
                     IF come = ChunksIn(f) THEN Finished(tb, f, {file})
                     ELSE [tb EXCEPT !.come = come, !.file = file]]
       /\ UNCHANGED <<world, visit>>

FetchRefusedSkipping(t) ==
    LET tb == tab[t]
        f == Least(tb.left)
    IN /\ tb.pc = "fetching" /\ tb.left # {}
       /\ \E k \in Awaited(t) :
             /\ ~Sends(tb.job, <<f, k>>)
             /\ tab' = [tab EXCEPT ![t] =
                  IF tb.come \cup {k} = ChunksIn(f) THEN Finished(tb, f, {tb.file})
                  ELSE [tb EXCEPT !.come = @ \cup {k}]]
       /\ UNCHANGED <<world, visit>>

\* a chunk is refused: the owner's zip goes on with the next file, the others
\* give up
FetchRefused(t) ==
    LET tb == tab[t]
        f == Least(tb.left)
    IN /\ tb.pc = "fetching" /\ tb.left # {}
       /\ \E k \in Awaited(t) : ~Sends(tb.job, <<f, k>>)
       /\ tab' = [tab EXCEPT ![t] =
            IF tb.job = "zip" THEN Finished(tb, f, {}) ELSE [tb EXCEPT !.pc = "failed"]]
       /\ UNCHANGED <<world, visit>>

\* the browser saves the file or the zip; an empty zip is an error
Save(t) ==
    /\ tab[t].pc = "fetching" /\ tab[t].left = {}
    /\ tab' = [tab EXCEPT ![t].pc = IF tab[t].saved = {} THEN "failed" ELSE "saved"]
    /\ UNCHANGED <<world, visit>>

-----------------------------------------------------------------------------
Serve(s) == Resolve(s) \/ List(s) \/ Probed(s)
Pump(s) == PullEnds(s) \/ PumpTakes(s) \/ PumpEnds(s)

\* bound: when all visits are over nothing more happens
Attended ==
    \/ MoreVisits
    \/ \E s \in Visits : visit[s].pc \notin {"idle", "done"} /\ visit[s].pump # "over"
    \/ \E t \in Tabs : tab[t].pc = "fetching"

PagesNext ==
    \/ /\ Attended
       /\ \/ ShareDies \/ Outage
          \/ \E f \in Files : TrashFile(f) \/ PurgeRows(f)
          \/ \E c \in AllChunks : LoseCopy(c)
    \/ \E s \in Visits : Serve(s) \/ Pump(s) \/ Drain(s) \/ HangUp(s)
    \/ \E t \in Tabs : Visit(t) \/ Arrived(t) \/ FetchRefused(t) \/ Save(t)

PagesSpec == PagesInit /\ [][PagesNext]_pagesVars

(* Reads of copies end, one way or the other, and the pump runs on the      *)
(* event loop.  Nothing is assumed of the visitor.                          *)
PagesFairness == \A s \in Visits : WF_pagesVars(List(s) \/ Probed(s)) /\ WF_pagesVars(Pump(s))
PagesFairSpec == PagesSpec /\ PagesFairness

-----------------------------------------------------------------------------
(* Properties.                                                              *)

(* The bytes a request asks for, in the words of HTTP.                      *)
Wanted(ask) ==
    {p \in 0..(TotalSize - 1) :
       CASE ask.unit = "range" -> ask.from <= p /\ p <= ask.to
         [] ask.unit = "from" -> ask.from <= p
         [] ask.unit = "suffix" -> p >= TotalSize - ask.to
         [] OTHER -> TRUE}

(* The media and download handlers of share-page.ts answer with the bytes   *)
(* asked for, in order, and a response that ends as complete has them all,  *)
(* whatever is lost or dies meanwhile; an offered link is refused only for  *)
(* a cause that came up later, a range only if it selects nothing.          *)
AnswersMatchRequest ==
    \A s \in Visits :
       LET st == visit[s]
           wanted == Wanted(st.ask)
       IN /\ st.head \in {200, 206} /\ st.kind \in {"media", "download"} =>
               /\ wanted # {} /\ Len(st.got) <= Cardinality(wanted)
               /\ \A i \in DOMAIN st.got :
                     st.got[i] = First(st.ask) + i - 1 /\ st.got[i] \in wanted
               /\ st.pump = "over" /\ st.body = "closed" => Len(st.got) = Cardinality(wanted)
          /\ st.head = 416 => st.ask.unit = "bad" \/ wanted = {}
          /\ st.head \in {404, 500, 503} /\ st.offered => st.cause

(* share-page.ts:296: "backpressure from a slow client throttles provider   *)
(* reads instead of racing ahead into RAM".  A response never holds more    *)
(* than two chunks, and when its visitor has gone at most one more read     *)
(* begins.                                                                  *)
ReadsBounded ==
    \A s \in Visits :
       LET st == visit[s]
       IN /\ Len(st.queue) + (IF st.pull = 0 THEN 0 ELSE 1)
             + Len(st.sock) <= 2
          /\ st.late <= 1

(* A response never hangs on the server's side: again and again it is over  *)
(* or its pump has handed the socket a piece and waits for the visitor.     *)
NeverStalls ==
    \A s \in Visits :
       []<>(\/ visit[s].pc \in {"idle", "done"}
            \/ visit[s].pump \in {"over", "draining"})

(* index.ts:312: "Client hung up or the source stream failed -- release the *)
(* upstream reader".  A visitor who hangs up while the pump waits for the   *)
(* body, not for the socket, is missed: "close" has been and gone, and the  *)
(* next write leaves the pump waiting for good.                             *)
GoneIsReleased ==
    \A s \in Visits :
       ~visit[s].here ~> visit[s].pump = "over"

(* SharedFile.tsx and lib/download.ts: every file that is saved has all its *)
(* chunks in order, whatever is trashed, purged or lost meanwhile, and but  *)
(* for the owner's zip, which skips files, all files listed are there.      *)
SavedIsWhole ==
    \A t \in Tabs :
       LET whole == {ChunksOf(f) : f \in tab[t].listed}
       IN tab[t].pc = "saved" => /\ tab[t].saved \subseteq whole
                                 /\ tab[t].job # "zip" => tab[t].saved = whole

(* share-page.ts:378: "Reads the FIRST chunk of the requested range before  *)
(* the response is constructed, so a provider outage becomes a clean 503    *)
(* instead of a 200 whose body dies mid-stream".  The chunk read is the     *)
(* first of the file, so a range may die before its first byte although     *)
(* nothing has changed since the request came.                              *)
RangeStartsReadable ==
    \A s \in Visits :
       visit[s].pc = "streaming" /\ visit[s].body = "errored" => visit[s].got # <<>>

(* The owner's zip has every file of the folder.  It has not: a file that   *)
(* fails is skipped.                                                        *)
ZipHasEveryFile ==
    \A t \in Tabs :
       tab[t].pc = "saved" /\ tab[t].job = "zip" => Cardinality(tab[t].saved) = Cardinality(tab[t].listed)
=============================================================================
