------------------------------ MODULE DriveView ------------------------------
(* What one browser tab shows of the drive: the pages, the lists they load  *)
(* through the query cache (react-query, external), the changes their       *)
(* handlers make and the lists each handler refreshes afterwards.           *)
(*                                                                          *)
(* The entries of the cache do not influence each other, so a behaviour     *)
(* watches one of them, "key", chosen initially; pages and changes that     *)
(* have nothing to do with it are left out.  The rows are abstracted to     *)
(* how an answer relates to the last change of the list ("seen"):           *)
(*   current   it shows the change,                                         *)
(*   told      it predates a change whose handler still has to refresh it,  *)
(*             or has marked it as invalid,                                 *)
(*   missed    it predates a change and no handler will tell.               *)
(* The list of links of ShareModal is component state and not a cache       *)
(* entry: loads are not deduplicated, each one overwrites the list, and the *)
(* handlers of a modal that was closed do not reach the one opened next.    *)
EXTENDS Naturals, FiniteSets

CONSTANTS Ops,        \* slots for changes under way at the same time
          MaxChanges, \* bound: changes begun in a behaviour
          MaxFaults,  \* bound: requests that fail or whose answer is lost
          None

ASSUME DriveViewAssumption == MaxChanges \in Nat /\ MaxFaults \in Nat

VARIABLES
  key,    \* the watched list
  page,   \* the page on screen
  entry,  \* the list as the tab holds it: None or [seen, mark, tile, by]
  fetch,  \* loads under way (the slots after the first are ShareModal's)
  op,     \* changes under way, or None
  tile,   \* the thumbnail of an image in the watched root list
  begun,  \* changes begun
  faults

vars == <<key, page, entry, fetch, op, tile, begun, faults>>

\* ShareModal loads when it opens and after each change
Slots == 1..MaxChanges + 1
Seen == {"current", "told", "missed"}
Tiles == {"none", "pending", "there"}

-----------------------------------------------------------------------------
(* The pages and the lists they show.                                       *)

DashboardLists == {<<"root", "files/root">>, <<"folder", "files/folder">>}
CrumbLists == {<<"folder", "path/folder">>, <<"dropFolder", "anonPath/folder">>}
DropLists == {<<"drop", "anon/root">>, <<"dropFolder", "anon/folder">>}
SettingsLists == {<<"settings", "usage">>}
ApiKeyLists == {<<"settings", "apiKeys">>}
HealthLists == {<<"health", "health">>, <<"health", "files/root">>}
ShareLists == {<<"modal", "shares">>}

Shows == DashboardLists \cup CrumbLists \cup DropLists \cup SettingsLists
         \cup ApiKeyLists \cup HealthLists \cup ShareLists

Keys == {s[2] : s \in Shows}
Account == Keys \ {"anon/root", "anon/folder", "anonPath/folder", "shares"}
Here(p) == {s[2] : s \in {t \in Shows : t[1] = p}}
Mounted == <<page, key>> \in Shows

-----------------------------------------------------------------------------
(* The changes the pages offer: what each one changes on the server, and    *)
(* what its handler refreshes when the answer is in.  "files" requests are  *)
(* sent one after the other (a health check is one request, but records     *)
(* what it finds in batches); "each" refreshes after each of them, else the *)
(* handler refreshes after the last, and only if none failed; "always"      *)
(* refreshes also after a failure, and the page polls meanwhile.            *)

Files == {"files/root", "files/folder"}
\* a folder is renamed or moved from its parent's page; the path it changes
\* is shown on its own page
Paths(p) == CASE p = "root" -> {"path/folder"} [] p = "drop" -> {"anonPath/folder"}
              [] OTHER -> {}
Change(p, changes, refreshes) ==
    [page |-> p, changes |-> changes, refreshes |-> refreshes, files |-> 1,
     each |-> FALSE, always |-> FALSE, image |-> FALSE]

Upload(p) ==
    [Change(p, (Here(p) \cap Files) \cup {"files/root", "usage", "health"}, Files)
       EXCEPT !.files = 2, !.each = TRUE, !.image = p = "root"]
Delete(p) == Change(p, (Here(p) \cap Files) \cup {"files/root", "usage", "health"}, Files)
MoveFileOwn(p) == Change(p, Files, Here(p) \cap Files)
MoveFile(p) == Change(p, Files, Files)
MoveFolder(p) == Change(p, Files \cup Paths(p), Files \cup {"path/folder"})
CrumbMove(p) == Change(p, Files, Files)
NewFolder(p) == Change(p, (Here(p) \cap Files) \cup {"files/root"}, Files)
RenameFolder(p) == Change(p, (Here(p) \cap Files) \cup Paths(p), Files)
Dashboard(p) == {Upload(p), Delete(p), MoveFile(p), MoveFolder(p), CrumbMove(p),
                 NewFolder(p), RenameFolder(p)}

DropRefresh(p) == Here(p) \cap {"anon/root", "anon/folder"}
DropUpload(p) ==
    [Change(p, DropRefresh(p) \cup {"anon/root"}, DropRefresh(p))
       EXCEPT !.files = 2, !.image = p = "drop"]
DropChanges(p) ==
    {Change(p, c, DropRefresh(p)) :
       c \in {DropRefresh(p) \cup {"anon/root"}, {"anon/root", "anon/folder"},
              DropRefresh(p) \cup Paths(p)}}

KeyChange == Change("settings", {"apiKeys"}, {"apiKeys"})
HealthCheck == [Change("health", {"health"}, {"health"})
                  EXCEPT !.files = 2, !.always = TRUE]
CreateShare == Change("modal", {"shares"}, {"shares"})
RevokeShare == CreateShare

Offered(p) ==
    CASE p \in {"root", "folder"} -> Dashboard(p)
      [] p \in {"drop", "dropFolder"} -> {DropUpload(p)} \cup DropChanges(p)
      [] p = "settings" -> {KeyChange}
      [] p = "health" -> {HealthCheck}
      [] p = "modal" -> {CreateShare, RevokeShare}
      [] OTHER -> {}

AllPages == {s[1] : s \in Shows} \cup {"login"}
Relevant == [k \in Keys |->
    {p \in AllPages : k \in Here(p) \/ p = "login"
       \/ \E r \in Offered(p) : k \in r.changes \cup r.refreshes}]

-----------------------------------------------------------------------------
(* Loads.                                                                   *)

Answers == [pc : {"asked", "served"}, seen : Seen, tile : Tiles,
            by : {"drive", "health"}]
Entries == [seen : Seen, mark : {"fresh", "stale", "invalid"}, tile : Tiles,
            by : {"drive", "health"}]
\* a change under way, as far as the watched list is concerned
Running == [hit : BOOLEAN, expected : BOOLEAN, refreshes : BOOLEAN, each : BOOLEAN,
            always : BOOLEAN, polls : BOOLEAN, image : BOOLEAN, left : 1..2,
            pc : {"sent", "applied"}, owes : BOOLEAN]

ASSUME NoneAssumption == None \notin Answers \cup Entries \cup Running

TypeOK ==
    /\ key \in Keys /\ page \in AllPages
    /\ entry \in Entries \cup {None}
    /\ fetch \in [Slots -> Answers \cup {None}]
    /\ op \in [Ops -> Running \cup {None}]
    /\ tile \in Tiles /\ begun \in 0..MaxChanges /\ faults \in 0..MaxFaults

\* the health page asks files/root for ids and names only: rows without a
\* status, which no page polls for thumbnails
Asked(p) == [pc |-> "asked", seen |-> "current", tile |-> "none",
             by |-> IF p = "health" THEN "health" ELSE "drive"]
Load(p) == [s \in Slots |-> IF s = 1 THEN Asked(p) ELSE None]
NoLoad == [s \in Slots |-> None]
Outdated == entry # None => entry.mark # "fresh" \/ key = "health"

\* a component that unmounts: the handlers of a page go on through the query
\* cache and only its polling ends; those of ShareModal load a list that is
\* no longer on screen
Leave(r) == IF r = None THEN None ELSE [r EXCEPT !.polls = FALSE]
Detach(r) == IF r = None THEN None
             ELSE [r EXCEPT !.expected = FALSE, !.refreshes = FALSE, !.owes = FALSE]

Init ==
    /\ key \in Keys /\ page = "login"
    /\ entry = None /\ fetch = NoLoad
    /\ op = [o \in Ops |-> None]
    /\ tile = "none" /\ begun = 0 /\ faults = 0

\* a page mounts: its list is loaded unless the cache holds a fresh one or
\* another page's load of the same list is still under way
Visit(p) ==
    /\ p \in Relevant[key] \ {page} /\ key # "shares"
    /\ page' = p
    /\ fetch' = IF <<p, key>> \in Shows /\ Outdated /\ fetch = NoLoad
                THEN Load(p) ELSE fetch
    /\ op' = [o \in Ops |-> Leave(op[o])]
    /\ UNCHANGED <<key, entry, tile, begun, faults>>

\* ShareModal loads its links when it opens; when it closes its state is gone
OpenModal ==
    /\ key = "shares" /\ page # "modal"
    /\ page' = "modal" /\ fetch' = Load("modal")
    /\ UNCHANGED <<key, entry, op, tile, begun, faults>>

CloseModal ==
    /\ page = "modal"
    /\ page' = "login" /\ entry' = None /\ fetch' = NoLoad
    /\ op' = [o \in Ops |-> Detach(op[o])]
    /\ UNCHANGED <<key, tile, begun, faults>>

\* the window gets the focus: react-query loads again what is not fresh
Focus ==
    /\ Mounted /\ key # "shares" /\ Outdated /\ fetch = NoLoad
    /\ fetch' = Load(page)
    /\ UNCHANGED <<key, page, entry, op, tile, begun, faults>>

\* refetchInterval: a row still lacks its thumbnail, or the health check that
\* was started on the page runs
PollsWhileFresh == entry # None /\ entry.tile = "pending" /\ entry.mark = "fresh"
Polls == entry # None /\ entry.tile = "pending" /\ page # "health"
Poll ==
    /\ Mounted /\ fetch = NoLoad
    /\ \/ Polls
       \/ /\ key = "health"
          /\ \E o \in Ops : op[o] # None /\ op[o].polls
    /\ fetch' = Load(page)
    /\ UNCHANGED <<key, page, entry, op, tile, begun, faults>>

Serve(s) ==
    /\ fetch[s] # None /\ fetch[s].pc = "asked"
    /\ fetch' = [fetch EXCEPT ![s].pc = "served",
                   ![s].tile = IF fetch[s].by = "health" \/ fetch[s].seen = "missed"
                               THEN "none" ELSE tile]
    /\ UNCHANGED <<key, page, entry, op, tile, begun, faults>>

Land(s) ==
    /\ fetch[s] # None /\ fetch[s].pc = "served"
    /\ entry' = [seen |-> fetch[s].seen, mark |-> "fresh",
                 tile |-> fetch[s].tile, by |-> fetch[s].by]
    /\ fetch' = [fetch EXCEPT ![s] = None]
    /\ UNCHANGED <<key, page, op, tile, begun, faults>>

\* staleTime: thirty seconds after it landed an entry counts as stale
Age ==
    /\ entry # None /\ entry.mark = "fresh" /\ key # "shares"
    /\ entry' = [entry EXCEPT !.mark = "stale"]
    /\ UNCHANGED <<key, page, fetch, op, tile, begun, faults>>

-----------------------------------------------------------------------------
(* Changes.                                                                 *)

\* the lists whose viewer is to see the change: the drive shows a change in
\* whichever of its lists it touches, the other pages on the page itself
Expected(r) ==
    r.changes \cap (IF r.page \in {"root", "folder"} THEN Files ELSE Here(r.page))
Owed(ops) == \E o \in Ops : ops[o] # None /\ ops[o].owes

\* what an answer shows after a change of the list it has read
Outrun(x, seen) ==
    IF x # None /\ x.seen = "current" THEN [x EXCEPT !.seen = seen] ELSE x
OutrunServed(x, seen) ==
    IF x # None /\ x.pc = "served" THEN Outrun(x, seen) ELSE x
\* what it shows once no handler is left that would refresh it
Forsake(x) == IF x # None /\ x.seen = "told" THEN [x EXCEPT !.seen = "missed"] ELSE x
Settle(x, ops) == IF Owed(ops) THEN x ELSE Forsake(x)
SettleAll(ops) == [s \in Slots |-> Settle(fetch[s], ops)]

\* the button of the health check waits for the one that runs
Begin(o) ==
    /\ op[o] = None /\ begun < MaxChanges
    /\ \E r \in Offered(page) :
          /\ key \in r.changes \cup r.refreshes
          /\ r.always => \A q \in Ops : op[q] # None => ~op[q].polls
          /\ op' = [op EXCEPT ![o] =
                      [hit |-> key \in r.changes, expected |-> key \in Expected(r),
                       refreshes |-> key \in r.refreshes, each |-> r.each,
                       always |-> r.always, polls |-> r.always, left |-> r.files,
                       pc |-> "sent",
                       image |-> r.image /\ key \in {"files/root", "anon/root"},
                       owes |-> FALSE]]
    /\ begun' = begun + 1
    /\ UNCHANGED <<key, page, entry, fetch, tile, faults>>

\* the server carries the request out
Apply(o) ==
    /\ op[o] # None /\ op[o].pc = "sent"
    /\ LET seen == IF op[o].expected THEN "told" ELSE "missed"
       IN /\ op' = [op EXCEPT ![o].pc = "applied", ![o].owes = @ \/ op[o].expected]
          /\ entry' = IF op[o].hit THEN Outrun(entry, seen) ELSE entry
          /\ fetch' = IF op[o].hit THEN [s \in Slots |-> OutrunServed(fetch[s], seen)]
                      ELSE fetch
    /\ tile' \in IF op[o].image /\ tile = "none" THEN {"none", "pending"} ELSE {tile}
    /\ UNCHANGED <<key, page, begun, faults>>

\* storeThumbnailBlob, some seconds after the commit
ThumbnailMade ==
    /\ tile = "pending"
    /\ tile' = "there"
    /\ UNCHANGED <<key, page, entry, fetch, op, begun, faults>>

Invalid(x) == IF x # None THEN [x EXCEPT !.mark = "invalid"] ELSE x

InvalidateQuietly(ops) == entry' = Invalid(entry) /\ fetch' = SettleAll(ops)
\* invalidateQueries: an entry with data is marked, and loaded anew if it is
\* on screen (a load under way is cancelled); a first load, and a load for a
\* page that was left, go on and clear the mark with what they bring
Invalidate(ops) ==
    /\ entry' = Invalid(entry)
    /\ fetch' = IF Mounted /\ (entry # None \/ fetch = NoLoad)
                THEN Load(page) ELSE SettleAll(ops)

\* ShareModal.loadShares: one more load; the ones under way still overwrite
Reload(ops) ==
    /\ entry' = Invalid(entry)
    /\ fetch' = [SettleAll(ops) EXCEPT ![CHOOSE s \in Slots : fetch[s] = None]
                   = Asked("modal")]

Refresh(r, ops) ==
    IF ~r.refreshes THEN UNCHANGED <<entry, fetch>>
    ELSE IF key = "shares" THEN Reload(ops) ELSE Invalidate(ops)

\* the request for the next file, and whether the list is owed a refresh still
NextFile(r, owes) == [r EXCEPT !.left = @ - 1, !.pc = "sent", !.owes = owes]

Answered(o) ==
    /\ op[o] # None /\ op[o].pc = "applied"
    /\ LET r == op[o]
           last == op[o].left = 1
       IN /\ op' = [op EXCEPT ![o] =
                      IF last THEN None
                      ELSE NextFile(r, r.owes /\ ~r.each)]
          /\ IF last \/ r.each THEN Refresh(r, op') ELSE UNCHANGED <<entry, fetch>>
    /\ UNCHANGED <<key, page, tile, begun, faults>>

\* the request is refused or lost, or its answer is; the dashboard goes on
\* with the next file, the others give up
Fails(o) ==
    /\ op[o] # None /\ faults < MaxFaults
    /\ faults' = faults + 1
    /\ LET r == op[o]
           goesOn == r.each /\ op[o].left > 1
       IN /\ op' = [op EXCEPT ![o] =
                      IF goesOn THEN NextFile(r, r.owes) ELSE None]
          /\ IF r.always THEN Refresh(r, op')
             ELSE entry' = Settle(entry, op') /\ fetch' = SettleAll(op')
    /\ UNCHANGED <<key, page, tile, begun>>

\* a load fails for good: what the tab holds stays as it is
FetchFails(s) ==
    /\ fetch[s] # None /\ faults < MaxFaults
    /\ faults' = faults + 1
    /\ fetch' = [fetch EXCEPT ![s] = None]
    /\ entry' = Settle(entry, op)
    /\ UNCHANGED <<key, page, op, tile, begun>>

\* somebody else signs in: the cache is not cleared, and neither are loads
\* asked with the old token (no change of theirs is under way)
SwitchUser ==
    /\ page = "login" /\ key \in Account /\ op = [o \in Ops |-> None]
    /\ entry' = IF entry = None THEN None ELSE [entry EXCEPT !.seen = "missed"]
    /\ fetch' = [s \in Slots |-> IF fetch[s] = None THEN None
                                 ELSE [fetch[s] EXCEPT !.seen = "missed"]]
    /\ tile' = "none"
    /\ UNCHANGED <<key, page, op, begun, faults>>

Next ==
    \/ \E p \in AllPages : Visit(p)
    \/ OpenModal \/ CloseModal \/ Focus \/ Poll \/ Age \/ ThumbnailMade \/ SwitchUser
    \/ \E s \in Slots : Serve(s) \/ Land(s) \/ FetchFails(s)
    \/ \E o \in Ops : Begin(o) \/ Apply(o) \/ Answered(o) \/ Fails(o)

Spec == Init /\ [][Next]_vars

(* Requests are answered or fail, and the timers of the page run.           *)
Fairness ==
    /\ \A s \in Slots : WF_vars(Serve(s)) /\ WF_vars(Land(s))
    /\ \A o \in Ops : WF_vars(Apply(o)) /\ WF_vars(Answered(o))
    /\ WF_vars(Poll)

FairSpec == Spec /\ Fairness

-----------------------------------------------------------------------------
(* Properties.                                                              *)

(* A list that a handler is to refresh is never left looking fresh: while   *)
(* it predates the change, either the handler is still to come or the entry *)
(* is marked and loaded again.  What is in nobody's charge, a refresh that  *)
(* failed or the change of a closed ShareModal, is "missed" and a matter of *)
(* FreshIsCurrent and NewLinkListed, which do not hold.                     *)
NoChangeForgotten ==
    entry # None /\ entry.mark = "fresh" /\ entry.seen = "told" => Owed(op)

(* A list on screen that predates such a change shows it in the end, unless *)
(* the page is left, the refresh fails or it was overtaken.  (A link that a *)
(* ShareModal created which was closed before the answer is in nobody's     *)
(* charge: the modal opened next may miss it until it is opened again.)     *)
ChangesAppear ==
    (Mounted /\ entry # None /\ entry.seen = "told")
      ~> (~Mounted \/ entry = None \/ entry.seen # "told")

(* Dashboard.tsx: "Poll lightly while any image/video still lacks its       *)
(* thumbnailBlobId so tiles fill in without a manual refresh."  Whatever    *)
(* happens to a load, a tile shown as pending is filled while the page      *)
(* stays on screen.                                                         *)
OnDrive == Mounted /\ page # "health"
TilesFillIn ==
    (OnDrive /\ tile = "there" /\ entry # None /\ entry.tile = "pending")
      ~> (~OnDrive \/ entry = None \/ entry.tile # "pending")

(* ShareModal.tsx:216: "Refresh the list so the new link appears            *)
(* immediately".  When nothing is under way and nothing failed, the links   *)
(* listed are the links there are.                                          *)
NewLinkListed ==
    key = "shares" /\ entry # None /\ fetch = NoLoad /\ op = [o \in Ops |-> None]
      /\ faults = 0 => entry.seen = "current"

(* The same of every page: without failures, what a fresh entry shows is    *)
(* what the server has.                                                     *)
FreshIsCurrent ==
    entry # None /\ entry.mark = "fresh" /\ ~Owed(op) /\ faults = 0
      => entry.seen = "current"

(* The drive shows rows of its own query.                                   *)
DriveShowsItsRows == OnDrive /\ entry # None => entry.by = "drive"
=============================================================================
