------------------------------ MODULE Library ------------------------------
(***************************************************************************)
(* The folder tree of one library, an account's or an anonymous session's, *)
(* a file that lives in it, and a share link into it.                      *)
(*                                                                         *)
(* The folder resolvers walk and rewrite the tree with one query at a time *)
(* and no transaction; other requests run between two queries.  A step is  *)
(* one query.  Rows obey the foreign keys of the schema: no row points at  *)
(* a folder that does not exist, and deleting a folder lifts what is still *)
(* in it to the root.                                                      *)
(***************************************************************************)
EXTENDS Integers, Sequences, FiniteSets

CONSTANTS
    Folders,    \* folder ids
    Requests,   \* requests; each is one call, from its first query to its end
    MaxViews,   \* maxViews of the share
    MaxAgenda,  \* bound: how deep a recursive delete goes
    Root,       \* parentFolderId = null
    Unborn,     \* an id no folder has yet
    Gone,       \* a deleted row
    TheFile     \* the file

ASSUME LibraryAssumption ==
    /\ MaxViews \in Nat \ {0} /\ MaxAgenda \in Nat
    /\ IsFiniteSet(Folders)
    /\ Folders \cap {Root, Unborn, Gone, TheFile} = {}
    /\ Root \notin {Unborn, Gone, TheFile} /\ Unborn \notin {Gone, TheFile}
    /\ Gone # TheFile

VARIABLES
    anonymous,  \* the library is an anonymous session's
    parent,     \* of each folder; Unborn and Gone stand for no row
    file,       \* the file: where it is, and whether it is in the trash
    share,      \* the share: its row, what it shares, and its views
    req,        \* requests
    raced       \* history: a move was written on a walk another overtook

vars == <<anonymous, parent, file, share, req, raced>>

Exists(f) == f \in Folders /\ parent[f] \notin {Unborn, Gone}
Live == {f \in Folders : Exists(f)}
ChildrenOf(f) == {c \in Folders : parent[c] = f}

(* Walks up: the parents of the folders in S are in S too.  The folders    *)
(* from f upwards, f included, are those in every such set around f.       *)
ClosedIn(p, S) == \A g \in S : p[g] \in Folders => p[g] \in S
PathIn(p, f) == {g \in Folders : f \in Folders /\ \A S \in SUBSET Folders :
                   f \in S /\ ClosedIn(p, S) => g \in S}

RootedIn(p, f) == \E g \in PathIn(p, f) : p[g] = Root

Places == Folders \cup {Root}
Ops == {"create", "move", "delete", "sweep", "moveFile", "trash", "restore",
        "visit", "revoke"}

NewRequest == [op |-> "none", pc |-> "new", on |-> Gone, to |-> Root,
               cursor |-> Root, agenda |-> <<>>, stale |-> FALSE, owed |-> FALSE]

Queries == {"find", "mark", "kids", "list", "drop"}
RequestType ==
    [op : Ops \cup {"none"},
     pc : {"new", "insert", "parent", "walk", "update", "run", "mark", "drop",
           "unshare", "count", "contents", "fetch", "scope", "bytes", "done", "failed"},
     on : Folders \cup {TheFile, Gone}, to : Places, cursor : Places,
     agenda : Seq(Queries \X Folders), stale : BOOLEAN, owed : BOOLEAN]

TypeOK ==
    /\ anonymous \in BOOLEAN
    /\ parent \in [Folders -> Places \cup {Unborn, Gone}]
    /\ \A f \in Folders : parent[f] \in Folders => Exists(parent[f])
    /\ file \in [in : Places, trash : BOOLEAN]
    /\ file.in \in Folders => Exists(file.in)
    /\ share \in [row : {"active", "revoked", "expired", "gone"},
                  of : Folders \cup {TheFile}, views : Nat]
    /\ share.row # "gone" /\ share.of # TheFile => Exists(share.of)
    /\ req \in [Requests -> RequestType]
    /\ raced \in BOOLEAN

(* Any tree, the file anywhere in it, a link to the file or, in an         *)
(* anonymous library, to a folder.                                         *)
Init ==
    /\ anonymous \in BOOLEAN
    /\ parent \in [Folders -> Places \cup {Unborn}]
    /\ \A f \in Live : RootedIn(parent, f)
    /\ file \in [in : Live \cup {Root}, trash : {FALSE}]
    /\ share \in [row : {"active"}, of : {TheFile} \cup (IF anonymous THEN Live ELSE {}),
                  views : 0 .. MaxViews - 1]
    /\ req = [r \in Requests |-> NewRequest]
    /\ raced = FALSE

-----------------------------------------------------------------------------
At(r, op, pc) == req[r].op = op /\ req[r].pc = pc
Running(r) == req[r].pc \notin {"new", "done", "failed"}

Goto(r, pc) == req' = [req EXCEPT ![r].pc = pc]
Fail(r) == Goto(r, "failed")
Done(r) == Goto(r, "done")

Begin(r, op, on, to, pc) ==
    /\ req[r].pc = "new"
    /\ req' = [req EXCEPT ![r].op = op, ![r].on = on, ![r].to = to, ![r].pc = pc]

UnchangedTree == UNCHANGED <<anonymous, parent, file, raced>>

(* What a recursive delete still owes the file: it was in there, and nobody *)
(* has moved it, or moved or deleted a folder around it, since.            *)
Disowned(r, f) == [req[r] EXCEPT
    !.owed = @ /\ ~(f = TheFile \/ f \in PathIn(parent, file.in))]

-----------------------------------------------------------------------------
(* createFolder, createAnonymousFolder; Folders bounds how many there are. *)

CreateFolder(r) ==
    \/ \E to \in Places :
         /\ Begin(r, "create", Gone, to,
                  IF to \in Folders => Exists(to) THEN "insert" ELSE "failed")
         /\ UNCHANGED share /\ UnchangedTree
    \/ /\ At(r, "create", "insert")
       /\ \/ /\ req[r].to \in Folders => Exists(req[r].to)
             /\ \E f \in Folders : /\ parent[f] = Unborn
                                   /\ parent' = [parent EXCEPT ![f] = req[r].to]
             /\ Done(r)
          \/ /\ ~(req[r].to \in Folders => Exists(req[r].to))
                  \/ \A f \in Folders : parent[f] # Unborn
             /\ Fail(r) /\ UNCHANGED parent
       /\ UNCHANGED <<anonymous, file, share, raced>>

-----------------------------------------------------------------------------
(* moveFolder, moveAnonymousFolder                                         *)

MoveFind(r) ==
    /\ \E f \in Folders, to \in Places :
         /\ parent[f] # Unborn /\ (to \in Folders => parent[to] # Unborn)
         /\ Begin(r, "move", f, to,
                  IF ~Exists(f) \/ to = f THEN "failed"
                  ELSE IF to = Root THEN "update" ELSE "parent")
    /\ UNCHANGED share /\ UnchangedTree

Climb(r, f) == req' = [req EXCEPT ![r].cursor = f,
                                  ![r].pc = IF f = Root THEN "update" ELSE "walk"]

MoveParent(r) ==
    /\ At(r, "move", "parent")
    /\ IF Exists(req[r].to) THEN Climb(r, parent[req[r].to]) ELSE Fail(r)
    /\ UNCHANGED share /\ UnchangedTree

(* Mutant: the walk looks at the parent's parent only. *)
MoveWalkOnce(r) ==
    /\ At(r, "move", "walk")
    /\ IF req[r].cursor = req[r].on THEN Fail(r) ELSE Climb(r, Root)
    /\ UNCHANGED share /\ UnchangedTree

(* One ancestor at a time; an ancestor deleted meanwhile ends the walk. *)
MoveWalk(r) ==
    /\ At(r, "move", "walk")
    /\ LET cursor == req[r].cursor
       IN  IF cursor = req[r].on THEN Fail(r)
           ELSE Climb(r, IF Exists(cursor) THEN parent[cursor] ELSE Root)
    /\ UNCHANGED share /\ UnchangedTree

(* The update trusts the walk.  It fails if a row is gone. *)
MoveUpdate(r) ==
    /\ At(r, "move", "update")
    /\ LET f == req[r].on to == req[r].to
       IN  IF Exists(f) /\ (to \in Folders => Exists(to))
             THEN /\ parent' = [parent EXCEPT ![f] = to]
                  /\ raced' = (raced \/ (req[r].stale /\ to # Root))
                  /\ req' = [q \in Requests |->
                       IF q = r THEN [req[r] EXCEPT !.pc = "done"]
                       ELSE [Disowned(q, f) EXCEPT !.stale = @ \/ req[q].op = "move"]]
             ELSE Fail(r) /\ UNCHANGED <<parent, raced>>
    /\ UNCHANGED <<anonymous, file, share>>

-----------------------------------------------------------------------------
(* deleteFolder: softDeleteFilesInTree, then deleteFolderTree.  An         *)
(* anonymous library does both in one recursion that finds each folder     *)
(* again.  The agenda is the stack of calls, the next query first.         *)

Agenda(r) == req[r].agenda
NextOn(r, what) == /\ At(r, "delete", "run") /\ Agenda(r) # <<>>
                   /\ Head(Agenda(r))[1] = what
Target(r) == Head(Agenda(r))[2]

Proceed(r, first) ==
    LET rest == first \o Tail(Agenda(r))
    IN  req' = [req EXCEPT ![r].agenda = rest,
                           ![r].pc = IF rest = <<>> THEN "done" ELSE "run"]

(* The calls for the children of f, in the order the query returns them:   *)
(* for each child the queries "what", one after the other.                 *)
Calls(f, what) ==
    LET kids == ChildrenOf(f)
        n == Cardinality(kids)
        Order == {o \in [1 .. n -> kids] : \A c \in kids : \E i \in 1 .. n : o[i] = c}
        k == Len(what)
    IN  {[j \in 1 .. n * k |-> <<what[1 + ((j - 1) % k)], o[1 + ((j - 1) \div k)]>>] :
           o \in Order}

DeleteFolder(r) ==
    /\ req[r].pc = "new"
    /\ \E f \in Folders :
         /\ parent[f] # Unborn
         /\ req' = [req EXCEPT ![r].op = "delete", ![r].on = f, ![r].pc = "run",
                               ![r].agenda = << <<"find", f>> >>,
                               ![r].owed = ~file.trash /\ f \in PathIn(parent, file.in)]
    /\ UNCHANGED share /\ UnchangedTree

DeleteFind(r) ==
    /\ NextOn(r, "find") /\ Len(Agenda(r)) <= MaxAgenda
    /\ LET f == Target(r)
       IN  IF Exists(f)
             THEN Proceed(r, << <<"mark", f>>, <<"kids", f>>,
                                <<IF anonymous THEN "drop" ELSE "list", f>> >>)
             ELSE Fail(r)
    /\ UNCHANGED share /\ UnchangedTree

(* updateMany: the files in this folder go to the trash. *)
DeleteMark(r) ==
    /\ NextOn(r, "mark")
    /\ file' = [file EXCEPT !.trash = @ \/ file.in = Target(r)]
    /\ Proceed(r, <<>>)
    /\ UNCHANGED <<anonymous, parent, share, raced>>

(* Mutant: the files of subfolders are left where they are. *)
DeleteKidsShallow(r) ==
    /\ NextOn(r, "kids")
    /\ IF anonymous
         THEN \E first \in Calls(Target(r), <<"find">>) :
                Proceed(r, first)
         ELSE Proceed(r, <<>>)
    /\ UNCHANGED share /\ UnchangedTree

DeleteKids(r) ==
    /\ NextOn(r, "kids")
    /\ \E first \in Calls(Target(r), IF anonymous THEN <<"find">> ELSE <<"mark", "kids">>) :
         Proceed(r, first)
    /\ UNCHANGED share /\ UnchangedTree

DeleteList(r) ==
    /\ NextOn(r, "list") /\ Len(Agenda(r)) <= MaxAgenda
    /\ \E first \in Calls(Target(r), <<"list">>) :
         Proceed(r, first \o << <<"drop", Target(r)>> >>)
    /\ UNCHANGED share /\ UnchangedTree

(* The foreign keys lift what is left inside to the root and take the      *)
(* folder's links along.                                                   *)
Drop(f) ==
    /\ parent' = [g \in Folders |-> IF g = f THEN Gone
                      ELSE IF parent[g] = f THEN Root ELSE parent[g]]
    /\ file' = [file EXCEPT !.in = IF @ = f THEN Root ELSE @]
    /\ share' = [share EXCEPT !.row = IF share.of = f THEN "gone" ELSE @]

(* db.folder.delete fails if the row is gone. *)
DeleteDrop(r) ==
    /\ NextOn(r, "drop")
    /\ LET f == Target(r)
       IN  IF Exists(f)
             THEN /\ Drop(f)
                  /\ LET rest == Tail(Agenda(r))
                     IN  req' = [q \in Requests |->
                           IF q # r THEN Disowned(q, f)
                           ELSE [req[r] EXCEPT !.agenda = rest,
                                   !.pc = IF rest = <<>> THEN "done" ELSE "run"]]
             ELSE Fail(r) /\ UNCHANGED <<parent, file, share>>
    /\ UNCHANGED <<anonymous, raced>>

-----------------------------------------------------------------------------
(* purgeExpiredAnonymousFiles, its first half: the sweep lists the folders *)
(* past their TTL, and removes one after the other.  A request here is its *)
(* work on one of them, from the list on.                                  *)

SweepList(r) ==
    /\ anonymous
    /\ \E f \in Live : Begin(r, "sweep", f, Root, "mark")
    /\ UNCHANGED share /\ UnchangedTree

SweepMark(r) ==
    /\ At(r, "sweep", "mark") /\ Goto(r, "drop")
    /\ file' = [file EXCEPT !.trash = @ \/ file.in = req[r].on]
    /\ UNCHANGED <<anonymous, parent, share, raced>>

(* A folder that is gone is logged and skipped. *)
SweepDrop(r) ==
    /\ At(r, "sweep", "drop")
    /\ LET f == req[r].on
       IN  IF Exists(f)
             THEN /\ Drop(f)
                  /\ req' = [q \in Requests |->
                       IF q # r THEN Disowned(q, f) ELSE [req[r] EXCEPT !.pc = "done"]]
             ELSE Fail(r) /\ UNCHANGED <<parent, file, share>>
    /\ UNCHANGED <<anonymous, raced>>

-----------------------------------------------------------------------------
(* The file: moveFile, deleteFile, restoreFile and their anonymous twins   *)

FindFile(r) ==
    \E op \in {"moveFile", "trash", "restore"}, to \in Places :
        /\ op # "moveFile" => to = Root
        /\ to \in Folders => parent[to] # Unborn
        /\ op = "restore" => ~anonymous
        /\ Begin(r, op, TheFile, IF op = "restore" THEN file.in ELSE to,
                 CASE op = "moveFile" -> IF anonymous /\ file.trash THEN "failed"
                                         ELSE IF to = Root THEN "update" ELSE "parent"
                   [] op = "trash" -> IF anonymous /\ file.trash THEN "failed" ELSE "update"
                   [] op = "restore" -> IF ~file.trash THEN "failed"
                                        ELSE IF file.in = Root THEN "update" ELSE "parent")
        /\ UNCHANGED share /\ UnchangedTree

(* A restore whose folder is gone goes to the root. *)
FileParent(r) ==
    /\ \E op \in {"moveFile", "restore"} : At(r, op, "parent")
    /\ IF Exists(req[r].to) THEN Goto(r, "update")
       ELSE IF req[r].op = "moveFile" THEN Fail(r)
       ELSE req' = [req EXCEPT ![r].to = Root, ![r].pc = "update"]
    /\ UNCHANGED share /\ UnchangedTree

FileUpdate(r) ==
    LET to == req[r].to
        op == req[r].op
        ok == op = "trash" \/ to = Root \/ Exists(to)
    IN  /\ op \in {"moveFile", "trash", "restore"} /\ req[r].pc = "update"
        /\ file' = IF ~ok THEN file
                   ELSE IF op = "trash" THEN [file EXCEPT !.trash = TRUE]
                   ELSE [in |-> to, trash |-> file.trash /\ op = "moveFile"]
        /\ req' = [q \in Requests |->
                     IF q = r THEN [req[r] EXCEPT !.pc = IF ~ok THEN "failed"
                                     ELSE IF op = "trash" THEN "unshare" ELSE "done"]
                     ELSE IF ok /\ op # "trash" THEN Disowned(q, TheFile) ELSE req[q]]
        /\ UNCHANGED <<anonymous, parent, share, raced>>

(* The links to a file in the trash are deleted; a folder's delete leaves  *)
(* the links to the files in it.                                           *)
TrashUnshares(r) ==
    /\ At(r, "trash", "unshare") /\ Done(r)
    /\ share' = [share EXCEPT !.row = IF share.of = TheFile THEN "gone" ELSE @]
    /\ UnchangedTree

-----------------------------------------------------------------------------
(* A visitor opens the link: accessShare, then GET /api/share/blob         *)

Open(limit) == share.row = "active" /\ share.views < limit

(* Mutant: one view too many. *)
VisitPastLimit(r) ==
    /\ Begin(r, "visit", share.of, Root,
             IF Open(MaxViews + 1) THEN "count" ELSE "failed")
    /\ UNCHANGED share /\ UnchangedTree

VisitCheck(r) ==
    /\ Begin(r, "visit", share.of, Root, IF Open(MaxViews) THEN "count" ELSE "failed")
    /\ UNCHANGED share /\ UnchangedTree

(* The increment does not look at the limit; it fails if the row is gone.  *)
VisitCount(r) ==
    /\ At(r, "visit", "count")
    /\ IF share.row = "gone" THEN Fail(r) /\ UNCHANGED share
       ELSE /\ share' = [share EXCEPT !.views = @ + 1]
            /\ req' = [q \in Requests |->
                 IF q = r THEN [req[r] EXCEPT
                                  !.pc = IF req[r].on = TheFile THEN "fetch" ELSE "contents"]
                 ELSE [req[q] EXCEPT !.stale = @ \/ At(q, "visit", "count")]]
    /\ UnchangedTree

(* A folder link lists the files in that folder, not below it. *)
VisitContents(r) ==
    /\ At(r, "visit", "contents")
    /\ IF file = [in |-> req[r].on, trash |-> FALSE] THEN Goto(r, "fetch") ELSE Done(r)
    /\ UNCHANGED share /\ UnchangedTree

(* A chunk: the link again, then for a folder's link the file again. *)
FetchChecks(r) ==
    /\ At(r, "visit", "fetch")
    /\ IF ~Open(MaxViews) THEN Fail(r)
       ELSE Goto(r, IF req[r].on = TheFile THEN "bytes" ELSE "scope")
    /\ UNCHANGED share /\ UnchangedTree

FetchScope(r) ==
    /\ At(r, "visit", "scope")
    /\ IF file = [in |-> req[r].on, trash |-> FALSE] THEN Goto(r, "bytes") ELSE Fail(r)
    /\ UNCHANGED share /\ UnchangedTree

FetchBytes(r) ==
    /\ At(r, "visit", "bytes") /\ Done(r)
    /\ UNCHANGED share /\ UnchangedTree

(* revokeShare, revokeAnonymousShare: find, then update. *)
Revoke(r) ==
    \/ /\ Begin(r, "revoke", share.of, Root, IF share.row = "gone" THEN "failed" ELSE "update")
       /\ UNCHANGED share /\ UnchangedTree
    \/ /\ At(r, "revoke", "update")
       /\ IF share.row = "gone" THEN Fail(r) /\ UNCHANGED share
          ELSE Done(r) /\ share' = [share EXCEPT !.row = "revoked"]
       /\ UnchangedTree

(* expiresAt passes. *)
Expire ==
    /\ share.row = "active" /\ share' = [share EXCEPT !.row = "expired"]
    /\ UNCHANGED req /\ UnchangedTree

-----------------------------------------------------------------------------
Step(r) ==
    \/ CreateFolder(r)
    \/ MoveFind(r) \/ MoveParent(r) \/ MoveWalk(r) \/ MoveUpdate(r)
    \/ DeleteFolder(r) \/ DeleteFind(r) \/ DeleteMark(r) \/ DeleteKids(r)
    \/ DeleteList(r) \/ DeleteDrop(r)
    \/ SweepList(r) \/ SweepMark(r) \/ SweepDrop(r)
    \/ FindFile(r) \/ FileParent(r) \/ FileUpdate(r) \/ TrashUnshares(r)
    \/ VisitCheck(r) \/ VisitCount(r) \/ VisitContents(r)
    \/ FetchChecks(r) \/ FetchScope(r) \/ FetchBytes(r)
    \/ Revoke(r)

Next == (\E r \in Requests : Step(r)) \/ Expire

Spec == Init /\ [][Next]_vars

-----------------------------------------------------------------------------
(* Every folder, and with it every file, can be reached from the root,     *)
(* whatever creations, deletions and moves interleave, unless a move was   *)
(* written on a walk up that another move had overtaken.                   *)
TreeRooted ==
    ~raced => /\ \A f \in Live : RootedIn(parent, f)
              /\ file.in \in Live \cup {Root}

(* A delete that succeeds has put everything in the trash that was in the  *)
(* folder when it began and that nobody took out or restored meanwhile: no *)
(* file of it turns up at the root.  Being lifted out counts as taken out: *)
(* a folder inside is moved away, or the file has been moved into a folder *)
(* that another delete, already past its files, is about to drop.          *)
DeleteIsDeep ==
    \A r \in Requests : At(r, "delete", "done") /\ req[r].owed => file.trash

(* More views than allowed are counted only for visitors whose check       *)
(* another visitor's count had overtaken.                                  *)
ViewsWithinLimit ==
    share.views > MaxViews => \E r \in Requests : req[r].op = "visit" /\ req[r].stale

(* A visitor let in by the link gets its file, unless it is revoked, has   *)
(* expired, or the file has gone.  With the last view the limit is reached *)
(* and the chunks are refused.                                             *)
LastViewerServed ==
    \A r \in Requests :
        At(r, "visit", "failed") /\ req[r].on = TheFile /\ share.row = "active"
          /\ ~req[r].stale => share.views > MaxViews

=============================================================================
