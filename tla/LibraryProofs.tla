--------------------------- MODULE LibraryProofs ---------------------------
(* Proofs about Library, for every value of its constants.                 *)
EXTENDS Library, FiniteSetTheorems, SequenceTheorems, TLAPS

-----------------------------------------------------------------------------
(* The inductive invariant.  Its parts are stated of a request q and of    *)
(* the tree p, the file f and the share s it meets.                        *)

Row(p, x) == x \in Folders /\ p[x] \notin {Unborn, Gone}

(* No set of folders hides from the root: one of them has a parent outside.*)
Loopless(p) == \A S \in SUBSET Folders : S # {} => \E g \in S : p[g] \notin S

(* A walk nobody has overtaken has climbed from its goal without meeting   *)
(* the folder to move; P holds the folders it has passed.                  *)
Climbed(q, p, top) ==
    \E P \in SUBSET Folders : /\ q.to \in P /\ q.on \notin P
                              /\ \A g \in P : p[g] \in P \cup {Root, top}
Walk(q, p) ==
    q.op = "move" =>
        /\ q.on \in Folders
        /\ q.to \in Folders => p[q.to] # Unborn
        /\ q.pc = "parent" => q.to \in Folders /\ q.to # q.on
        /\ q.pc = "walk" => q.to \in Folders /\ q.cursor \in Folders
        /\ ~q.stale /\ Row(p, q.to) =>
             /\ q.pc = "walk" => Climbed(q, p, q.cursor)
             /\ q.pc = "update" => Climbed(q, p, Root)

(* The query x is yet to put the file in the trash, or leads to one that   *)
(* does.                                                                   *)
Covers(x, p, f) ==
    \/ x[1] = "find" /\ x[2] \in PathIn(p, f.in)
    \/ x[1] = "mark" /\ x[2] = f.in
    \/ x[1] = "kids" /\ x[2] \in PathIn(p, f.in) \ {f.in}

(* A delete that owes the file has such a query on its agenda, and none on *)
(* a folder around the file is deleted before it.                          *)
Pending(a, p, f) ==
    /\ \E i \in 1 .. Len(a) : Covers(a[i], p, f)
    /\ \A j \in 1 .. Len(a) :
         a[j][1] \in {"list", "drop"} /\ a[j][2] \in PathIn(p, f.in) =>
             \E i \in 1 .. Len(a) : i < j /\ Covers(a[i], p, f)
Deep(q, p, f) ==
    q.op = "delete" /\ q.owed /\ ~f.trash =>
        /\ q.pc # "done"
        /\ q.pc = "run" => Pending(q.agenda, p, f)

(* A visitor whose check nobody has overtaken finds a view left.           *)
View(q, s) == q.op = "visit" /\ q.pc = "count" /\ ~q.stale => s.views < MaxViews

Good(q, p, f, s) ==
    /\ q.pc = "new" => q.op = "none"
    /\ Walk(q, p) /\ Deep(q, p, f) /\ View(q, s)

AllGood == \A r \in Requests : Good(req[r], parent, file, share)
NoLoop == ~raced => Loopless(parent)

Inv == TypeOK /\ NoLoop /\ ViewsWithinLimit /\ AllGood

-----------------------------------------------------------------------------
(* Paths                                                                   *)

LEMMA PathIs ==
    ASSUME NEW p, NEW x \in Folders
    PROVE  /\ x \in PathIn(p, x) /\ PathIn(p, x) \subseteq Folders
           /\ ClosedIn(p, PathIn(p, x))
           /\ \A S \in SUBSET Folders : x \in S /\ ClosedIn(p, S) => PathIn(p, x) \subseteq S
<1>1. x \in PathIn(p, x) /\ PathIn(p, x) \subseteq Folders
  BY DEF PathIn
<1>2. \A S \in SUBSET Folders : x \in S /\ ClosedIn(p, S) => PathIn(p, x) \subseteq S
  BY DEF PathIn
<1>3. ASSUME NEW g \in PathIn(p, x), p[g] \in Folders PROVE p[g] \in PathIn(p, x)
  BY <1>3 DEF PathIn, ClosedIn
<1> QED
  BY <1>1, <1>2, <1>3 DEF ClosedIn

LEMMA NoPath == \A p, x : x \notin Folders => PathIn(p, x) = {}
BY DEF PathIn

(* A path depends only on the parents along it.                            *)
LEMMA PathSame ==
    ASSUME NEW p, NEW q, NEW x, \A g \in PathIn(p, x) : q[g] = p[g]
    PROVE  PathIn(q, x) = PathIn(p, x)
<1>1. CASE x \notin Folders
  BY <1>1, NoPath
<1>2. CASE x \in Folders
  <2> DEFINE A == PathIn(p, x)
             B == PathIn(q, x)
  <2>1. ClosedIn(q, A) /\ x \in A /\ A \subseteq Folders
    BY <1>2, PathIs DEF ClosedIn
  <2>2. B \subseteq A
    BY <1>2, <2>1, PathIs
  <2>3. ClosedIn(p, B) /\ x \in B
    BY <1>2, <2>2, PathIs DEF ClosedIn
  <2>4. A \subseteq B
    BY <1>2, <2>1, <2>2, <2>3, PathIs
  <2> QED
    BY <2>2, <2>4
<1> QED
  BY <1>1, <1>2

(* Above every folder of a path but the first there is one below it.       *)
LEMMA PathStep ==
    ASSUME NEW p, NEW x, NEW g \in PathIn(p, x), g # x
    PROVE  \E c \in PathIn(p, x) : p[c] = g
<1>1. x \in Folders
  BY NoPath
<1>2. SUFFICES ASSUME \A c \in PathIn(p, x) : p[c] # g PROVE FALSE
  OBVIOUS
<1> DEFINE S == PathIn(p, x) \ {g}
<1>3. x \in S /\ S \in SUBSET Folders
  BY <1>1, PathIs
<1>4. ClosedIn(p, S)
  BY <1>1, <1>2, PathIs DEF ClosedIn
<1>5. PathIn(p, x) \subseteq S
  BY <1>1, <1>3, <1>4, PathIs
<1> QED
  BY <1>5

(* In a tree without loops whose rows keep the foreign key every folder    *)
(* reaches the root, and where every folder does there are no loops.       *)
LEMMA RootedLoopless ==
    ASSUME NEW p \in [Folders -> Places \cup {Unborn, Gone}],
           \A g \in Folders : p[g] \in Folders => Row(p, p[g])
    PROVE  Loopless(p) <=> \A x \in Folders : Row(p, x) => RootedIn(p, x)
<1>1. ASSUME Loopless(p), NEW x \in Folders, Row(p, x) PROVE RootedIn(p, x)
  <2> SUFFICES ASSUME \A g \in PathIn(p, x) : p[g] # Root PROVE FALSE
    BY DEF RootedIn
  <2> DEFINE L == {g \in Folders : Row(p, g)}
  <2>1. x \in L /\ ClosedIn(p, L) /\ L \in SUBSET Folders
    BY <1>1 DEF ClosedIn
  <2>2. PathIn(p, x) \subseteq L
    BY <2>1, PathIs
  <2>3. \A g \in PathIn(p, x) : p[g] \in Folders
    BY <2>2 DEF Row, Places
  <2>4. \A g \in PathIn(p, x) : p[g] \in PathIn(p, x)
    BY <2>3, PathIs DEF ClosedIn
  <2>5. PathIn(p, x) # {} /\ PathIn(p, x) \in SUBSET Folders
    BY PathIs
  <2> QED
    BY <1>1, <2>4, <2>5 DEF Loopless
<1>2. ASSUME \A x \in Folders : Row(p, x) => RootedIn(p, x) PROVE Loopless(p)
  <2> SUFFICES ASSUME NEW S \in SUBSET Folders, S # {}, \A g \in S : p[g] \in S PROVE FALSE
    BY DEF Loopless
  <2>1. PICK x \in S : TRUE
    OBVIOUS
  <2>2. Row(p, x)
    BY LibraryAssumption DEF Row
  <2>3. PICK g \in PathIn(p, x) : p[g] = Root
    BY <1>2, <2>2 DEF RootedIn
  <2>4. PathIn(p, x) \subseteq S
    BY <2>1, PathIs DEF ClosedIn
  <2> QED
    BY <2>3, <2>4, LibraryAssumption
<1> QED
  BY <1>1, <1>2

-----------------------------------------------------------------------------
(* Agendas                                                                 *)

(* The calls for the children of a folder are for them only, and leave     *)
(* none of them and no query out.                                          *)
QueriesPerChild == {<<"find">>, <<"list">>, <<"mark", "kids">>}

LEMMA CallsFit ==
    ASSUME NEW g, NEW what \in QueriesPerChild,
           NEW first \in Calls(g, what)
    PROVE  /\ first \in Seq(Queries \X Folders)
           /\ \A i \in 1 .. Len(first) :
                /\ first[i] = <<first[i][1], first[i][2]>>
                /\ first[i][2] \in ChildrenOf(g)
                /\ \E m \in 1 .. Len(what) : first[i][1] = what[m]
           /\ \A c \in ChildrenOf(g) : \A m \in 1 .. Len(what) :
                \E i \in 1 .. Len(first) : first[i] = <<what[m], c>>
<1> DEFINE kids == ChildrenOf(g)
           n == Cardinality(kids)
           k == Len(what)
<1>1. n \in Nat
  <2>1. kids \subseteq Folders
    BY DEF ChildrenOf
  <2> QED
    BY <2>1, LibraryAssumption, FS_Subset, FS_CardinalityType
<1>2. k \in {1, 2} /\ \A m \in 1 .. k : what[m] \in Queries
  BY DEF Queries, QueriesPerChild
<1>3. PICK o \in [1 .. n -> kids] :
        /\ \A c \in kids : \E i \in 1 .. n : o[i] = c
        /\ first = [j \in 1 .. n * k |->
                      <<what[1 + ((j - 1) % k)], o[1 + ((j - 1) \div k)]>>]
  BY DEF Calls
<1> HIDE DEF n, k
<1>4. n * k \in Nat
  BY <1>1, <1>2
<1>5. Len(first) = n * k /\ DOMAIN first = 1 .. n * k
  BY <1>3, <1>4
<1>6. \A j \in 1 .. n * k : 1 + ((j - 1) % k) \in 1 .. k /\ 1 + ((j - 1) \div k) \in 1 .. n
  <2>1. CASE k = 1
    BY <1>1, <2>1
  <2>2. CASE k = 2
    <3>1. \A j \in 1 .. n + n : /\ 1 + ((j - 1) % 2) \in 1 .. 2
                                /\ 1 + ((j - 1) \div 2) \in 1 .. n
      BY <1>1
    <3>2. n * k = n + n
      BY <1>1, <2>2
    <3> QED
      BY <2>2, <3>1, <3>2
  <2> QED
    BY <1>2, <2>1, <2>2
<1>7. ASSUME NEW j \in 1 .. n * k
      PROVE  /\ first[j] = <<what[1 + ((j - 1) % k)], o[1 + ((j - 1) \div k)]>>
             /\ what[1 + ((j - 1) % k)] \in Queries
             /\ o[1 + ((j - 1) \div k)] \in kids
  BY <1>2, <1>3, <1>6
<1>8. first \in Seq(Queries \X Folders)
  <2>1. kids \subseteq Folders
    BY DEF ChildrenOf
  <2> HIDE DEF kids
  <2>2. ASSUME NEW j \in 1 .. n * k PROVE first[j] \in Queries \X Folders
    <3>1. PICK x \in Queries, y \in kids : first[j] = <<x, y>>
      BY <1>7
    <3> QED
      BY <2>1, <3>1
  <2> QED
    BY <1>3, <1>4, <2>2
<1>9. ASSUME NEW i \in 1 .. Len(first)
      PROVE  /\ first[i] = <<first[i][1], first[i][2]>>
             /\ first[i][2] \in kids
             /\ \E m \in 1 .. k : first[i][1] = what[m]
  <2>1. PICK m \in 1 .. k, y \in kids : first[i] = <<what[m], y>>
    BY <1>5, <1>6, <1>7
  <2> QED
    BY <2>1
<1>10. ASSUME NEW c \in kids, NEW m \in 1 .. k
       PROVE  \E i \in 1 .. Len(first) : first[i] = <<what[m], c>>
  <2>1. PICK e \in 1 .. n : o[e] = c
    BY <1>3
  <2>2. CASE k = 1
    <3>1. e \in 1 .. n * k /\ 1 + ((e - 1) % k) = m /\ 1 + ((e - 1) \div k) = e
      BY <1>1, <2>2
    <3> QED
      BY <1>5, <1>7, <2>1, <3>1
  <2>3. CASE k = 2
    <3> DEFINE j == 2 * (e - 1) + m
    <3>1. j \in 1 .. n * k /\ 1 + ((j - 1) % k) = m /\ 1 + ((j - 1) \div k) = e
      BY <1>1, <2>3
    <3> QED
      BY <1>5, <1>7, <2>1, <3>1
  <2> QED
    BY <1>2, <2>2, <2>3
<1> QED
  BY <1>8, <1>9, <1>10 DEF k

(* The next query is answered and gives way to the queries in "first".  A  *)
(* delete still owes the file: unless the query was the one for the file,  *)
(* what it led to is in "first".                                           *)
LEMMA PendingProceeds ==
    ASSUME NEW a \in Seq(Queries \X Folders), a # <<>>,
           NEW first \in Seq(Queries \X Folders), NEW p, NEW f, Pending(a, p, f),
           Covers(Head(a), p, f) => \E i \in 1 .. Len(first) : Covers(first[i], p, f),
           \A j \in 1 .. Len(first) :
             first[j][1] \in {"list", "drop"} /\ first[j][2] \in PathIn(p, f.in) =>
               \E i \in 1 .. Len(first) : i < j /\ Covers(first[i], p, f)
    PROVE  /\ Pending(first \o Tail(a), p, f)
           /\ first \o Tail(a) # <<>>
<1> DEFINE n == Len(first)
           rest == first \o Tail(a)
<1>1. /\ n \in Nat /\ Len(a) \in Nat \ {0} /\ Head(a) = a[1]
      /\ rest \in Seq(Queries \X Folders) /\ Len(rest) = n + Len(a) - 1
  OBVIOUS
<1>2. \A i \in 1 .. n : rest[i] = first[i]
  OBVIOUS
<1>3. \A i \in 2 .. Len(a) : n + i - 1 \in 1 .. Len(rest) /\ rest[n + i - 1] = a[i]
  OBVIOUS
<1>4. \A j \in n + 1 .. Len(rest) : j - n + 1 \in 2 .. Len(a) /\ rest[j] = a[j - n + 1]
  OBVIOUS
<1>5. \E i \in 1 .. Len(rest) : Covers(rest[i], p, f)
  <2>1. PICK i \in 1 .. Len(a) : Covers(a[i], p, f)
    BY DEF Pending
  <2>2. CASE i = 1
    <3>1. PICK e \in 1 .. n : Covers(first[e], p, f)
      BY <1>1, <2>1, <2>2
    <3> QED
      BY <1>1, <1>2, <3>1
  <2>3. CASE i # 1
    <3>1. i \in 2 .. Len(a)
      BY <1>1, <2>3
    <3> QED
      BY <1>3, <2>1, <3>1
  <2> QED
    BY <2>2, <2>3
<1>6. ASSUME NEW j \in 1 .. Len(rest),
             rest[j][1] \in {"list", "drop"}, rest[j][2] \in PathIn(p, f.in)
      PROVE  \E i \in 1 .. Len(rest) : i < j /\ Covers(rest[i], p, f)
  <2>1. CASE j <= n
    <3> HIDE DEF rest
    <3>1. j \in 1 .. n /\ rest[j] = first[j]
      BY <1>1, <1>2, <2>1
    <3>2. first[j][1] \in {"list", "drop"} /\ first[j][2] \in PathIn(p, f.in)
      BY <1>6, <3>1
    <3>3. PICK i \in 1 .. n : i < j /\ Covers(first[i], p, f)
      BY <3>1, <3>2
    <3>4. i \in 1 .. Len(rest) /\ rest[i] = first[i]
      BY <1>1, <1>2
    <3> QED
      BY <3>3, <3>4
  <2>2. CASE j > n
    <3> DEFINE d == j - n + 1
    <3>1. d \in 2 .. Len(a) /\ rest[j] = a[d]
      BY <1>1, <1>4, <2>2
    <3> HIDE DEF d, rest
    <3>2. d \in 1 .. Len(a) /\ a[d][1] \in {"list", "drop"} /\ a[d][2] \in PathIn(p, f.in)
      BY <1>1, <1>6, <3>1
    <3>3. PICK i \in 1 .. Len(a) : i < d /\ Covers(a[i], p, f)
      BY <3>2 DEF Pending
    <3>4. CASE i = 1
      <4>1. PICK e \in 1 .. n : Covers(first[e], p, f)
        BY <1>1, <3>3, <3>4
      <4> USE DEF rest
      <4>2. e \in 1 .. Len(rest) /\ e < j
        BY <1>1, <2>2
      <4>3. Covers(rest[e], p, f)
        BY <1>2, <4>1
      <4> HIDE DEF rest
      <4> QED
        BY <4>2, <4>3
    <3>5. CASE i # 1
      <4>1. i \in 2 .. Len(a) /\ n + i - 1 < j
        BY <1>1, <3>1, <3>3, <3>5 DEF d
      <4> QED
        BY <1>3, <3>3, <4>1
    <3> QED
      BY <3>4, <3>5
  <2> QED
    BY <1>1, <2>1, <2>2
<1>7. rest # <<>>
  BY <1>1, <1>5
<1> QED
  BY <1>5, <1>6, <1>7 DEF Pending

-----------------------------------------------------------------------------
(* Steps of one request that leave the tree, the file and the share alone  *)

LEMMA QuietStep ==
    ASSUME Inv, UNCHANGED <<anonymous, parent, file, share, raced>>,
           NEW r \in Requests, NEW x \in RequestType, req' = [req EXCEPT ![r] = x],
           Good(x, parent, file, share),
           req[r].op \in {"none", x.op}, x.stale = req[r].stale
    PROVE  Inv'
<1>1. req \in [Requests -> RequestType] /\ req' \in [Requests -> RequestType]
  BY DEF Inv, TypeOK
<1>2. TypeOK'
  BY <1>1 DEF Inv, TypeOK, Exists
<1>3. \A q \in Requests : req'[q] = IF q = r THEN x ELSE req[q]
  BY <1>1
<1>4. AllGood'
  BY <1>3 DEF Inv, AllGood
<1>5. ViewsWithinLimit'
  <2> SUFFICES ASSUME share.views > MaxViews
      PROVE  \E q \in Requests : req'[q].op = "visit" /\ req'[q].stale
    BY DEF ViewsWithinLimit
  <2>1. PICK q \in Requests : req[q].op = "visit" /\ req[q].stale
    BY DEF Inv, ViewsWithinLimit
  <2> QED
    BY <1>3, <2>1
<1> QED
  BY <1>2, <1>4, <1>5 DEF Inv, NoLoop

(* Setting a request's place in its resolver, and what it keeps.           *)
Pcs == {"new", "insert", "parent", "walk", "update", "run", "mark", "drop",
        "unshare", "count", "contents", "fetch", "scope", "bytes", "done", "failed"}

LEMMA GotoFits ==
    ASSUME NEW q \in RequestType, NEW pc \in Pcs
    PROVE  /\ [q EXCEPT !.pc = pc] \in RequestType
           /\ [q EXCEPT !.pc = pc].pc = pc /\ [q EXCEPT !.pc = pc].op = q.op
           /\ [q EXCEPT !.pc = pc].on = q.on /\ [q EXCEPT !.pc = pc].to = q.to
           /\ [q EXCEPT !.pc = pc].cursor = q.cursor
           /\ [q EXCEPT !.pc = pc].agenda = q.agenda
           /\ [q EXCEPT !.pc = pc].stale = q.stale /\ [q EXCEPT !.pc = pc].owed = q.owed
BY DEF RequestType, Pcs

(* A resolver that goes on, and is no move, no delete and no visit at its  *)
(* count, or that fails.                                                   *)
LEMMA GotoStep ==
    ASSUME Inv, UNCHANGED <<anonymous, parent, file, share, raced>>,
           NEW r \in Requests, NEW pc \in Pcs, Goto(r, pc),
           pc # "new",
           \/ pc = "failed"
           \/ /\ req[r].op \notin {"move", "delete"}
              /\ req[r].op = "visit" => pc # "count"
    PROVE  Inv'
<1> DEFINE x == [req[r] EXCEPT !.pc = pc]
<1>1. req[r] \in RequestType /\ Good(req[r], parent, file, share)
  BY DEF Inv, TypeOK, AllGood
<1>2. req' = [req EXCEPT ![r] = x]
  BY DEF Goto
<1>3. /\ x \in RequestType /\ x.pc = pc /\ x.op = req[r].op /\ x.on = req[r].on
      /\ x.to = req[r].to /\ x.stale = req[r].stale
  BY <1>1, GotoFits
<1> HIDE DEF x
<1>4. Good(x, parent, file, share)
  BY <1>1, <1>3 DEF Good, Walk, Deep, View
<1> QED
  BY <1>2, <1>3, <1>4, QuietStep

(* A request that begins, and is not the check of a visitor who is let in. *)
LEMMA BeginStep ==
    ASSUME Inv, UNCHANGED <<anonymous, parent, file, share, raced>>,
           NEW r \in Requests, NEW op \in Ops, NEW on \in Folders \cup {TheFile, Gone},
           NEW to \in Places, NEW pc \in Pcs \ {"new", "walk"}, Begin(r, op, on, to, pc),
           op # "delete",
           op = "visit" /\ pc = "count" => share.views < MaxViews,
           op = "move" => /\ on \in Folders /\ (to \in Folders => parent[to] # Unborn)
                          /\ pc = "parent" => to \in Folders /\ to # on
                          /\ pc = "update" => to = Root
    PROVE  Inv'
<1> DEFINE x == [req[r] EXCEPT !.op = op, !.on = on, !.to = to, !.pc = pc]
<1>1. req[r] \in RequestType /\ Good(req[r], parent, file, share)
  BY DEF Inv, TypeOK, AllGood
<1>2. req' = [req EXCEPT ![r] = x] /\ req[r].op = "none"
  BY <1>1 DEF Begin, Good
<1>3. /\ x \in RequestType /\ x.pc = pc /\ x.op = op /\ x.on = on
      /\ x.to = to /\ x.stale = req[r].stale
  BY <1>1 DEF RequestType, Pcs
<1> HIDE DEF x
<1>4. ~ Row(parent, Root)
  BY LibraryAssumption DEF Row
<1>5. Good(x, parent, file, share)
  BY <1>3, <1>4 DEF Good, Walk, Deep, View
<1> QED
  BY <1>2, <1>3, <1>5, QuietStep

(* The share's target and the file's folder are what a request can be for. *)
LEMMA Fits ==
    ASSUME Inv
    PROVE  /\ share.of \in Folders \cup {TheFile} /\ share.views \in Nat
           /\ file.in \in Places /\ file.trash \in BOOLEAN
           /\ parent \in [Folders -> Places \cup {Unborn, Gone}]
           /\ \A r \in Requests :
                /\ req[r] \in RequestType /\ Good(req[r], parent, file, share)
                /\ req[r].to \in Places /\ req[r].cursor \in Places
                /\ req[r].owed \in BOOLEAN /\ req[r].stale \in BOOLEAN
BY DEF Inv, TypeOK, AllGood, RequestType

LEMMA FindFileInv ==
    ASSUME Inv, NEW r \in Requests, FindFile(r) PROVE Inv'
<1>1. UNCHANGED <<anonymous, parent, file, share, raced>>
  BY DEF FindFile, UnchangedTree
<1>2. PICK op \in {"moveFile", "trash", "restore"}, to \in Places,
           pc \in {"failed", "update", "parent"} :
           Begin(r, op, TheFile, IF op = "restore" THEN file.in ELSE to, pc)
  BY DEF FindFile
<1>3. PICK on \in Places : Begin(r, op, TheFile, on, pc)
  BY <1>2, Fits
<1> QED
  BY <1>1, <1>3, BeginStep DEF Ops, Pcs

LEMMA FileParentInv ==
    ASSUME Inv, NEW r \in Requests, FileParent(r) PROVE Inv'
<1>1. UNCHANGED <<anonymous, parent, file, share, raced>>
  BY DEF FileParent, UnchangedTree
<1>2. req[r].op \in {"moveFile", "restore"}
  BY DEF FileParent, At
<1>3. CASE Goto(r, "update") \/ Goto(r, "failed")
  BY <1>1, <1>2, <1>3, GotoStep DEF Pcs
<1>4. CASE req' = [req EXCEPT ![r].to = Root, ![r].pc = "update"]
  <2>1. PICK x : x = [req[r] EXCEPT !.to = Root, !.pc = "update"]
    OBVIOUS
  <2>2. req' = [req EXCEPT ![r] = x]
    BY <1>4, <2>1
  <2>3. /\ x \in RequestType /\ x.op = req[r].op /\ x.stale = req[r].stale
        /\ x.pc = "update"
    BY <2>1, Fits DEF RequestType, Places
  <2>4. Good(x, parent, file, share)
    BY <1>2, <2>3 DEF Good, Walk, Deep, View
  <2> QED
    BY <1>1, <2>2, <2>3, <2>4, QuietStep
<1> QED
  BY <1>3, <1>4 DEF FileParent, Fail

LEMMA VisitCheckInv ==
    ASSUME Inv, NEW r \in Requests, VisitCheck(r) PROVE Inv'
<1>1. UNCHANGED <<anonymous, parent, file, share, raced>>
  BY DEF VisitCheck, UnchangedTree
<1>2. PICK pc \in {"count", "failed"} :
        /\ Begin(r, "visit", share.of, Root, pc)
        /\ pc = "count" => Open(MaxViews)
  BY DEF VisitCheck
<1>3. /\ "visit" \in Ops /\ Root \in Places /\ pc \in Pcs \ {"new", "walk"}
      /\ share.of \in Folders \cup {TheFile, Gone}
  BY Fits DEF Ops, Pcs, Places
<1>4. pc = "count" => share.views < MaxViews
  BY <1>2 DEF Open
<1> QED
  BY <1>1, <1>2, <1>3, <1>4, BeginStep

LEMMA VisitGoesOnInv ==
    ASSUME Inv, NEW r \in Requests,
           \/ VisitContents(r) \/ FetchChecks(r) \/ FetchScope(r) \/ FetchBytes(r)
    PROVE  Inv'
<1>1. UNCHANGED <<anonymous, parent, file, share, raced>>
  BY DEF VisitContents, FetchChecks, FetchScope, FetchBytes, UnchangedTree
<1>2. req[r].op = "visit"
  BY DEF VisitContents, FetchChecks, FetchScope, FetchBytes, At
<1>3. PICK pc \in {"fetch", "done", "failed", "bytes", "scope"} : Goto(r, pc)
  BY DEF VisitContents, FetchChecks, FetchScope, FetchBytes, Fail, Done
<1> QED
  BY <1>1, <1>2, <1>3, GotoStep DEF Pcs

LEMMA MoveFindInv ==
    ASSUME Inv, NEW r \in Requests, MoveFind(r) PROVE Inv'
<1>1. UNCHANGED <<anonymous, parent, file, share, raced>>
  BY DEF MoveFind, UnchangedTree
<1>2. PICK f \in Folders, to \in Places :
        /\ parent[f] # Unborn /\ (to \in Folders => parent[to] # Unborn)
        /\ Begin(r, "move", f, to,
                 IF ~Exists(f) \/ to = f THEN "failed"
                 ELSE IF to = Root THEN "update" ELSE "parent")
  BY DEF MoveFind
<1>3. PICK pc \in {"failed", "update", "parent"} :
        /\ Begin(r, "move", f, to, pc)
        /\ pc = "parent" => to # Root /\ to # f
        /\ pc = "update" => to = Root
  BY <1>2
<1> QED
  BY <1>1, <1>2, <1>3, BeginStep DEF Ops, Pcs, Places

LEMMA MoveParentInv ==
    ASSUME Inv, NEW r \in Requests, MoveParent(r) PROVE Inv'
<1>1. UNCHANGED <<anonymous, parent, file, share, raced>> /\ At(r, "move", "parent")
  BY DEF MoveParent, UnchangedTree
<1>2. CASE Goto(r, "failed")
  BY <1>1, <1>2, GotoStep DEF Pcs
<1>3. CASE Exists(req[r].to) /\ Climb(r, parent[req[r].to])
  <2>1. PICK top \in Places : top = parent[req[r].to]
    BY <1>3, Fits DEF Exists
  <2>2. PICK x : x = [req[r] EXCEPT !.cursor = top,
                                    !.pc = IF top = Root THEN "update" ELSE "walk"]
    OBVIOUS
  <2>3. req' = [req EXCEPT ![r] = x]
    BY <1>3, <2>1, <2>2 DEF Climb
  <2>4. /\ x \in RequestType /\ x.op = req[r].op /\ x.stale = req[r].stale
        /\ x.pc = (IF top = Root THEN "update" ELSE "walk") /\ x.cursor = top
        /\ x.to = req[r].to /\ x.on = req[r].on
    BY <2>1, <2>2, Fits DEF RequestType
  <2>5. Walk(req[r], parent) /\ req[r].op = "move" /\ req[r].pc = "parent"
    BY <1>1, Fits DEF At, Good
  <2>6. Climbed(x, parent, top)
    <3> DEFINE P == {x.to}
    <3>1. P \in SUBSET Folders /\ x.to \in P /\ x.on \notin P
          /\ \A g \in P : parent[g] \in P \cup {Root, top}
      BY <2>1, <2>4, <2>5 DEF Walk
    <3> QED
      BY <3>1 DEF Climbed
  <2>7. Walk(x, parent)
    BY <2>1, <2>4, <2>5, <2>6 DEF Walk, Places
  <2>8. Good(x, parent, file, share)
    BY <2>4, <2>5, <2>7 DEF Good, Deep, View
  <2> QED
    BY <1>1, <2>3, <2>4, <2>8, QuietStep
<1> QED
  BY <1>2, <1>3 DEF MoveParent, Fail

LEMMA MoveWalkInv ==
    ASSUME Inv, NEW r \in Requests, MoveWalk(r) PROVE Inv'
<1>1. UNCHANGED <<anonymous, parent, file, share, raced>> /\ At(r, "move", "walk")
  BY DEF MoveWalk, UnchangedTree
<1>2. CASE Goto(r, "failed")
  BY <1>1, <1>2, GotoStep DEF Pcs
<1>3. CASE /\ req[r].cursor # req[r].on
           /\ Climb(r, IF Exists(req[r].cursor) THEN parent[req[r].cursor] ELSE Root)
  <2> DEFINE old == req[r].cursor
  <2>1. PICK top \in Places : top = IF Exists(old) THEN parent[old] ELSE Root
    BY Fits DEF Exists, Places
  <2>2. PICK x : x = [req[r] EXCEPT !.cursor = top,
                                    !.pc = IF top = Root THEN "update" ELSE "walk"]
    OBVIOUS
  <2>3. req' = [req EXCEPT ![r] = x]
    BY <1>3, <2>1, <2>2 DEF Climb
  <2>4. /\ x \in RequestType /\ x.op = req[r].op /\ x.stale = req[r].stale
        /\ x.pc = (IF top = Root THEN "update" ELSE "walk") /\ x.cursor = top
        /\ x.to = req[r].to /\ x.on = req[r].on
    BY <2>1, <2>2, Fits DEF RequestType
  <2>5. Walk(req[r], parent) /\ req[r].op = "move" /\ req[r].pc = "walk"
    BY <1>1, Fits DEF At, Good
  <2>6. ASSUME ~ x.stale, Row(parent, x.to) PROVE Climbed(x, parent, top)
    <3>1. PICK P \in SUBSET Folders :
            /\ x.to \in P /\ x.on \notin P
            /\ \A g \in P : parent[g] \in P \cup {Root, old}
      BY <2>4, <2>5, <2>6 DEF Walk, Climbed
    <3>2. CASE Exists(old)
      <4> DEFINE Q == P \cup {old}
      <4>1. /\ Q \in SUBSET Folders /\ x.to \in Q /\ x.on \notin Q
            /\ \A g \in Q : parent[g] \in Q \cup {Root, top}
        BY <1>3, <2>1, <2>4, <3>1, <3>2 DEF Exists
      <4> QED
        BY <4>1 DEF Climbed
    <3>3. CASE ~ Exists(old)
      <4>1. \A g \in P : parent[g] # old
        BY <2>5, <3>3 DEF Inv, TypeOK, Walk
      <4> QED
        BY <3>1, <4>1 DEF Climbed
    <3> QED
      BY <3>2, <3>3
  <2>7. Walk(x, parent)
    BY <2>1, <2>4, <2>5, <2>6 DEF Walk, Places
  <2>8. Good(x, parent, file, share)
    BY <2>4, <2>5, <2>7 DEF Good, Deep, View
  <2> QED
    BY <1>1, <2>3, <2>4, <2>8, QuietStep
<1> QED
  BY <1>2, <1>3 DEF MoveWalk, Fail

-----------------------------------------------------------------------------
(* Deletes                                                                 *)

(* The request whose agenda has become "rest".                             *)
Advanced(q, rest) ==
    [q EXCEPT !.agenda = rest, !.pc = IF rest = <<>> THEN "done" ELSE "run"]

(* A delete whose next query is answered, in the tree p with the file at f.*)
LEMMA Advances ==
    ASSUME NEW q \in RequestType, q.op = "delete", q.pc = "run", q.agenda # <<>>,
           NEW first \in Seq(Queries \X Folders), NEW p, NEW f, NEW s, Deep(q, p, f),
           q.owed /\ ~ f.trash =>
             /\ Covers(Head(q.agenda), p, f) => \E i \in 1 .. Len(first) : Covers(first[i], p, f)
             /\ \A j \in 1 .. Len(first) :
                  first[j][1] \in {"list", "drop"} /\ first[j][2] \in PathIn(p, f.in) =>
                    \E i \in 1 .. Len(first) : i < j /\ Covers(first[i], p, f),
           NEW x, x = Advanced(q, first \o Tail(q.agenda))
    PROVE  /\ x \in RequestType /\ x.op = "delete" /\ x.stale = q.stale
           /\ Good(x, p, f, s)
<1>1. PICK rest : rest = first \o Tail(q.agenda)
  OBVIOUS
<1>2. q.agenda \in Seq(Queries \X Folders)
  BY DEF RequestType
<1>3. rest \in Seq(Queries \X Folders)
  BY <1>1, <1>2
<1>4. /\ x \in RequestType /\ x.op = "delete" /\ x.stale = q.stale /\ x.owed = q.owed
      /\ x.agenda = rest /\ x.pc = IF rest = <<>> THEN "done" ELSE "run"
  BY <1>1, <1>3 DEF Advanced, RequestType
<1>5. ASSUME q.owed, ~ f.trash PROVE Pending(rest, p, f) /\ rest # <<>>
  BY <1>1, <1>2, <1>5, PendingProceeds DEF Deep
<1>6. Good(x, p, f, s)
  BY <1>4, <1>5 DEF Good, Walk, Deep, View
<1> QED
  BY <1>4, <1>6

(* What the next query of a delete is.                                     *)
LEMMA NextIs ==
    ASSUME Inv, NEW r \in Requests, NEW what, NextOn(r, what)
    PROVE  /\ req[r] \in RequestType /\ req[r].op = "delete" /\ req[r].pc = "run"
           /\ req[r].agenda # <<>> /\ Target(r) \in Folders
           /\ Head(req[r].agenda)[1] = what /\ Head(req[r].agenda)[2] = Target(r)
           /\ Deep(req[r], parent, file)
           /\ what \in {"list", "drop"} /\ req[r].owed /\ ~ file.trash =>
                Target(r) \notin PathIn(parent, file.in)
<1> DEFINE a == req[r].agenda
<1>1. req[r] \in RequestType /\ a \in Seq(Queries \X Folders) /\ a # <<>>
  BY Fits DEF NextOn, Agenda, RequestType
<1>2. Head(a) \in Queries \X Folders /\ Head(a) = a[1] /\ 1 \in 1 .. Len(a) /\ Len(a) \in Nat
  BY <1>1
<1>3. req[r].op = "delete" /\ req[r].pc = "run" /\ Target(r) = a[1][2] /\ a[1][1] = what
  BY <1>2 DEF NextOn, At, Target, Agenda
<1>4. Deep(req[r], parent, file)
  BY Fits DEF Good
<1>5. ASSUME what \in {"list", "drop"}, req[r].owed, ~ file.trash,
             Target(r) \in PathIn(parent, file.in)
      PROVE  FALSE
  <2>1. Pending(a, parent, file)
    BY <1>3, <1>4, <1>5 DEF Deep
  <2>2. \E i \in 1 .. Len(a) : i < 1
    BY <1>2, <1>3, <1>5, <2>1 DEF Pending
  <2> QED
    BY <1>2, <2>2
<1> QED
  BY <1>1, <1>2, <1>3, <1>4, <1>5

LEMMA ProceedStep ==
    ASSUME Inv, UNCHANGED <<anonymous, parent, file, share, raced>>,
           NEW r \in Requests, NEW what, NextOn(r, what),
           NEW first \in Seq(Queries \X Folders), Proceed(r, first),
           req[r].owed /\ ~ file.trash =>
             /\ Covers(Head(req[r].agenda), parent, file) =>
                  \E i \in 1 .. Len(first) : Covers(first[i], parent, file)
             /\ \A j \in 1 .. Len(first) :
                  first[j][1] \in {"list", "drop"} /\ first[j][2] \in PathIn(parent, file.in) =>
                    \E i \in 1 .. Len(first) : i < j /\ Covers(first[i], parent, file)
    PROVE  Inv'
<1>1. PICK x : x = Advanced(req[r], first \o Tail(req[r].agenda))
  OBVIOUS
<1>2. req' = [req EXCEPT ![r] = x]
  BY <1>1 DEF Proceed, Advanced, Agenda
<1>3. /\ req[r] \in RequestType /\ req[r].op = "delete" /\ req[r].pc = "run"
      /\ req[r].agenda # <<>> /\ Deep(req[r], parent, file)
  BY NextIs
<1>4. x \in RequestType /\ x.op = "delete" /\ x.stale = req[r].stale
      /\ Good(x, parent, file, share)
  BY <1>1, <1>3, Advances
<1> QED
  BY <1>2, <1>3, <1>4, QuietStep

LEMMA DeleteFolderInv ==
    ASSUME Inv, NEW r \in Requests, DeleteFolder(r) PROVE Inv'
<1>1. UNCHANGED <<anonymous, parent, file, share, raced>> /\ req[r].pc = "new"
  BY DEF DeleteFolder, UnchangedTree
<1>2. PICK f \in Folders :
        req' = [req EXCEPT ![r].op = "delete", ![r].on = f, ![r].pc = "run",
                           ![r].agenda = << <<"find", f>> >>,
                           ![r].owed = ~file.trash /\ f \in PathIn(parent, file.in)]
  BY DEF DeleteFolder
<1>3. PICK a : a = << <<"find", f>> >>
  OBVIOUS
<1>4. a \in Seq(Queries \X Folders) /\ Len(a) = 1 /\ a[1] = <<"find", f>>
  BY <1>3 DEF Queries
<1>5. PICK w \in BOOLEAN : w = (~file.trash /\ f \in PathIn(parent, file.in))
  OBVIOUS
<1>6. PICK x : x = [req[r] EXCEPT !.op = "delete", !.on = f, !.pc = "run",
                                  !.agenda = a, !.owed = w]
  OBVIOUS
<1>7. req' = [req EXCEPT ![r] = x]
  BY <1>2, <1>3, <1>5, <1>6
<1>8. /\ x \in RequestType /\ x.op = "delete" /\ x.pc = "run" /\ x.agenda = a
      /\ x.owed = w /\ x.stale = req[r].stale
  BY <1>4, <1>6, Fits DEF RequestType, Ops
<1>9. ASSUME w PROVE Pending(a, parent, file)
  <2>1. f \in PathIn(parent, file.in)
    BY <1>5, <1>9
  <2>2. Covers(a[1], parent, file) /\ 1 \in 1 .. Len(a)
    BY <1>4, <2>1 DEF Covers
  <2>3. \A j \in 1 .. Len(a) : a[j][1] \notin {"list", "drop"}
    BY <1>4
  <2> QED
    BY <2>2, <2>3 DEF Pending
<1>10. Good(x, parent, file, share) /\ req[r].op = "none"
  BY <1>1, <1>8, <1>9, Fits DEF Good, Walk, Deep, View
<1> QED
  BY <1>1, <1>7, <1>8, <1>10, QuietStep

LEMMA DeleteFindInv ==
    ASSUME Inv, NEW r \in Requests, DeleteFind(r) PROVE Inv'
<1>1. UNCHANGED <<anonymous, parent, file, share, raced>> /\ NextOn(r, "find")
  BY DEF DeleteFind, UnchangedTree
<1>2. CASE Goto(r, "failed")
  BY <1>1, <1>2, GotoStep DEF Pcs
<1>3. CASE ~ Goto(r, "failed")
  <2>1. PICK t \in Folders, last \in {"drop", "list"} :
          /\ t = Target(r)
          /\ Proceed(r, << <<"mark", t>>, <<"kids", t>>, <<last, t>> >>)
    BY <1>1, <1>3, NextIs DEF DeleteFind, Fail
  <2>2. PICK first : first = << <<"mark", t>>, <<"kids", t>>, <<last, t>> >>
    OBVIOUS
  <2>3. /\ first \in Seq(Queries \X Folders) /\ Len(first) = 3
        /\ first[1] = <<"mark", t>> /\ first[2] = <<"kids", t>> /\ first[3] = <<last, t>>
    BY <2>2 DEF Queries
  <2>4. ASSUME t \in PathIn(parent, file.in)
        PROVE  \E i \in {1, 2} : Covers(first[i], parent, file)
    BY <2>3, <2>4 DEF Covers
  <2>5. Covers(Head(req[r].agenda), parent, file) => t \in PathIn(parent, file.in)
    BY <1>1, <2>1, NextIs DEF Covers
  <2>6. Covers(Head(req[r].agenda), parent, file) =>
          \E i \in 1 .. Len(first) : Covers(first[i], parent, file)
    BY <2>3, <2>4, <2>5
  <2>7. ASSUME NEW j \in 1 .. Len(first), first[j][1] \in {"list", "drop"},
               first[j][2] \in PathIn(parent, file.in)
        PROVE  \E i \in 1 .. Len(first) : i < j /\ Covers(first[i], parent, file)
    <3>1. j = 3 /\ t \in PathIn(parent, file.in)
      BY <2>3, <2>7
    <3> QED
      BY <2>3, <2>4, <3>1
  <2> QED
    BY <1>1, <2>1, <2>2, <2>3, <2>6, <2>7, ProceedStep
<1> QED
  BY <1>2, <1>3

LEMMA DeleteKidsInv ==
    ASSUME Inv, NEW r \in Requests, DeleteKids(r) PROVE Inv'
<1>1. UNCHANGED <<anonymous, parent, file, share, raced>> /\ NextOn(r, "kids")
  BY DEF DeleteKids, UnchangedTree
<1>2. PICK t : t = Target(r)
  OBVIOUS
<1>3. PICK what : /\ what \in {<<"find">>, <<"mark", "kids">>}
                  /\ \E first \in Calls(t, what) : Proceed(r, first)
  BY <1>2 DEF DeleteKids
<1>4. PICK first : first \in Calls(t, what) /\ Proceed(r, first)
  BY <1>3
<1>5. what \in QueriesPerChild
  BY <1>3 DEF QueriesPerChild
<1>6. /\ first \in Seq(Queries \X Folders)
      /\ \A i \in 1 .. Len(first) : \E m \in 1 .. Len(what) : first[i][1] = what[m]
      /\ \A c \in ChildrenOf(t) : \A m \in 1 .. Len(what) :
           \E i \in 1 .. Len(first) : first[i] = <<what[m], c>>
  BY <1>5, <1>4, CallsFit
<1>7. ASSUME Covers(Head(req[r].agenda), parent, file)
      PROVE  \E i \in 1 .. Len(first) : Covers(first[i], parent, file)
  <2>1. t \in PathIn(parent, file.in) /\ t # file.in
    BY <1>2, <1>1, <1>7, NextIs DEF Covers
  <2>2. PICK c \in PathIn(parent, file.in) : parent[c] = t
    BY <2>1, PathStep
  <2>3. c \in ChildrenOf(t)
    BY <2>2, PathIs, NoPath DEF ChildrenOf
  <2>4. CASE what = <<"find">>
    <3>1. PICK i \in 1 .. Len(first) : first[i] = <<"find", c>>
      BY <1>6, <2>3, <2>4
    <3> QED
      BY <2>2, <3>1 DEF Covers
  <2>5. CASE what = <<"mark", "kids">>
    <3>1. PICK i \in 1 .. Len(first) : first[i] = <<"mark", c>>
      BY <1>6, <2>3, <2>5
    <3>2. PICK j \in 1 .. Len(first) : first[j] = <<"kids", c>>
      BY <1>6, <2>3, <2>5
    <3> QED
      BY <2>2, <3>1, <3>2 DEF Covers
  <2> QED
    BY <1>3, <2>4, <2>5
<1>8. ASSUME NEW j \in 1 .. Len(first) PROVE first[j][1] \notin {"list", "drop"}
  <2>1. PICK m \in 1 .. Len(what) : first[j][1] = what[m]
    BY <1>6
  <2>2. \A e \in 1 .. Len(what) : what[e] \notin {"list", "drop"}
    BY <1>3
  <2> QED
    BY <2>1, <2>2
<1> QED
  BY <1>1, <1>4, <1>6, <1>7, <1>8, ProceedStep

LEMMA DeleteListInv ==
    ASSUME Inv, NEW r \in Requests, DeleteList(r) PROVE Inv'
<1>1. UNCHANGED <<anonymous, parent, file, share, raced>> /\ NextOn(r, "list")
  BY DEF DeleteList, UnchangedTree
<1>2. PICK t, calls :
        /\ t \in Folders /\ t = Target(r)
        /\ calls \in Calls(t, <<"list">>)
        /\ Proceed(r, calls \o << <<"drop", t>> >>)
  BY <1>1, NextIs DEF DeleteList
<1>3. /\ calls \in Seq(Queries \X Folders)
      /\ \A i \in 1 .. Len(calls) : calls[i][2] \in ChildrenOf(t)
  <2>1. PICK what \in QueriesPerChild : what = <<"list">> /\ calls \in Calls(t, what)
    BY <1>2 DEF QueriesPerChild
  <2> QED
    BY <2>1, CallsFit
<1>4. PICK first : first = calls \o << <<"drop", t>> >>
  OBVIOUS
<1>5. /\ first \in Seq(Queries \X Folders)
      /\ \A i \in 1 .. Len(first) : first[i][2] \in ChildrenOf(t) \cup {t}
  <2>1. <<"drop", t>> \in Queries \X Folders
    BY <1>2 DEF Queries
  <2>2. first \in Seq(Queries \X Folders) /\ Len(first) = Len(calls) + 1
    BY <1>3, <1>4, <2>1
  <2>3. \A i \in 1 .. Len(calls) : first[i] = calls[i]
    BY <1>3, <1>4, <2>1
  <2>4. first[Len(calls) + 1] = <<"drop", t>>
    BY <1>3, <1>4, <2>1
  <2>5. ASSUME NEW i \in 1 .. Len(first) PROVE first[i][2] \in ChildrenOf(t) \cup {t}
    <3>1. Len(calls) \in Nat
      BY <1>3
    <3>2. CASE i \in 1 .. Len(calls)
      BY <1>3, <2>3, <3>2
    <3>3. CASE i = Len(calls) + 1
      BY <2>4, <3>3
    <3> QED
      BY <2>2, <3>1, <3>2, <3>3
  <2> QED
    BY <2>2, <2>5
<1>6. ASSUME req[r].owed, ~ file.trash
      PROVE  \A i \in 1 .. Len(first) : first[i][2] \notin PathIn(parent, file.in)
  <2>1. t \notin PathIn(parent, file.in)
    BY <1>1, <1>2, <1>6, NextIs
  <2>2. \A c \in ChildrenOf(t) : c \notin PathIn(parent, file.in)
    BY <1>2, <2>1, PathIs, NoPath DEF ChildrenOf, ClosedIn
  <2> QED
    BY <1>5, <2>1, <2>2
<1>7. ~ Covers(Head(req[r].agenda), parent, file)
  BY <1>1, NextIs DEF Covers
<1> QED
  BY <1>1, <1>2, <1>4, <1>5, <1>6, <1>7, ProceedStep

-----------------------------------------------------------------------------
(* Steps that write the tree, the file or the share                        *)

(* The folders around the file are there.                                  *)
LEMMA PathRows ==
    ASSUME Inv PROVE \A g \in PathIn(parent, file.in) : Exists(g)
<1>1. CASE file.in \notin Folders
  BY <1>1, NoPath
<1>2. CASE file.in \in Folders
  <2> DEFINE L == {g \in Folders : Exists(g)}
  <2>1. file.in \in L /\ L \in SUBSET Folders /\ ClosedIn(parent, L)
    BY <1>2 DEF Inv, TypeOK, ClosedIn
  <2>2. PathIn(parent, file.in) \subseteq L
    BY <1>2, <2>1, PathIs
  <2> QED
    BY <2>2
<1> QED
  BY <1>1, <1>2

(* What a delete owes is kept while the path of the file is.               *)
LEMMA DeepKept ==
    ASSUME NEW q, NEW p, NEW f, Deep(q, p, f), NEW y, NEW p2, NEW f2,
           f2.in = f.in, f.trash => f2.trash,
           y.op = q.op, y.pc = q.pc, y.agenda = q.agenda, y.owed => q.owed,
           y.owed => PathIn(p2, f.in) = PathIn(p, f.in)
    PROVE  Deep(y, p2, f2)
<1> SUFFICES ASSUME y.op = "delete", y.owed, ~ f2.trash
    PROVE  y.pc # "done" /\ (y.pc = "run" => Pending(y.agenda, p2, f2))
  BY DEF Deep
<1>1. y.pc # "done" /\ (y.pc = "run" => Pending(q.agenda, p, f))
  BY DEF Deep
<1>2. \A x : Covers(x, p2, f2) <=> Covers(x, p, f)
  BY DEF Covers
<1>3. Pending(q.agenda, p, f) => Pending(q.agenda, p2, f2)
  BY <1>2 DEF Pending
<1> QED
  BY <1>1, <1>3

LEMMA DisownedFits ==
    ASSUME Inv, NEW q \in Requests, NEW f, NEW y, y = Disowned(q, f)
    PROVE  /\ y \in RequestType /\ y.op = req[q].op /\ y.pc = req[q].pc
           /\ y.on = req[q].on /\ y.to = req[q].to /\ y.cursor = req[q].cursor
           /\ y.agenda = req[q].agenda /\ y.stale = req[q].stale
           /\ y.owed => req[q].owed /\ f # TheFile /\ f \notin PathIn(parent, file.in)
<1>1. PICK w \in BOOLEAN :
        w = (req[q].owed /\ ~(f = TheFile \/ f \in PathIn(parent, file.in)))
  OBVIOUS
<1>2. y = [req[q] EXCEPT !.owed = w]
  BY <1>1 DEF Disowned
<1>3. /\ y \in RequestType /\ y.op = req[q].op /\ y.pc = req[q].pc
      /\ y.on = req[q].on /\ y.to = req[q].to /\ y.cursor = req[q].cursor
      /\ y.agenda = req[q].agenda /\ y.stale = req[q].stale /\ y.owed = w
  BY <1>2, Fits DEF RequestType
<1> QED
  BY <1>1, <1>3

LEMMA ViewsKept ==
    ASSUME Inv, share'.views = share.views,
           \A q \in Requests : req[q].op = "visit" =>
             req'[q].op = "visit" /\ (req[q].stale => req'[q].stale)
    PROVE  ViewsWithinLimit'
BY DEF Inv, ViewsWithinLimit

LEMMA CreateFolderInv ==
    ASSUME Inv, NEW r \in Requests, CreateFolder(r) PROVE Inv'
<1>1. CASE \E to \in Places :
             /\ Begin(r, "create", Gone, to,
                      IF to \in Folders => Exists(to) THEN "insert" ELSE "failed")
             /\ UNCHANGED share /\ UnchangedTree
  <2>1. PICK to \in Places, pc \in {"insert", "failed"} : Begin(r, "create", Gone, to, pc)
    BY <1>1
  <2> QED
    BY <1>1, <2>1, BeginStep DEF UnchangedTree, Ops, Pcs
<1>2. CASE /\ At(r, "create", "insert") /\ Fail(r) /\ UNCHANGED parent
           /\ UNCHANGED <<anonymous, file, share, raced>>
  BY <1>2, GotoStep DEF Fail, Pcs
<1>3. CASE /\ At(r, "create", "insert")
           /\ req[r].to \in Folders => Exists(req[r].to)
           /\ \E f \in Folders : /\ parent[f] = Unborn
                                 /\ parent' = [parent EXCEPT ![f] = req[r].to]
           /\ Done(r)
           /\ UNCHANGED <<anonymous, file, share, raced>>
  <2>1. PICK c \in Folders, to \in Places :
          /\ parent[c] = Unborn /\ (to \in Folders => Exists(to))
          /\ parent' = [parent EXCEPT ![c] = to]
    BY <1>3, Fits
  <2>2. PICK x : x = [req[r] EXCEPT !.pc = "done"]
    OBVIOUS
  <2>3. /\ x \in RequestType /\ x.op = "create" /\ x.pc = "done" /\ x.stale = req[r].stale
        /\ req[r].op = "create"
    <3>1. "done" \in Pcs /\ req[r] \in RequestType /\ req[r].op = "create"
      BY <1>3, Fits DEF Pcs, At
    <3> QED
      BY <2>2, <3>1, GotoFits
  <2>4. \A q \in Requests : req'[q] = IF q = r THEN x ELSE req[q]
    BY <1>3, <2>2 DEF Done, Goto, Inv, TypeOK
  <2>5. \A g \in Folders : /\ parent'[g] = IF g = c THEN to ELSE parent[g]
                           /\ parent[g] # c /\ to # c
    BY <2>1, Fits DEF Inv, TypeOK, Exists
  <2>6. TypeOK'
    <3>1. req' \in [Requests -> RequestType]
      BY <1>3, <2>2, <2>3 DEF Inv, TypeOK, Done, Goto
    <3>2. parent' \in [Folders -> Places \cup {Unborn, Gone}]
      BY <2>1, Fits
    <3>3. \A g : Exists(g) => Exists(g)'
      BY <2>1, <2>5, LibraryAssumption DEF Exists, Places
    <3>4. \A g \in Folders : (parent[g] \in Folders => Exists(parent[g]))'
      <4> SUFFICES ASSUME NEW g \in Folders, parent'[g] \in Folders
          PROVE  Exists(parent'[g]) /\ parent'[parent'[g]] \notin {Unborn, Gone}
        BY DEF Exists
      <4>1. Exists(parent'[g])
        BY <2>1, <2>5 DEF Inv, TypeOK
      <4> QED
        BY <2>1, <2>5, <4>1, LibraryAssumption DEF Exists, Places
    <3> QED
      BY <1>3, <3>1, <3>2, <3>3, <3>4 DEF Inv, TypeOK
  <2>7. NoLoop'
    <3> SUFFICES ASSUME Loopless(parent), NEW S \in SUBSET Folders, S # {}
        PROVE  \E g \in S : parent'[g] \notin S
      BY <1>3 DEF Inv, NoLoop, Loopless
    <3>1. CASE c \in S /\ to \notin S
      BY <2>5, <3>1
    <3>2. CASE c \in S /\ to \in S
      <4>1. to \in S \ {c} /\ S \ {c} \in SUBSET Folders
        BY <2>5, <3>2
      <4>2. PICK g \in S \ {c} : parent[g] \notin S \ {c}
        BY <4>1 DEF Loopless
      <4> QED
        BY <2>5, <4>2
    <3>3. CASE c \notin S
      <4>1. PICK g \in S : parent[g] \notin S
        BY DEF Loopless
      <4> QED
        BY <2>5, <3>3, <4>1
    <3> QED
      BY <3>1, <3>2, <3>3
  <2>8. ASSUME NEW q \in Requests PROVE Good(req'[q], parent', file', share')
    <3>1. CASE q = r
      BY <2>3, <2>4, <3>1 DEF Good, Walk, Deep, View
    <3>2. CASE q # r
      <4>1. req'[q] = req[q] /\ req[q] \in RequestType /\ Good(req[q], parent, file, share)
        BY <2>4, <3>2, Fits
      <4>2. Walk(req[q], parent')
        <5> SUFFICES ASSUME req[q].op = "move"
            PROVE  /\ req[q].to \in Folders => parent'[req[q].to] # Unborn
                   /\ ~ req[q].stale /\ Row(parent', req[q].to) =>
                        /\ req[q].pc = "walk" => Climbed(req[q], parent', req[q].cursor)
                        /\ req[q].pc = "update" => Climbed(req[q], parent', Root)
          BY <4>1 DEF Good, Walk
        <5>1. req[q].to # c /\ (req[q].to \in Folders => parent[req[q].to] # Unborn)
          BY <2>1, <4>1 DEF Good, Walk
        <5>2. /\ req[q].to \in Folders => parent'[req[q].to] = parent[req[q].to]
              /\ Row(parent', req[q].to) => Row(parent, req[q].to)
          BY <2>5, <5>1 DEF Row
        <5>3. ASSUME NEW top \in Places, Climbed(req[q], parent, top)
              PROVE  Climbed(req[q], parent', top)
          <6>1. PICK P \in SUBSET Folders :
                  /\ req[q].to \in P /\ req[q].on \notin P
                  /\ \A g \in P : parent[g] \in P \cup {Root, top}
            BY <5>3 DEF Climbed
          <6>2. c \notin P
            BY <2>1, <6>1, LibraryAssumption DEF Places
          <6>3. \A g \in P : parent'[g] = parent[g]
            BY <2>5, <6>2
          <6> QED
            BY <6>1, <6>3 DEF Climbed
        <5>4. Root \in Places /\ req[q].cursor \in Places
          BY Fits DEF Places
        <5> QED
          BY <4>1, <5>1, <5>2, <5>3, <5>4 DEF Good, Walk
      <4>3. PathIn(parent', file.in) = PathIn(parent, file.in)
        <5>1. c \notin PathIn(parent, file.in)
          BY <2>1, PathRows DEF Exists
        <5>2. \A g \in PathIn(parent, file.in) : parent'[g] = parent[g]
          BY <2>5, <5>1, PathIs, NoPath
        <5> QED
          BY <5>2, PathSame
      <4>4. Deep(req[q], parent', file)
        BY <4>1, <4>3, DeepKept DEF Good
      <4> QED
        BY <1>3, <4>1, <4>2, <4>4 DEF Good
    <3> QED
      BY <3>1, <3>2
  <2>9. ViewsWithinLimit'
    BY <1>3, <2>3, <2>4, ViewsKept
  <2> QED
    BY <2>6, <2>7, <2>8, <2>9 DEF Inv, AllGood
<1> QED
  BY <1>1, <1>2, <1>3 DEF CreateFolder

(* A move written on a walk nobody has overtaken, or to the root, makes no *)
(* loop: the folders it has passed, up to the root, are free of the one it *)
(* moves.                                                                  *)
LEMMA MoveMakesNoLoop ==
    ASSUME NEW p, NEW on \in Folders, NEW to, Loopless(p),
           to # Root => \E P \in SUBSET Folders :
                          /\ to \in P /\ on \notin P
                          /\ \A g \in P : p[g] \in P \cup {Root},
           NEW n, \A g \in Folders : n[g] = IF g = on THEN to ELSE p[g]
    PROVE  Loopless(n)
<1> SUFFICES ASSUME NEW S \in SUBSET Folders, S # {}, \A g \in S : n[g] \in S PROVE FALSE
  BY DEF Loopless
<1>1. Root \notin S
  BY LibraryAssumption
<1>2. on \in S /\ to \in S
  BY DEF Loopless
<1>3. PICK P \in SUBSET Folders :
        to \in P /\ on \notin P /\ \A g \in P : p[g] \in P \cup {Root}
  BY <1>1, <1>2
<1>4. S \cap P # {} /\ S \cap P \in SUBSET Folders
  BY <1>2, <1>3
<1>5. \A g \in S \cap P : p[g] \in S \cap P
  BY <1>1, <1>3
<1> QED
  BY <1>4, <1>5 DEF Loopless

LEMMA MoveUpdateInv ==
    ASSUME Inv, NEW r \in Requests, MoveUpdate(r) PROVE Inv'
<1>1. At(r, "move", "update") /\ UNCHANGED <<anonymous, file, share>>
  BY DEF MoveUpdate
<1>2. CASE Fail(r) /\ UNCHANGED <<parent, raced>>
  BY <1>1, <1>2, GotoStep DEF Fail, Pcs
<1>3. CASE ~ (Fail(r) /\ UNCHANGED <<parent, raced>>)
  <2>1. PICK on, to :
          /\ on = req[r].on /\ to = req[r].to
          /\ Exists(on) /\ (to \in Folders => Exists(to))
          /\ parent' = [parent EXCEPT ![on] = to]
          /\ raced' = (raced \/ (req[r].stale /\ to # Root))
          /\ req' = [q \in Requests |->
               IF q = r THEN [req[r] EXCEPT !.pc = "done"]
               ELSE [Disowned(q, on) EXCEPT !.stale = @ \/ req[q].op = "move"]]
    BY <1>3 DEF MoveUpdate
  <2>2. on \in Folders /\ to \in Places
    BY <2>1, Fits DEF Exists
  <2>3. \A g \in Folders : parent'[g] = IF g = on THEN to ELSE parent[g]
    BY <2>1, <2>2, Fits
  <2>4. PICK x : x = [req[r] EXCEPT !.pc = "done"]
    OBVIOUS
  <2>5. x \in RequestType /\ x.op = "move" /\ x.pc = "done" /\ x.stale = req[r].stale
    <3>1. "done" \in Pcs /\ req[r] \in RequestType /\ req[r].op = "move"
      BY <1>1, Fits DEF Pcs, At
    <3> QED
      BY <2>4, <3>1, GotoFits
  <2>6. req'[r] = x /\ req[r].op = "move"
    BY <1>1, <2>1, <2>4 DEF At
  <2>7. ASSUME NEW q \in Requests, q # r
        PROVE  /\ req'[q] \in RequestType
               /\ req'[q].op = req[q].op /\ req'[q].pc = req[q].pc
               /\ req'[q].on = req[q].on /\ req'[q].to = req[q].to
               /\ req'[q].cursor = req[q].cursor /\ req'[q].agenda = req[q].agenda
               /\ req'[q].owed => req[q].owed /\ on \notin PathIn(parent, file.in)
               /\ req'[q].stale = (req[q].stale \/ req[q].op = "move")
    <3>1. PICK y : y = Disowned(q, on)
      OBVIOUS
    <3>2. PICK w \in BOOLEAN : w = (req[q].stale \/ req[q].op = "move")
      OBVIOUS
    <3>3. /\ y \in RequestType /\ y.op = req[q].op /\ y.pc = req[q].pc
          /\ y.on = req[q].on /\ y.to = req[q].to /\ y.cursor = req[q].cursor
          /\ y.agenda = req[q].agenda /\ y.stale = req[q].stale
          /\ y.owed => req[q].owed /\ on \notin PathIn(parent, file.in)
      BY <3>1, DisownedFits
    <3>4. req'[q] = [y EXCEPT !.stale = w]
      BY <2>1, <2>7, <3>1, <3>2, <3>3
    <3>5. /\ req'[q] \in RequestType
          /\ req'[q].op = y.op /\ req'[q].pc = y.pc /\ req'[q].on = y.on
          /\ req'[q].to = y.to /\ req'[q].cursor = y.cursor
          /\ req'[q].agenda = y.agenda /\ req'[q].owed = y.owed /\ req'[q].stale = w
      BY <3>3, <3>4 DEF RequestType
    <3> QED
      BY <3>2, <3>3, <3>5
  <2>8. TypeOK'
    <3>1. req' \in [Requests -> RequestType]
      <4>1. \A q \in Requests : req'[q] \in RequestType
        BY <2>5, <2>6, <2>7
      <4> QED
        BY <2>1, <4>1
    <3>2. parent' \in [Folders -> Places \cup {Unborn, Gone}]
      BY <2>1, <2>2, Fits
    <3>3. \A g : Exists(g) => Exists(g)'
      BY <2>2, <2>3, LibraryAssumption DEF Exists, Places
    <3>4. \A g \in Folders : (parent[g] \in Folders => Exists(parent[g]))'
      <4> SUFFICES ASSUME NEW g \in Folders, parent'[g] \in Folders
          PROVE  Exists(parent'[g]) /\ parent'[parent'[g]] \notin {Unborn, Gone}
        BY DEF Exists
      <4>1. Exists(parent'[g])
        BY <2>1, <2>3 DEF Inv, TypeOK
      <4> QED
        BY <3>3, <4>1 DEF Exists
    <3>5. raced' \in BOOLEAN
      BY <2>1
    <3> QED
      BY <1>1, <3>1, <3>2, <3>3, <3>4, <3>5 DEF Inv, TypeOK
  <2>9. NoLoop'
    <3> SUFFICES ASSUME ~ raced' PROVE Loopless(parent')
      BY DEF NoLoop
    <3>1. Loopless(parent) /\ (~ req[r].stale \/ to = Root)
      BY <2>1 DEF Inv, NoLoop
    <3>2. ASSUME to # Root
          PROVE  \E P \in SUBSET Folders :
                   /\ to \in P /\ on \notin P
                   /\ \A g \in P : parent[g] \in P \cup {Root}
      <4>1. Row(parent, to) /\ Walk(req[r], parent)
        BY <2>1, <2>2, <3>2, Fits DEF Good, Row, Exists, Places
      <4>2. Climbed(req[r], parent, Root)
        BY <1>1, <2>1, <3>1, <3>2, <4>1 DEF Walk, At
      <4>3. PICK P \in SUBSET Folders :
              /\ to \in P /\ on \notin P
              /\ \A g \in P : parent[g] \in P \cup {Root, Root}
        BY <2>1, <4>2 DEF Climbed
      <4> QED
        BY <4>3
    <3> QED
      BY <2>2, <2>3, <3>1, <3>2, MoveMakesNoLoop
  <2>10. ASSUME NEW q \in Requests PROVE Good(req'[q], parent', file', share')
    <3>1. CASE q = r
      <4>1. Walk(x, parent')
        <5>1. Walk(req[r], parent)
          BY Fits DEF Good
        <5>2. x.on = req[r].on /\ x.to = req[r].to
          BY <2>4, Fits DEF RequestType
        <5>3. to \in Folders => parent'[to] # Unborn
          BY <2>1, <2>2, <2>3, LibraryAssumption DEF Exists, Places
        <5> QED
          BY <2>1, <2>2, <2>5, <5>2, <5>3 DEF Walk
      <4> QED
        BY <2>5, <2>6, <3>1, <4>1 DEF Good, Deep, View
    <3>2. CASE q # r
      <4>1. Good(req[q], parent, file, share)
        BY Fits
      <4>2. Walk(req'[q], parent')
        <5>1. Walk(req[q], parent)
          BY <4>1 DEF Good
        <5>2. \A g \in Folders : parent[g] # Unborn => parent'[g] # Unborn
          BY <2>2, <2>3, LibraryAssumption DEF Places
        <5> QED
          BY <2>7, <3>2, <5>1, <5>2 DEF Walk
      <4>3. ASSUME req'[q].owed
            PROVE  PathIn(parent', file.in) = PathIn(parent, file.in)
        <5>1. on \notin PathIn(parent, file.in)
          BY <2>7, <3>2, <4>3
        <5>2. \A g \in PathIn(parent, file.in) : parent'[g] = parent[g]
          BY <2>3, <5>1, PathIs, NoPath
        <5> QED
          BY <5>2, PathSame
      <4>4. Deep(req'[q], parent', file)
        BY <2>7, <3>2, <4>1, <4>3, DeepKept DEF Good
      <4>5. View(req'[q], share)
        BY <2>7, <3>2, <4>1 DEF Good, View
      <4> QED
        BY <1>1, <2>7, <3>2, <4>1, <4>2, <4>4, <4>5 DEF Good
    <3> QED
      BY <3>1, <3>2
  <2>11. ViewsWithinLimit'
    BY <1>1, <2>6, <2>7, ViewsKept
  <2> QED
    BY <2>8, <2>9, <2>10, <2>11 DEF Inv, AllGood
<1> QED
  BY <1>2, <1>3

(* A query that leads to no further one.                                   *)
LEMMA NoCalls ==
    /\ <<>> \in Seq(Queries \X Folders)
    /\ \A j \in 1 .. Len(<<>>) : FALSE
    /\ \A a \in Seq(Queries \X Folders) : a # <<>> => <<>> \o Tail(a) = Tail(a)
<1>1. <<>> \in Seq(Queries \X Folders) /\ Len(<<>>) = 0
  OBVIOUS
<1>2. ASSUME NEW a \in Seq(Queries \X Folders), a # <<>> PROVE <<>> \o Tail(a) = Tail(a)
  <2> DEFINE X == Queries \X Folders
  <2> HIDE DEF X
  <2>1. \A s \in Seq(X) : s # <<>> => Tail(s) \in Seq(X) /\ <<>> \o Tail(s) = Tail(s)
    BY HeadTailProperties, ConcatEmptySeq
  <2> QED
    BY <1>2, <2>1 DEF X
<1> QED
  BY <1>1, <1>2

LEMMA DeleteMarkInv ==
    ASSUME Inv, NEW r \in Requests, DeleteMark(r) PROVE Inv'
<1>1. NextOn(r, "mark") /\ UNCHANGED <<anonymous, parent, share, raced>>
  BY DEF DeleteMark
<1>2. PICK w \in BOOLEAN : w = (file.trash \/ file.in = Target(r))
  BY Fits
<1>3. file' = [in |-> file.in, trash |-> w] /\ file' \in [in : Places, trash : BOOLEAN]
  BY <1>2 DEF DeleteMark, Inv, TypeOK
<1>4. PICK x : x = Advanced(req[r], <<>> \o Tail(req[r].agenda))
  OBVIOUS
<1>5. req' = [req EXCEPT ![r] = x]
  BY <1>4 DEF DeleteMark, Proceed, Advanced, Agenda
<1>6. /\ req[r] \in RequestType /\ req[r].op = "delete" /\ req[r].pc = "run"
      /\ req[r].agenda # <<>>
  BY <1>1, NextIs
<1>7. \A q \in Requests : Deep(req[q], parent, file')
  BY <1>2, <1>3, Fits, DeepKept DEF Good
<1>8. ~ file'.trash => ~ Covers(Head(req[r].agenda), parent, file')
  <2>1. Head(req[r].agenda)[1] = "mark" /\ Head(req[r].agenda)[2] = Target(r)
    BY <1>1, NextIs
  <2>2. ~ file'.trash => Target(r) # file'.in
    BY <1>2, <1>3
  <2> QED
    BY <2>1, <2>2 DEF Covers
<1>9. PICK first : /\ first = <<>> /\ first \in Seq(Queries \X Folders)
                   /\ \A j \in 1 .. Len(first) : FALSE
  BY NoCalls
<1>10. /\ x \in RequestType /\ x.op = "delete" /\ x.stale = req[r].stale
       /\ Good(x, parent, file', share)
  <2>1. x = Advanced(req[r], first \o Tail(req[r].agenda))
    BY <1>4, <1>9
  <2>2. Deep(req[r], parent, file')
    BY <1>7
  <2>3. /\ first \in Seq(Queries \X Folders)
        /\ \A j \in 1 .. Len(first) :
             first[j][1] \in {"list", "drop"} /\ first[j][2] \in PathIn(parent, file'.in) =>
               \E i \in 1 .. Len(first) : i < j /\ Covers(first[i], parent, file')
    BY <1>9
  <2> QED
    BY <1>6, <1>8, <2>1, <2>2, <2>3, Advances
<1>11. \A q \in Requests : req'[q] = IF q = r THEN x ELSE req[q]
  BY <1>5, <1>6 DEF Inv, TypeOK
<1>12. TypeOK'
  <2>1. req' \in [Requests -> RequestType]
    BY <1>5, <1>10 DEF Inv, TypeOK
  <2> QED
    BY <1>1, <1>3, <2>1 DEF Inv, TypeOK, Exists
<1>13. ASSUME NEW q \in Requests PROVE Good(req'[q], parent', file', share')
  <2>1. CASE q = r
    BY <1>1, <1>10, <1>11, <2>1
  <2>2. CASE q # r
    BY <1>1, <1>7, <1>11, <2>2, Fits DEF Good
  <2> QED
    BY <2>1, <2>2
<1>14. ViewsWithinLimit'
  BY <1>1, <1>6, <1>10, <1>11, ViewsKept
<1> QED
  BY <1>1, <1>12, <1>13, <1>14 DEF Inv, AllGood, NoLoop

(* A folder is dropped: what becomes of the tree, the file and the share,  *)
(* and of the path of a file that is not below it.                         *)
LEMMA DropFits ==
    ASSUME Inv, NEW d \in Folders, Exists(d), Drop(d)
    PROVE  /\ \A g \in Folders : parent'[g] = IF g = d THEN Gone
                                     ELSE IF parent[g] = d THEN Root ELSE parent[g]
           /\ parent' \in [Folders -> Places \cup {Unborn, Gone}]
           /\ file'.in = (IF file.in = d THEN Root ELSE file.in)
           /\ file'.trash = file.trash /\ file' \in [in : Places, trash : BOOLEAN]
           /\ share'.views = share.views /\ share'.of = share.of
           /\ share'.row = (IF share.of = d THEN "gone" ELSE share.row)
           /\ share' \in [row : {"active", "revoked", "expired", "gone"},
                          of : Folders \cup {TheFile}, views : Nat]
           /\ d \notin PathIn(parent, file.in) =>
                PathIn(parent', file.in) = PathIn(parent, file.in) /\ file'.in = file.in
<1>1. parent' = [g \in Folders |-> IF g = d THEN Gone
                   ELSE IF parent[g] = d THEN Root ELSE parent[g]]
  BY DEF Drop
<1>2. \A g \in Folders : parent'[g] = IF g = d THEN Gone
                             ELSE IF parent[g] = d THEN Root ELSE parent[g]
  BY <1>1
<1>3. parent' \in [Folders -> Places \cup {Unborn, Gone}]
  BY <1>1, <1>2, Fits DEF Places
<1>4. /\ file'.in = (IF file.in = d THEN Root ELSE file.in)
      /\ file'.trash = file.trash /\ file' \in [in : Places, trash : BOOLEAN]
  BY DEF Drop, Inv, TypeOK, Places
<1>5. /\ share'.views = share.views /\ share'.of = share.of
      /\ share'.row = (IF share.of = d THEN "gone" ELSE share.row)
      /\ share' \in [row : {"active", "revoked", "expired", "gone"},
                     of : Folders \cup {TheFile}, views : Nat]
  BY DEF Drop, Inv, TypeOK
<1>6. ASSUME d \notin PathIn(parent, file.in)
      PROVE  PathIn(parent', file.in) = PathIn(parent, file.in) /\ file'.in = file.in
  <2>1. \A g \in PathIn(parent, file.in) : parent'[g] = parent[g]
    <3>1. \A g \in PathIn(parent, file.in) : g \in Folders /\ g # d /\ parent[g] # d
      BY <1>6, PathIs, NoPath DEF ClosedIn
    <3> QED
      BY <1>2, <3>1
  <2>2. file.in # d
    BY <1>6, PathIs
  <2> QED
    BY <1>4, <2>1, <2>2, PathSame
<1> QED
  BY <1>2, <1>3, <1>4, <1>5, <1>6

(* A request that drops a folder leaves the others in order: walks pass    *)
(* the gap, and no delete owes a file that was below.                      *)
LEMMA DropStep ==
    ASSUME Inv, NEW r \in Requests, NEW d \in Folders, Exists(d), Drop(d),
           UNCHANGED <<anonymous, raced>>,
           NEW x \in RequestType, x.op = req[r].op, x.stale = req[r].stale,
           Good(x, parent', file', share'),
           req' = [q \in Requests |-> IF q # r THEN Disowned(q, d) ELSE x]
    PROVE  Inv'
<1>1. \A g \in Folders : parent'[g] = IF g = d THEN Gone
                           ELSE IF parent[g] = d THEN Root ELSE parent[g]
  BY DropFits
<1>2. /\ file'.in = (IF file.in = d THEN Root ELSE file.in)
       /\ file'.trash = file.trash /\ file' \in [in : Places, trash : BOOLEAN]
  BY DropFits
<1>3. /\ share'.views = share.views /\ share'.of = share.of
       /\ share'.row = (IF share.of = d THEN "gone" ELSE share.row)
       /\ share' \in [row : {"active", "revoked", "expired", "gone"},
                      of : Folders \cup {TheFile}, views : Nat]
  BY DropFits
<1>4. d \notin PathIn(parent, file.in) =>
         PathIn(parent', file.in) = PathIn(parent, file.in) /\ file'.in = file.in
  BY DropFits
<1>5. ASSUME NEW q \in Requests, q # r
       PROVE  /\ req'[q] \in RequestType
              /\ req'[q].op = req[q].op /\ req'[q].pc = req[q].pc
              /\ req'[q].on = req[q].on /\ req'[q].to = req[q].to
              /\ req'[q].cursor = req[q].cursor /\ req'[q].agenda = req[q].agenda
              /\ req'[q].stale = req[q].stale
              /\ req'[q].owed => req[q].owed /\ d \notin PathIn(parent, file.in)
  <2>1. req'[q] = Disowned(q, d)
    BY <1>5
  <2> QED
    BY <2>1, DisownedFits
<1>6. req'[r] = x
  OBVIOUS
<1>7. TypeOK'
  <2>1. req' \in [Requests -> RequestType]
    <3>1. \A q \in Requests : req'[q] \in RequestType
      BY <1>5, <1>6
    <3> QED
      BY <3>1
  <2>2. parent' \in [Folders -> Places \cup {Unborn, Gone}]
    BY DropFits
  <2>3. \A g : Exists(g) /\ g # d => Exists(g)'
    BY <1>1, LibraryAssumption DEF Exists
  <2>4. \A g \in Folders : (parent[g] \in Folders => Exists(parent[g]))'
    <3> SUFFICES ASSUME NEW g \in Folders, parent'[g] \in Folders
        PROVE  Exists(parent'[g]) /\ parent'[parent'[g]] \notin {Unborn, Gone}
      BY DEF Exists
    <3>1. parent'[g] = parent[g] /\ parent[g] # d
      BY <1>1, LibraryAssumption
    <3>2. Exists(parent[g])
      BY <3>1 DEF Inv, TypeOK
    <3> QED
      BY <2>3, <3>1, <3>2 DEF Exists
  <2>5. (file.in \in Folders => Exists(file.in))'
    BY <1>2, <2>3, LibraryAssumption DEF Inv, TypeOK
  <2>6. (share.row # "gone" /\ share.of # TheFile => Exists(share.of))'
    BY <1>3, <2>3 DEF Inv, TypeOK
  <2> QED
    BY <1>2, <1>3, <2>1, <2>2, <2>4, <2>5, <2>6 DEF Inv, TypeOK
<1>8. NoLoop'
  <2> SUFFICES ASSUME Loopless(parent), NEW S \in SUBSET Folders, S # {}
      PROVE  \E g \in S : parent'[g] \notin S
    BY DEF Inv, NoLoop, Loopless
  <2>1. PICK g \in S : parent[g] \notin S
    BY DEF Loopless
  <2> QED
    BY <1>1, <2>1, LibraryAssumption
<1>9. ASSUME NEW q \in Requests PROVE Good(req'[q], parent', file', share')
  <2>1. CASE q = r
    BY <1>6, <2>1
  <2>2. CASE q # r
    <3>1. Good(req[q], parent, file, share)
      BY Fits
    <3>2. Walk(req'[q], parent')
      <4>1. Walk(req[q], parent)
        BY <3>1 DEF Good
      <4>2. \A g \in Folders : parent[g] # Unborn => parent'[g] # Unborn
        BY <1>1, LibraryAssumption
      <4>3. \A g : Row(parent', g) => Row(parent, g) /\ g # d
        BY <1>1, LibraryAssumption DEF Row, Exists
      <4>4. ASSUME NEW top, Climbed(req[q], parent, top), Row(parent', req[q].to)
            PROVE  Climbed(req'[q], parent', top)
        <5>1. PICK P \in SUBSET Folders :
                /\ req[q].to \in P /\ req[q].on \notin P
                /\ \A g \in P : parent[g] \in P \cup {Root, top}
          BY <4>4 DEF Climbed
        <5> DEFINE Q == P \ {d}
        <5>2. /\ Q \in SUBSET Folders
              /\ req'[q].to \in Q /\ req'[q].on \notin Q
          BY <1>5, <2>2, <4>3, <4>4, <5>1
        <5>3. \A g \in Q : parent'[g] \in Q \cup {Root, top}
          BY <1>1, <5>1
        <5> QED
          BY <5>2, <5>3 DEF Climbed
      <4> QED
        BY <1>5, <2>2, <4>1, <4>2, <4>3, <4>4 DEF Walk
    <3>3. Deep(req'[q], parent', file')
      <4>1. CASE req'[q].owed
        BY <1>2, <1>4, <1>5, <2>2, <3>1, <4>1, DeepKept DEF Good
      <4>2. CASE ~ req'[q].owed
        BY <4>2 DEF Deep
      <4> QED
        BY <4>1, <4>2
    <3>4. View(req'[q], share')
      BY <1>3, <1>5, <2>2, <3>1 DEF Good, View
    <3> QED
      BY <1>5, <2>2, <3>1, <3>2, <3>3, <3>4 DEF Good
  <2> QED
    BY <2>1, <2>2
<1>10. ViewsWithinLimit'
  BY <1>3, <1>5, <1>6, ViewsKept
<1> QED
  BY <1>7, <1>8, <1>9, <1>10 DEF Inv, AllGood

LEMMA DeleteDropInv ==
    ASSUME Inv, NEW r \in Requests, DeleteDrop(r) PROVE Inv'
<1>1. NextOn(r, "drop") /\ UNCHANGED <<anonymous, raced>>
  BY DEF DeleteDrop
<1>2. CASE Fail(r) /\ UNCHANGED <<parent, file, share>>
  BY <1>1, <1>2, GotoStep DEF Fail, Pcs
<1>3. CASE ~ (Fail(r) /\ UNCHANGED <<parent, file, share>>)
  <2>1. Exists(Target(r))
    BY <1>3 DEF DeleteDrop
  <2>2. PICK d : d = Target(r) /\ d \in Folders /\ Exists(d)
    BY <2>1 DEF Exists
  <2>3. PICK rest : rest = Tail(Agenda(r))
    OBVIOUS
  <2>4. Drop(d)
    BY <2>1, <2>2 DEF DeleteDrop
  <2>5. req' = [q \in Requests |->
               IF q # r THEN Disowned(q, d)
               ELSE [req[r] EXCEPT !.agenda = rest,
                       !.pc = IF rest = <<>> THEN "done" ELSE "run"]]
    BY <2>1, <2>2, <2>3 DEF DeleteDrop
  <2>6. /\ req[r] \in RequestType /\ req[r].op = "delete" /\ req[r].pc = "run"
        /\ req[r].agenda # <<>> /\ Deep(req[r], parent, file)
        /\ Head(req[r].agenda)[1] = "drop"
        /\ req[r].owed /\ ~ file.trash => d \notin PathIn(parent, file.in)
    BY <1>1, <2>2, NextIs
  <2>7. /\ file'.trash = file.trash
        /\ d \notin PathIn(parent, file.in) =>
             PathIn(parent', file.in) = PathIn(parent, file.in) /\ file'.in = file.in
    BY <2>2, <2>4, DropFits
  <2>8. PICK x : x = Advanced(req[r], <<>> \o Tail(req[r].agenda))
    OBVIOUS
  <2>9. req' = [q \in Requests |-> IF q # r THEN Disowned(q, d) ELSE x]
    <3>1. <<>> \o Tail(req[r].agenda) = rest
      <4>1. req[r].agenda \in Seq(Queries \X Folders)
        BY <2>6 DEF RequestType
      <4> QED
        BY <2>3, <2>6, <4>1, NoCalls DEF Agenda
    <3> QED
      BY <2>5, <2>8, <3>1 DEF Advanced
  <2>10. /\ x \in RequestType /\ x.op = "delete" /\ x.stale = req[r].stale
         /\ Good(x, parent', file', share')
    <3>1. Deep(req[r], parent', file')
      <4>1. CASE req[r].owed /\ ~ file.trash
        BY <2>6, <2>7, <4>1, DeepKept
      <4>2. CASE ~ (req[r].owed /\ ~ file.trash)
        BY <2>7, <4>2 DEF Deep
      <4> QED
        BY <4>1, <4>2
    <3>2. PICK first : /\ first = <<>> /\ first \in Seq(Queries \X Folders)
                       /\ \A j \in 1 .. Len(first) : FALSE
      BY NoCalls
    <3>3. x = Advanced(req[r], first \o Tail(req[r].agenda))
      BY <2>8, <3>2
    <3>4. /\ first \in Seq(Queries \X Folders)
          /\ \A j \in 1 .. Len(first) :
               first[j][1] \in {"list", "drop"} /\ first[j][2] \in PathIn(parent', file'.in) =>
                 \E i \in 1 .. Len(first) : i < j /\ Covers(first[i], parent', file')
      BY <3>2
    <3>5. ~ Covers(Head(req[r].agenda), parent', file')
      BY <2>6 DEF Covers
    <3> QED
      BY <2>6, <3>1, <3>5, <3>3, <3>4, Advances
  <2> QED
    BY <1>1, <2>2, <2>4, <2>6, <2>9, <2>10, DropStep
<1> QED
  BY <1>2, <1>3

(* The sweep of expired folders owes nobody anything itself.               *)
LEMMA SweepListInv ==
    ASSUME Inv, NEW r \in Requests, SweepList(r) PROVE Inv'
<1>1. UNCHANGED <<anonymous, parent, file, share, raced>>
  BY DEF SweepList, UnchangedTree
<1>2. PICK f \in Folders : Begin(r, "sweep", f, Root, "mark")
  BY DEF SweepList, Live
<1> QED
  BY <1>1, <1>2, BeginStep DEF Ops, Pcs, Places

LEMMA SweepMarkInv ==
    ASSUME Inv, NEW r \in Requests, SweepMark(r) PROVE Inv'
<1>1. /\ req[r].op = "sweep" /\ req[r].pc = "mark"
      /\ UNCHANGED <<anonymous, parent, share, raced>>
  BY DEF SweepMark, At
<1>2. PICK w \in BOOLEAN : w = (file.trash \/ file.in = req[r].on)
  BY Fits
<1>3. file' = [in |-> file.in, trash |-> w] /\ file' \in [in : Places, trash : BOOLEAN]
  BY <1>2 DEF SweepMark, Inv, TypeOK
<1>4. PICK x : x = [req[r] EXCEPT !.pc = "drop"]
  OBVIOUS
<1>5. /\ x \in RequestType /\ x.op = "sweep" /\ x.pc = "drop" /\ x.stale = req[r].stale
      /\ req' = [req EXCEPT ![r] = x]
  <2>1. req[r] \in RequestType
    BY Fits
  <2> QED
    BY <1>1, <1>4, <2>1, GotoFits DEF Pcs, SweepMark, Goto
<1>6. \A q \in Requests : req'[q] = IF q = r THEN x ELSE req[q]
  BY <1>5 DEF Inv, TypeOK
<1>7. \A q \in Requests : Deep(req[q], parent, file')
  BY <1>2, <1>3, Fits, DeepKept DEF Good
<1>8. TypeOK'
  <2>1. req' \in [Requests -> RequestType]
    BY <1>5 DEF Inv, TypeOK
  <2> QED
    BY <1>1, <1>3, <2>1 DEF Inv, TypeOK, Exists
<1>9. ASSUME NEW q \in Requests PROVE Good(req'[q], parent', file', share')
  <2>1. CASE q = r
    BY <1>5, <1>6, <2>1 DEF Good, Walk, Deep, View
  <2>2. CASE q # r
    BY <1>1, <1>6, <1>7, <2>2, Fits DEF Good
  <2> QED
    BY <2>1, <2>2
<1>10. ViewsWithinLimit'
  BY <1>1, <1>5, <1>6, ViewsKept
<1> QED
  BY <1>1, <1>8, <1>9, <1>10 DEF Inv, AllGood, NoLoop

LEMMA SweepDropInv ==
    ASSUME Inv, NEW r \in Requests, SweepDrop(r) PROVE Inv'
<1>1. /\ req[r].op = "sweep" /\ req[r].pc = "drop" /\ req[r] \in RequestType
      /\ UNCHANGED <<anonymous, raced>>
  BY Fits DEF SweepDrop, At
<1>2. CASE Fail(r) /\ UNCHANGED <<parent, file, share>>
  BY <1>1, <1>2, GotoStep DEF Fail, Pcs
<1>3. CASE ~ (Fail(r) /\ UNCHANGED <<parent, file, share>>)
  <2>1. PICK d : d = req[r].on /\ d \in Folders /\ Exists(d)
    BY <1>3 DEF SweepDrop, Exists
  <2>2. PICK x : x = [req[r] EXCEPT !.pc = "done"]
    OBVIOUS
  <2>3. Drop(d) /\ req' = [q \in Requests |-> IF q # r THEN Disowned(q, d) ELSE x]
    BY <1>3, <2>1, <2>2 DEF SweepDrop
  <2>4. x \in RequestType /\ x.op = "sweep" /\ x.pc = "done" /\ x.stale = req[r].stale
    BY <1>1, <2>2, GotoFits DEF Pcs
  <2>5. Good(x, parent', file', share')
    BY <2>4 DEF Good, Walk, Deep, View
  <2> QED
    BY <1>1, <2>1, <2>3, <2>4, <2>5, DropStep
<1> QED
  BY <1>2, <1>3

LEMMA FileUpdateInv ==
    ASSUME Inv, NEW r \in Requests, FileUpdate(r) PROVE Inv'
<1> DEFINE to == req[r].to
           op == req[r].op
           ok == op = "trash" \/ to = Root \/ Exists(to)
<1>1. /\ op \in {"moveFile", "trash", "restore"} /\ req[r].pc = "update"
      /\ UNCHANGED <<anonymous, parent, share, raced>>
      /\ file' = IF ~ok THEN file
                 ELSE IF op = "trash" THEN [file EXCEPT !.trash = TRUE]
                 ELSE [in |-> to, trash |-> file.trash /\ op = "moveFile"]
      /\ req' = [q \in Requests |->
                   IF q = r THEN [req[r] EXCEPT !.pc = IF ~ok THEN "failed"
                                   ELSE IF op = "trash" THEN "unshare" ELSE "done"]
                   ELSE IF ok /\ op # "trash" THEN Disowned(q, TheFile) ELSE req[q]]
  BY DEF FileUpdate
<1>2. PICK pc \in {"failed", "unshare", "done"} :
        pc = IF ~ok THEN "failed" ELSE IF op = "trash" THEN "unshare" ELSE "done"
  OBVIOUS
<1>3. /\ req'[r] \in RequestType /\ req'[r].op = op /\ req'[r].pc = pc
      /\ req'[r].stale = req[r].stale
  <2>1. req'[r] = [req[r] EXCEPT !.pc = pc]
    BY <1>1, <1>2
  <2>2. pc \in Pcs /\ req[r] \in RequestType
    BY Fits DEF Pcs
  <2> QED
    BY <2>1, <2>2, GotoFits
<1>4. ASSUME NEW q \in Requests, q # r
      PROVE  /\ req'[q] \in RequestType
             /\ req'[q].op = req[q].op /\ req'[q].pc = req[q].pc
             /\ req'[q].on = req[q].on /\ req'[q].to = req[q].to
             /\ req'[q].cursor = req[q].cursor /\ req'[q].agenda = req[q].agenda
             /\ req'[q].stale = req[q].stale
             /\ req'[q].owed => req[q].owed /\ ~ (ok /\ op # "trash")
  <2>1. CASE ok /\ op # "trash"
    <3>1. req'[q] = Disowned(q, TheFile)
      BY <1>1, <1>4, <2>1
    <3> QED
      BY <2>1, <3>1, DisownedFits
  <2>2. CASE ~ (ok /\ op # "trash")
    <3>1. req'[q] = req[q]
      BY <1>1, <1>4, <2>2
    <3> QED
      BY <2>2, <3>1, Fits
  <2> QED
    BY <2>1, <2>2
<1>5. /\ file' \in [in : Places, trash : BOOLEAN]
      /\ file'.in \in Folders => Exists(file'.in)
  <2>1. CASE ~ ok
    BY <1>1, <2>1 DEF Inv, TypeOK
  <2>2. CASE ok /\ op = "trash"
    BY <1>1, <2>2 DEF Inv, TypeOK
  <2>3. CASE ok /\ op # "trash"
    <3>1. PICK w \in BOOLEAN : w = (file.trash /\ op = "moveFile")
      OBVIOUS
    <3>2. file' = [in |-> to, trash |-> w] /\ to \in Places
      BY <1>1, <2>3, <3>1, Fits
    <3>3. to \in Folders => Exists(to)
      BY <2>3, LibraryAssumption
    <3> QED
      BY <3>2, <3>3
  <2> QED
    BY <2>1, <2>2, <2>3
<1>6. TypeOK'
  <2>1. req' \in [Requests -> RequestType]
    <3>1. \A q \in Requests : req'[q] \in RequestType
      BY <1>3, <1>4
    <3> QED
      BY <1>1, <3>1
  <2> QED
    BY <1>1, <1>5, <2>1 DEF Inv, TypeOK, Exists
<1>7. ASSUME NEW q \in Requests PROVE Good(req'[q], parent', file', share')
  <2>1. CASE q = r
    BY <1>1, <1>3, <2>1 DEF Good, Walk, Deep, View
  <2>2. CASE q # r
    <3>1. Good(req[q], parent, file, share)
      BY Fits
    <3>2. Deep(req'[q], parent, file')
      <4>1. CASE ~ ok
        <5>1. file' = file
          BY <1>1, <4>1
        <5> HIDE DEF ok, op
        <5> QED
          BY <1>4, <2>2, <3>1, <5>1, DeepKept DEF Good
      <4>2. CASE ok /\ op = "trash"
        <5>1. file'.trash
          BY <1>1, <4>2 DEF Inv, TypeOK
        <5> QED
          BY <5>1 DEF Deep
      <4>3. CASE ok /\ op # "trash"
        <5>1. ~ req'[q].owed
          BY <1>4, <2>2, <4>3
        <5> QED
          BY <5>1 DEF Deep
      <4> QED
        BY <4>1, <4>2, <4>3
    <3>3. Walk(req'[q], parent) /\ View(req'[q], share)
      <4> HIDE DEF ok, op
      <4>1. Walk(req'[q], parent)
        <5>1. Walk(req[q], parent)
          BY <3>1 DEF Good
        <5> QED
          BY <1>4, <2>2, <5>1 DEF Walk, Climbed
      <4>2. View(req'[q], share)
        BY <1>4, <2>2, <3>1 DEF Good, View
      <4> QED
        BY <4>1, <4>2
    <3> HIDE DEF ok, op
    <3> QED
      BY <1>1, <1>4, <2>2, <3>1, <3>2, <3>3 DEF Good
  <2> QED
    BY <2>1, <2>2
<1>8. ViewsWithinLimit'
  <2> HIDE DEF ok
  <2> QED
    BY <1>1, <1>3, <1>4, ViewsKept
<1> QED
  BY <1>1, <1>6, <1>7, <1>8 DEF Inv, AllGood, NoLoop

(* The share alone is written: no delete and no walk looks at it.          *)
LEMMA ShareStep ==
    ASSUME Inv, UNCHANGED <<anonymous, parent, file, raced>>,
           share' \in [row : {"active", "revoked", "expired", "gone"},
                       of : Folders \cup {TheFile}, views : Nat],
           share'.of = share.of /\ (share.row = "gone" => share'.row = "gone"),
           req' \in [Requests -> RequestType],
           \A q \in Requests : Good(req'[q], parent, file, share'),
           ViewsWithinLimit'
    PROVE  Inv'
<1>1. TypeOK'
  BY DEF Inv, TypeOK, Exists
<1> QED
  BY <1>1 DEF Inv, AllGood, NoLoop

LEMMA VisitCountInv ==
    ASSUME Inv, NEW r \in Requests, VisitCount(r) PROVE Inv'
<1>1. At(r, "visit", "count") /\ UNCHANGED <<anonymous, parent, file, raced>>
  BY DEF VisitCount, UnchangedTree
<1>2. CASE Fail(r) /\ UNCHANGED share
  BY <1>1, <1>2, GotoStep DEF Fail, Pcs
<1>3. CASE ~ (Fail(r) /\ UNCHANGED share)
  <2>1. /\ share.row # "gone" /\ share' = [share EXCEPT !.views = share.views + 1]
        /\ req' = [q \in Requests |->
             IF q = r THEN [req[r] EXCEPT
                              !.pc = IF req[r].on = TheFile THEN "fetch" ELSE "contents"]
             ELSE [req[q] EXCEPT !.stale = req[q].stale \/ At(q, "visit", "count")]]
    BY <1>3 DEF VisitCount
  <2>2. /\ share' \in [row : {"active", "revoked", "expired", "gone"},
                       of : Folders \cup {TheFile}, views : Nat]
        /\ share'.of = share.of /\ share'.row = share.row
        /\ share'.views = share.views + 1
    BY <2>1 DEF Inv, TypeOK
  <2>3. /\ req'[r] \in RequestType /\ req'[r].op = "visit"
        /\ req'[r].pc \in {"fetch", "contents"} /\ req'[r].stale = req[r].stale
    <3>1. PICK pc \in {"fetch", "contents"} : req'[r] = [req[r] EXCEPT !.pc = pc]
      BY <2>1
    <3>2. pc \in Pcs /\ req[r] \in RequestType /\ req[r].op = "visit"
      BY <1>1, Fits DEF Pcs, At
    <3> QED
      BY <3>1, <3>2, GotoFits
  <2>4. ASSUME NEW q \in Requests, q # r
        PROVE  /\ req'[q] \in RequestType
               /\ req'[q].op = req[q].op /\ req'[q].pc = req[q].pc
               /\ req'[q].on = req[q].on /\ req'[q].to = req[q].to
               /\ req'[q].cursor = req[q].cursor /\ req'[q].agenda = req[q].agenda
               /\ req'[q].owed = req[q].owed
               /\ req'[q].stale = (req[q].stale \/ At(q, "visit", "count"))
    <3>1. PICK w \in BOOLEAN : w = (req[q].stale \/ At(q, "visit", "count"))
      OBVIOUS
    <3>2. req'[q] = [req[q] EXCEPT !.stale = w] /\ req[q] \in RequestType
      BY <2>1, <2>4, <3>1, Fits
    <3>3. /\ req'[q] \in RequestType
          /\ req'[q].op = req[q].op /\ req'[q].pc = req[q].pc
          /\ req'[q].on = req[q].on /\ req'[q].to = req[q].to
          /\ req'[q].cursor = req[q].cursor /\ req'[q].agenda = req[q].agenda
          /\ req'[q].owed = req[q].owed /\ req'[q].stale = w
      BY <3>2 DEF RequestType
    <3> QED
      BY <3>1, <3>3
  <2>5. req' \in [Requests -> RequestType]
    <3>1. \A q \in Requests : req'[q] \in RequestType
      BY <2>3, <2>4
    <3> QED
      BY <2>1, <3>1
  <2>6. ASSUME NEW q \in Requests PROVE Good(req'[q], parent, file, share')
    <3>1. CASE q = r
      BY <2>3, <3>1 DEF Good, Walk, Deep, View
    <3>2. CASE q # r
      <4>1. Good(req[q], parent, file, share)
        BY Fits
      <4>2. Walk(req'[q], parent)
        <5>1. Walk(req[q], parent)
          BY <4>1 DEF Good
        <5> QED
          BY <2>4, <3>2, <5>1 DEF Walk, Climbed, At
      <4>3. Deep(req'[q], parent, file)
        BY <2>4, <3>2, <4>1, DeepKept DEF Good
      <4>4. View(req'[q], share')
        BY <2>4, <3>2 DEF View, At
      <4> QED
        BY <2>4, <3>2, <4>1, <4>2, <4>3, <4>4 DEF Good
    <3> QED
      BY <3>1, <3>2
  <2>7. ViewsWithinLimit'
    <3> SUFFICES ASSUME share'.views > MaxViews
        PROVE  \E q \in Requests : req'[q].op = "visit" /\ req'[q].stale
      BY DEF ViewsWithinLimit
    <3>1. ASSUME ~ req[r].stale PROVE FALSE
      <4>1. share.views < MaxViews
        BY <1>1, <3>1, Fits DEF Good, View, At
      <4> QED
        BY <2>2, <4>1, Fits, LibraryAssumption
    <3> QED
      BY <2>3, <3>1
  <2> QED
    BY <1>1, <2>2, <2>5, <2>6, <2>7, ShareStep
<1> QED
  BY <1>2, <1>3

(* The share's row is written by a request that is over with it, or by     *)
(* nobody.                                                                 *)
LEMMA ShareRowStep ==
    ASSUME Inv, UNCHANGED <<anonymous, parent, file, raced>>,
           NEW row \in {"active", "revoked", "expired", "gone"},
           share' = [share EXCEPT !.row = row], share.row = "gone" => row = "gone",
           \/ UNCHANGED req
           \/ \E r \in Requests : Done(r) /\ req[r].op \in {"trash", "revoke"}
    PROVE  Inv'
<1>1. /\ share' \in [row : {"active", "revoked", "expired", "gone"},
                     of : Folders \cup {TheFile}, views : Nat]
      /\ share'.of = share.of /\ share'.row = row /\ share'.views = share.views
  BY DEF Inv, TypeOK
<1>2. CASE UNCHANGED req
  <2>1. \A q \in Requests : Good(req'[q], parent, file, share')
    BY <1>1, <1>2, Fits DEF Good, View
  <2>2. req' \in [Requests -> RequestType]
    BY <1>2 DEF Inv, TypeOK
  <2>3. ViewsWithinLimit'
    BY <1>1, <1>2, ViewsKept
  <2> QED
    BY <1>1, <2>1, <2>2, <2>3, ShareStep
<1>3. ASSUME NEW r \in Requests, Done(r), req[r].op \in {"trash", "revoke"} PROVE Inv'
  <2>1. PICK x : x = [req[r] EXCEPT !.pc = "done"]
    OBVIOUS
  <2>2. x \in RequestType /\ x.op = req[r].op /\ x.pc = "done" /\ x.stale = req[r].stale
    <3>1. "done" \in Pcs /\ req[r] \in RequestType
      BY Fits DEF Pcs
    <3> QED
      BY <2>1, <3>1, GotoFits
  <2>3. req' = [req EXCEPT ![r] = x]
    BY <1>3, <2>1 DEF Done, Goto
  <2>4. req' \in [Requests -> RequestType] /\ req'[r] = x
        /\ \A q \in Requests : q # r => req'[q] = req[q]
    BY <2>2, <2>3 DEF Inv, TypeOK
  <2>5. ASSUME NEW q \in Requests PROVE Good(req'[q], parent, file, share')
    <3>1. CASE q = r
      BY <1>3, <2>2, <2>4, <3>1 DEF Good, Walk, Deep, View
    <3>2. CASE q # r
      BY <1>1, <2>4, <3>2, Fits DEF Good, View
    <3> QED
      BY <3>1, <3>2
  <2>6. ViewsWithinLimit'
    BY <1>1, <1>3, <2>4, ViewsKept
  <2> QED
    BY <1>1, <2>4, <2>5, <2>6, ShareStep
<1> QED
  BY <1>2, <1>3

LEMMA TrashUnsharesInv ==
    ASSUME Inv, NEW r \in Requests, TrashUnshares(r) PROVE Inv'
<1>1. PICK row \in {"active", "revoked", "expired", "gone"} :
        /\ share' = [share EXCEPT !.row = row]
        /\ row = IF share.of = TheFile THEN "gone" ELSE share.row
  BY DEF TrashUnshares, Inv, TypeOK
<1> QED
  BY <1>1, ShareRowStep DEF TrashUnshares, UnchangedTree, At

LEMMA RevokeInv ==
    ASSUME Inv, NEW r \in Requests, Revoke(r) PROVE Inv'
<1>1. CASE /\ Begin(r, "revoke", share.of, Root,
                    IF share.row = "gone" THEN "failed" ELSE "update")
           /\ UNCHANGED share /\ UnchangedTree
  <2>1. PICK pc \in {"failed", "update"} : Begin(r, "revoke", share.of, Root, pc)
    BY <1>1
  <2>2. /\ "revoke" \in Ops /\ Root \in Places /\ pc \in Pcs \ {"new", "walk"}
        /\ share.of \in Folders \cup {TheFile, Gone}
    BY Fits DEF Ops, Pcs, Places
  <2> QED
    BY <1>1, <2>1, <2>2, BeginStep DEF UnchangedTree
<1>2. CASE At(r, "revoke", "update") /\ Fail(r) /\ UNCHANGED share /\ UnchangedTree
  BY <1>2, GotoStep DEF Fail, Pcs, UnchangedTree
<1>3. CASE /\ At(r, "revoke", "update") /\ share.row # "gone" /\ Done(r)
           /\ share' = [share EXCEPT !.row = "revoked"] /\ UnchangedTree
  <2>1. PICK row \in {"active", "revoked", "expired", "gone"} : row = "revoked"
    OBVIOUS
  <2> QED
    BY <1>3, <2>1, ShareRowStep DEF UnchangedTree, At
<1> QED
  BY <1>1, <1>2, <1>3 DEF Revoke

LEMMA ExpireInv ==
    ASSUME Inv, Expire PROVE Inv'
<1>1. PICK row \in {"active", "revoked", "expired", "gone"} : row = "expired"
  OBVIOUS
<1> QED
  BY <1>1, ShareRowStep DEF Expire, UnchangedTree

-----------------------------------------------------------------------------
(* The invariant holds, and what follows                                   *)

LEMMA InitInv == Init => Inv
<1> SUFFICES ASSUME Init PROVE Inv
  OBVIOUS
<1>1. /\ parent \in [Folders -> Places \cup {Unborn, Gone}]
      /\ \A f \in Live : RootedIn(parent, f)
      /\ file \in [in : Live \cup {Root}, trash : {FALSE}]
      /\ req = [r \in Requests |-> NewRequest] /\ raced = FALSE /\ anonymous \in BOOLEAN
  BY DEF Init
<1>2. ASSUME NEW g \in Folders, parent[g] \in Folders PROVE Exists(parent[g])
  <2>1. g \in Live
    BY <1>1, <1>2, LibraryAssumption DEF Live, Exists
  <2>2. g \in PathIn(parent, g) /\ parent[g] \in PathIn(parent, g)
    BY <1>2, PathIs DEF ClosedIn
  <2>3. SUFFICES ASSUME ~ Exists(parent[g]) PROVE FALSE
    OBVIOUS
  <2> DEFINE h == parent[g]
             S == {g, h}
  <2>4. parent[h] \notin Folders /\ parent[h] # Root
    BY <1>1, <1>2, <2>3, LibraryAssumption DEF Exists
  <2>5. S \in SUBSET Folders /\ g \in S /\ ClosedIn(parent, S)
    BY <1>2, <2>4 DEF ClosedIn
  <2>6. PathIn(parent, g) \subseteq S
    BY <2>5, PathIs
  <2>7. PICK k \in S : parent[k] = Root
    BY <1>1, <2>1, <2>6 DEF RootedIn
  <2> QED
    BY <1>2, <2>4, <2>7, LibraryAssumption
<1>3. NewRequest \in RequestType /\ NewRequest.op = "none" /\ NewRequest.pc = "new"
      /\ ~ NewRequest.stale
  <2>1. <<>> \in Seq(Queries \X Folders)
    BY NoCalls
  <2> QED
    BY <2>1 DEF NewRequest, RequestType, Places
<1>4. TypeOK
  <2>1. req \in [Requests -> RequestType]
    BY <1>1, <1>3
  <2>2. file \in [in : Places, trash : BOOLEAN] /\ (file.in \in Folders => Exists(file.in))
    BY <1>1, LibraryAssumption DEF Live, Places
  <2>3. /\ share \in [row : {"active", "revoked", "expired", "gone"},
                      of : Folders \cup {TheFile}, views : Nat]
        /\ share.row # "gone" /\ share.of # TheFile => Exists(share.of)
    BY LibraryAssumption DEF Init, Live
  <2> QED
    BY <1>1, <1>2, <2>1, <2>2, <2>3 DEF TypeOK
<1>5. NoLoop
  <2>1. \A x \in Folders : Row(parent, x) => RootedIn(parent, x)
    BY <1>1 DEF Live, Row, Exists
  <2>2. \A g \in Folders : parent[g] \in Folders => Row(parent, parent[g])
    BY <1>2 DEF Row, Exists
  <2> QED
    BY <1>1, <2>1, <2>2, RootedLoopless DEF NoLoop
<1>6. ViewsWithinLimit
  BY LibraryAssumption DEF Init, ViewsWithinLimit
<1>7. AllGood
  BY <1>1, <1>3 DEF AllGood, Good, Walk, Deep, View
<1> QED
  BY <1>4, <1>5, <1>6, <1>7 DEF Inv

LEMMA InvNext == Inv /\ [Next]_vars => Inv'
<1> SUFFICES ASSUME Inv, [Next]_vars PROVE Inv'
  OBVIOUS
<1>1. ASSUME NEW r \in Requests, Step(r) PROVE Inv'
  BY <1>1, CreateFolderInv, MoveFindInv, MoveParentInv, MoveWalkInv, MoveUpdateInv,
     DeleteFolderInv, DeleteFindInv, DeleteMarkInv, DeleteKidsInv, DeleteListInv,
     DeleteDropInv, SweepListInv, SweepMarkInv, SweepDropInv, FindFileInv,
     FileParentInv, FileUpdateInv, TrashUnsharesInv,
     VisitCheckInv, VisitCountInv, VisitGoesOnInv, RevokeInv DEF Step
<1>2. CASE Expire
  BY <1>2, ExpireInv
<1>3. CASE UNCHANGED vars
  BY <1>3 DEF vars, Inv, TypeOK, Exists, NoLoop, AllGood, ViewsWithinLimit
<1> QED
  BY <1>1, <1>2, <1>3 DEF Next

LEMMA InvAlways == Spec => []Inv
BY InitInv, InvNext, PTL DEF Spec

(* Whatever the resolvers interleave, every row the library reads has the  *)
(* form the schema gives it, and no row points at one that is not there.   *)
THEOREM TypeCorrect == Spec => []TypeOK
<1>1. Inv => TypeOK
  BY DEF Inv
<1> QED
  BY <1>1, InvAlways, PTL

(* Every folder, and with it every file, is reached from the root, however *)
(* creations, moves and deletes of any number of requests interleave, as   *)
(* long as no move was written on a walk that another move had overtaken.  *)
THEOREM TreeStaysRooted == Spec => []TreeRooted
<1>1. Inv => TreeRooted
  <2> SUFFICES ASSUME Inv, ~ raced
      PROVE  (\A f \in Live : RootedIn(parent, f)) /\ file.in \in Live \cup {Root}
    BY DEF TreeRooted
  <2>1. \A g \in Folders : parent[g] \in Folders => Row(parent, parent[g])
    BY DEF Inv, TypeOK, Row, Exists
  <2>2. \A x \in Folders : Row(parent, x) => RootedIn(parent, x)
    BY <2>1, Fits, RootedLoopless DEF Inv, NoLoop
  <2>3. file.in \in Live \cup {Root}
    BY Fits DEF Inv, TypeOK, Live, Places
  <2> QED
    BY <2>2, <2>3 DEF Live, Row, Exists
<1> QED
  BY <1>1, InvAlways, PTL

(* A recursive delete that succeeds leaves no file of the folder outside   *)
(* the trash that nobody took out, restored, or lifted to the root by      *)
(* deleting or moving a folder around it, whatever other requests do       *)
(* between its queries.                                                    *)
THEOREM DeletesAreDeep == Spec => []DeleteIsDeep
<1>1. Inv => DeleteIsDeep
  BY Fits DEF DeleteIsDeep, Good, Deep, At
<1> QED
  BY <1>1, InvAlways, PTL

(* The view limit of a link is passed only when a visitor's check was      *)
(* overtaken by another visitor's count.                                   *)
THEOREM ViewsLimited == Spec => []ViewsWithinLimit
<1>1. Inv => ViewsWithinLimit
  BY DEF Inv
<1> QED
  BY <1>1, InvAlways, PTL
=============================================================================
