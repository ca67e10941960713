-------------------------- MODULE DriveViewProofs --------------------------
(* Proofs about DriveView, for every value of its constants.                *)
EXTENDS DriveView, TLAPS

-----------------------------------------------------------------------------
(* The inductive invariant                                                  *)

(* A handler refreshes every list whose viewer it owes the change.          *)
HandlersRefresh ==
    \A o \in Ops : op[o] # None =>
        /\ op[o].owes => op[o].expected
        /\ op[o].expected => op[o].refreshes

(* An answer on its way that predates a change is no better than an entry   *)
(* that does: it lands as a fresh one.                                      *)
LoadsTold == \A s \in Slots : fetch[s] # None /\ fetch[s].seen = "told" => Owed(op)

(* A closed ShareModal has no list and no loads, and no handler of it can   *)
(* reach the one that is opened next.                                       *)
ClosedIsEmpty ==
    key = "shares" /\ page # "modal" =>
        /\ page = "login" /\ entry = None /\ fetch = NoLoad
        /\ \A o \in Ops : op[o] # None => ~op[o].refreshes

Inv == TypeOK /\ HandlersRefresh /\ LoadsTold /\ ClosedIsEmpty /\ NoChangeForgotten

-----------------------------------------------------------------------------
(* The tables of pages and changes                                          *)

LEMMA ListsOf ==
    /\ \A p : <<p, "shares">> \in Shows => p = "modal"
    /\ \A p, k : k \in Here(p) <=> <<p, k>> \in Shows
    /\ <<"drop", "anonPath/folder">> \notin Shows
    /\ "shares" \notin Account
    /\ "modal" \in AllPages /\ "login" \in AllPages
    /\ Offered("login") = {}
<1>1. \A p : <<p, "shares">> \in Shows => p = "modal"
  BY DEF Shows, DashboardLists, CrumbLists, DropLists, SettingsLists,
         ApiKeyLists, HealthLists, ShareLists
<1>2. <<"drop", "anonPath/folder">> \notin Shows
  BY DEF Shows, DashboardLists, CrumbLists, DropLists, SettingsLists,
         ApiKeyLists, HealthLists, ShareLists
<1>3. \A t \in Shows : t = <<t[1], t[2]>>
  BY DEF Shows, DashboardLists, CrumbLists, DropLists, SettingsLists,
         ApiKeyLists, HealthLists, ShareLists
<1>4. \A p, k : k \in Here(p) <=> <<p, k>> \in Shows
  BY <1>3 DEF Here
<1>5. "modal" \in AllPages /\ "login" \in AllPages
  <2>1. <<"modal", "shares">> \in Shows
    BY DEF Shows, ShareLists
  <2> QED
    BY <2>1 DEF AllPages
<1>6. Offered("login") = {}
  BY DEF Offered
<1> QED
  BY <1>1, <1>2, <1>4, <1>5, <1>6 DEF Account

(* What the handlers of a page owe their viewers they also refresh.         *)
Fits(r) == /\ Expected(r) \subseteq r.refreshes
           /\ r.files \in 1..2
           /\ r.each \in BOOLEAN /\ r.always \in BOOLEAN /\ r.image \in BOOLEAN

LEMMA ChangeFits ==
    ASSUME NEW p, NEW c, NEW f,
           c \cap (IF p \in {"root", "folder"} THEN Files ELSE Here(p)) \subseteq f
    PROVE  /\ Fits(Change(p, c, f))
           /\ \A i \in BOOLEAN :
                /\ Fits([Change(p, c, f) EXCEPT !.files = 2, !.each = TRUE, !.image = i])
                /\ Fits([Change(p, c, f) EXCEPT !.files = 2, !.image = i])
           /\ Fits([Change(p, c, f) EXCEPT !.files = 2, !.always = TRUE])
<1>1. Fits(Change(p, c, f))
  BY DEF Fits, Change, Expected
<1>2. Fits([Change(p, c, f) EXCEPT !.files = 2, !.always = TRUE])
  BY DEF Fits, Change, Expected
<1>3. ASSUME NEW i \in BOOLEAN
      PROVE  /\ Fits([Change(p, c, f) EXCEPT !.files = 2, !.each = TRUE, !.image = i])
             /\ Fits([Change(p, c, f) EXCEPT !.files = 2, !.image = i])
  BY DEF Fits, Change, Expected
<1> QED
  BY <1>1, <1>2, <1>3

LEMMA OffersFit == ASSUME NEW p, NEW r \in Offered(p) PROVE Fits(r)
<1>1. CASE p \in {"root", "folder"}
  <2>1. Paths(p) \cap Files = {}
    BY DEF Paths, Files
  <2>2. Fits(Upload(p))
    BY <1>1, ChangeFits DEF Upload
  <2>3. Fits(Delete(p)) /\ Fits(MoveFile(p)) /\ Fits(CrumbMove(p)) /\ Fits(NewFolder(p))
    BY <1>1, ChangeFits DEF Delete, MoveFile, CrumbMove, NewFolder
  <2>4. Fits(MoveFolder(p)) /\ Fits(RenameFolder(p))
    BY <1>1, <2>1, ChangeFits DEF MoveFolder, RenameFolder
  <2> QED
    BY <1>1, <2>2, <2>3, <2>4 DEF Offered, Dashboard
<1>2. CASE p \in {"drop", "dropFolder"}
  <2>1. Paths(p) \cap Here(p) = {}
    BY <1>2, ListsOf DEF Paths
  <2>2. \A c : c \subseteq {"anon/root", "anon/folder"} \cup Paths(p) =>
            c \cap (IF p \in {"root", "folder"} THEN Files ELSE Here(p))
              \subseteq DropRefresh(p)
    BY <1>2, <2>1 DEF DropRefresh
  <2>3. DropRefresh(p) \subseteq {"anon/root", "anon/folder"}
    BY DEF DropRefresh
  <2>4. Fits(DropUpload(p))
    <3>1. DropRefresh(p) \cup {"anon/root"} \subseteq {"anon/root", "anon/folder"} \cup Paths(p)
      BY <2>3
    <3>2. \A i \in BOOLEAN :
            Fits([Change(p, DropRefresh(p) \cup {"anon/root"}, DropRefresh(p))
                    EXCEPT !.files = 2, !.image = i])
      BY <2>2, <3>1, ChangeFits
    <3>3. PICK i \in BOOLEAN : i = (p = "drop")
      OBVIOUS
    <3> QED
      BY <3>2, <3>3 DEF DropUpload
  <2>5. \A x \in DropChanges(p) : Fits(x)
    <3> SUFFICES ASSUME NEW c \in {DropRefresh(p) \cup {"anon/root"},
                                   {"anon/root", "anon/folder"},
                                   DropRefresh(p) \cup Paths(p)}
                 PROVE  Fits(Change(p, c, DropRefresh(p)))
      BY DEF DropChanges
    <3>1. c \subseteq {"anon/root", "anon/folder"} \cup Paths(p)
      BY <2>3
    <3> QED
      BY <2>2, <3>1, ChangeFits
  <2> QED
    BY <1>2, <2>4, <2>5 DEF Offered
<1>3. CASE p \in {"settings", "health", "modal"}
  <2>1. Fits(KeyChange) /\ Fits(HealthCheck) /\ Fits(CreateShare)
    BY ChangeFits DEF KeyChange, HealthCheck, CreateShare
  <2> QED
    BY <1>3, <2>1 DEF Offered, RevokeShare
<1>4. CASE p \notin {"root", "folder", "drop", "dropFolder", "settings", "health", "modal"}
  BY <1>4 DEF Offered
<1> QED
  BY <1>1, <1>2, <1>3, <1>4

-----------------------------------------------------------------------------
(* What the helpers return                                                  *)

LEMMA AskedFits ==
    /\ \A p : Asked(p) \in Answers /\ Asked(p).seen = "current"
    /\ \A p : Load(p) \in [Slots -> Answers \cup {None}]
    /\ \A p : \A s \in Slots : Load(p)[s] # None => Load(p)[s].seen = "current"
    /\ NoLoad \in [Slots -> Answers \cup {None}]
<1>1. \A p : Asked(p) \in Answers /\ Asked(p).seen = "current"
  BY DEF Asked, Answers, Seen, Tiles
<1> QED
  BY <1>1 DEF Load, NoLoad

(* What a change under way loses when its page goes.                        *)
LEMMA LeaveFits ==
    ASSUME NEW r \in Running \cup {None}
    PROVE  /\ Leave(r) \in Running \cup {None} /\ Detach(r) \in Running \cup {None}
           /\ r = None => Leave(r) = None /\ Detach(r) = None
           /\ r # None =>
                /\ Leave(r) # None /\ Leave(r).owes = r.owes
                /\ Leave(r).expected = r.expected /\ Leave(r).refreshes = r.refreshes
                /\ Detach(r) # None
                /\ ~Detach(r).owes /\ ~Detach(r).expected /\ ~Detach(r).refreshes
<1>1. CASE r = None
  BY <1>1 DEF Leave, Detach
<1>2. CASE r # None
  <2>1. r \in Running
    BY <1>2
  <2>2. /\ Leave(r) \in Running /\ Leave(r).owes = r.owes
        /\ Leave(r).expected = r.expected /\ Leave(r).refreshes = r.refreshes
    BY <1>2, <2>1 DEF Leave, Running
  <2>3. /\ Detach(r) \in Running
        /\ ~Detach(r).owes /\ ~Detach(r).expected /\ ~Detach(r).refreshes
    BY <1>2, <2>1 DEF Detach, Running
  <2> QED
    BY <1>2, <2>2, <2>3, NoneAssumption
<1> QED
  BY <1>1, <1>2

(* A list that predates a change is left so only while a handler owes it.   *)
LEMMA SettleFits ==
    ASSUME NEW X, X = Answers \/ X = Entries, NEW x \in X \cup {None}, NEW ops
    PROVE  /\ Settle(x, ops) \in X \cup {None}
           /\ x = None => Settle(x, ops) = None
           /\ Settle(x, ops) # None /\ Settle(x, ops).seen = "told" => Owed(ops)
           /\ Settle(x, ops) # None =>
                x # None /\ (X = Entries => Settle(x, ops).mark = x.mark)
<1>1. CASE x = None
  BY <1>1 DEF Settle, Forsake
<1>2. CASE x # None
  <2>1. x \in X
    BY <1>2
  <2>2. CASE X = Answers
    BY <1>2, <2>1, <2>2, NoneAssumption DEF Settle, Forsake, Answers, Seen
  <2>3. CASE X = Entries
    BY <1>2, <2>1, <2>3, NoneAssumption DEF Settle, Forsake, Entries, Seen
  <2> QED
    BY <2>2, <2>3
<1> QED
  BY <1>1, <1>2

LEMMA SettleAllFits ==
    ASSUME fetch \in [Slots -> Answers \cup {None}], NEW ops
    PROVE  /\ SettleAll(ops) \in [Slots -> Answers \cup {None}]
           /\ \A s \in Slots : SettleAll(ops)[s] # None /\ SettleAll(ops)[s].seen = "told"
                                 => Owed(ops)
           /\ fetch = NoLoad => SettleAll(ops) = NoLoad
<1>1. \A s \in Slots : /\ Settle(fetch[s], ops) \in Answers \cup {None}
                       /\ Settle(fetch[s], ops) # None /\ Settle(fetch[s], ops).seen = "told"
                            => Owed(ops)
                       /\ fetch[s] = None => Settle(fetch[s], ops) = None
  BY SettleFits
<1> QED
  BY <1>1 DEF SettleAll, NoLoad

LEMMA OutrunFits ==
    ASSUME NEW X, X = Answers \/ X = Entries, NEW x \in X \cup {None},
           NEW seen \in {"told", "missed"}
    PROVE  /\ Outrun(x, seen) \in X \cup {None}
           /\ x = None => Outrun(x, seen) = None
           /\ Outrun(x, seen) # None /\ Outrun(x, seen).seen = "told" =>
                x # None /\ (x.seen = "told" \/ seen = "told")
           /\ Outrun(x, seen) # None =>
                x # None /\ (X = Entries => Outrun(x, seen).mark = x.mark)
<1>1. CASE x = None
  BY <1>1 DEF Outrun
<1>2. CASE x # None
  <2>1. x \in X
    BY <1>2
  <2>2. CASE X = Answers
    BY <1>2, <2>1, <2>2, NoneAssumption DEF Outrun, Answers, Seen
  <2>3. CASE X = Entries
    BY <1>2, <2>1, <2>3, NoneAssumption DEF Outrun, Entries, Seen
  <2> QED
    BY <2>2, <2>3
<1> QED
  BY <1>1, <1>2

LEMMA InvalidFits ==
    ASSUME NEW x \in Entries \cup {None}
    PROVE  /\ Invalid(x) \in Entries \cup {None}
           /\ x = None => Invalid(x) = None
           /\ Invalid(x) # None => Invalid(x).mark # "fresh"
<1>1. CASE x = None
  BY <1>1 DEF Invalid
<1>2. CASE x # None
  <2>1. [x EXCEPT !.mark = "invalid"] \in Entries
    BY <1>2 DEF Entries
  <2>2. [x EXCEPT !.mark = "invalid"].mark = "invalid"
    BY <1>2 DEF Entries
  <2> QED
    BY <1>2, <2>1, <2>2 DEF Invalid
<1> QED
  BY <1>1, <1>2

-----------------------------------------------------------------------------
(* The steps                                                                *)

LEMMA InitInv == Init => Inv
<1> SUFFICES ASSUME Init PROVE Inv
  OBVIOUS
<1>1. \A o \in Ops : op[o] = None
  BY DEF Init
<1>2. ~Owed(op)
  BY <1>1 DEF Owed
<1>3. TypeOK
  BY DriveViewAssumption, AskedFits, ListsOf DEF Init, TypeOK, Tiles
<1> QED
  BY <1>1, <1>2, <1>3 DEF Init, Inv, HandlersRefresh, LoadsTold, ClosedIsEmpty,
                          NoChangeForgotten, NoLoad

(* A page mounts, or its list is loaded again.                              *)
LEMMA PageInv ==
    ASSUME Inv, \/ \E p \in AllPages : Visit(p)
                \/ OpenModal \/ Focus \/ Poll
    PROVE  Inv'
<1> USE DEF Inv
<1>1. /\ UNCHANGED <<key, entry, tile, begun, faults>> /\ page' \in AllPages
      /\ fetch' = fetch \/ \E p : fetch' = Load(p)
      /\ op' = op \/ op' = [o \in Ops |-> Leave(op[o])]
  <2>1. ASSUME NEW p \in AllPages, Visit(p) PROVE <1>1!:
    BY <2>1 DEF Visit
  <2>2. CASE OpenModal
    BY <2>2, ListsOf DEF OpenModal
  <2>3. CASE Focus
    BY <2>3 DEF Focus, TypeOK
  <2>4. CASE Poll
    BY <2>4 DEF Poll, TypeOK
  <2> QED
    BY <2>1, <2>2, <2>3, <2>4
<1>2. ASSUME NEW o \in Ops
      PROVE  /\ op'[o] \in Running \cup {None} /\ (op'[o] = None <=> op[o] = None)
             /\ op[o] # None =>
                  /\ op'[o].owes = op[o].owes /\ op'[o].expected = op[o].expected
                  /\ op'[o].refreshes = op[o].refreshes
  <2>1. op[o] \in Running \cup {None}
    BY DEF TypeOK
  <2>2. op'[o] \in {op[o], Leave(op[o])}
    BY <1>1
  <2> QED
    BY <2>1, <2>2, LeaveFits
<1>3. op' \in [Ops -> Running \cup {None}]
  BY <1>1, <1>2 DEF TypeOK
<1>4. TypeOK'
  BY <1>1, <1>3, AskedFits DEF TypeOK
<1>5. Owed(op)' <=> Owed(op)
  BY <1>2 DEF Owed
<1>6. LoadsTold'
  <2>1. CASE fetch' = fetch
    BY <1>5, <2>1 DEF LoadsTold
  <2>2. ASSUME NEW p, fetch' = Load(p) PROVE LoadsTold'
    BY <2>2, AskedFits DEF LoadsTold
  <2> QED
    BY <1>1, <2>1, <2>2
<1>7. NoChangeForgotten' /\ HandlersRefresh'
  BY <1>1, <1>2, <1>5 DEF NoChangeForgotten, HandlersRefresh
<1>8. ClosedIsEmpty'
  BY ListsOf DEF ClosedIsEmpty, Visit, OpenModal, Focus, Poll, Mounted
<1> QED
  BY <1>4, <1>6, <1>7, <1>8

(* ShareModal closes: its list, its loads and its handlers are gone.        *)
LEMMA CloseInv ==
    ASSUME Inv, CloseModal
    PROVE  Inv'
<1> USE DEF Inv
<1>1. /\ UNCHANGED <<key, tile, begun, faults>> /\ page' = "login"
      /\ entry' = None /\ fetch' = NoLoad
      /\ op' = [o \in Ops |-> Detach(op[o])]
  BY DEF CloseModal
<1>2. ASSUME NEW o \in Ops
      PROVE  /\ op'[o] \in Running \cup {None}
             /\ op'[o] # None =>
                  ~op'[o].owes /\ ~op'[o].expected /\ ~op'[o].refreshes
  <2>1. op[o] \in Running \cup {None}
    BY DEF TypeOK
  <2>2. op'[o] = Detach(op[o])
    BY <1>1
  <2> QED
    BY <2>1, <2>2, LeaveFits
<1>3. op' \in [Ops -> Running \cup {None}]
  BY <1>1, <1>2 DEF TypeOK
<1>4. TypeOK'
  BY <1>1, <1>3, AskedFits, ListsOf DEF TypeOK
<1>5. HandlersRefresh' /\ ClosedIsEmpty' /\ NoChangeForgotten'
  BY <1>1, <1>2 DEF HandlersRefresh, ClosedIsEmpty, NoChangeForgotten, NoLoad
<1>6. LoadsTold'
  BY <1>1 DEF LoadsTold, NoLoad
<1> QED
  BY <1>4, <1>5, <1>6

(* Loads are served, land or fail; entries age.                             *)
LEMMA LoadInv ==
    ASSUME Inv, Age \/ \E s \in Slots : Serve(s) \/ Land(s) \/ FetchFails(s)
    PROVE  Inv'
<1> USE DEF Inv
<1>0. UNCHANGED <<key, page, op, tile, begun>>
  BY DEF Age, Serve, Land, FetchFails
<1>1. Owed(op)' <=> Owed(op)
  BY <1>0 DEF Owed
<1>2. HandlersRefresh'
  BY <1>0 DEF HandlersRefresh
<1>3. CASE Age
  <2>1. entry' \in Entries /\ entry'.seen = entry.seen
    BY <1>3 DEF Age, TypeOK, Entries
  <2>2. entry'.mark = "stale"
    BY <1>3 DEF Age, TypeOK, Entries
  <2> QED
    BY <1>0, <1>1, <1>2, <1>3, <2>1, <2>2
       DEF Age, TypeOK, LoadsTold, ClosedIsEmpty, NoChangeForgotten, NoLoad
<1>4. ASSUME NEW s \in Slots, Serve(s) PROVE Inv'
  <2>1. fetch[s] \in Answers
    BY <1>4 DEF Serve, TypeOK
  <2>2. PICK t \in Tiles : fetch' = [fetch EXCEPT ![s].pc = "served", ![s].tile = t]
    BY <1>4 DEF Serve, TypeOK, Tiles
  <2>3. fetch'[s] \in Answers /\ fetch'[s].seen = fetch[s].seen
    BY <2>1, <2>2, <1>4 DEF Answers, TypeOK, Serve
  <2>4. \A q \in Slots : q # s => fetch'[q] = fetch[q]
    BY <2>2 DEF TypeOK
  <2>5. fetch' \in [Slots -> Answers \cup {None}]
    BY <2>2, <2>3, <2>4 DEF TypeOK
  <2>6. fetch # NoLoad
    BY <1>4 DEF Serve, NoLoad
  <2>7. UNCHANGED <<entry, faults>> /\ fetch[s] # None
    BY <1>4 DEF Serve
  <2>8. TypeOK' /\ ClosedIsEmpty'
    BY <1>0, <2>5, <2>6, <2>7 DEF TypeOK, ClosedIsEmpty
  <2>9. LoadsTold'
    BY <1>1, <2>3, <2>4, <2>7 DEF LoadsTold
  <2> QED
    BY <1>1, <1>2, <2>7, <2>8, <2>9 DEF NoChangeForgotten
<1>5. ASSUME NEW s \in Slots, Land(s) PROVE Inv'
  <2>1. fetch[s] \in Answers
    BY <1>5 DEF Land, TypeOK
  <2>2. entry' \in Entries /\ entry'.seen = fetch[s].seen
    BY <1>5, <2>1 DEF Land, Answers, Entries
  <2>3. fetch # NoLoad /\ fetch[s] # None
    BY <1>5 DEF Land, NoLoad
  <2>4. \A q \in Slots : fetch'[q] = IF q = s THEN None ELSE fetch[q]
    BY <1>5 DEF Land, TypeOK
  <2>5. fetch' \in [Slots -> Answers \cup {None}] /\ UNCHANGED faults
    BY <1>5 DEF Land, TypeOK
  <2>6. TypeOK' /\ ClosedIsEmpty'
    BY <1>0, <2>2, <2>3, <2>5 DEF TypeOK, ClosedIsEmpty
  <2>7. LoadsTold'
    BY <1>1, <2>4 DEF LoadsTold
  <2>8. NoChangeForgotten'
    BY <1>1, <2>2, <2>3 DEF NoChangeForgotten, LoadsTold
  <2> QED
    BY <1>2, <2>6, <2>7, <2>8
<1>6. ASSUME NEW s \in Slots, FetchFails(s) PROVE Inv'
  <2>1. entry' \in Entries \cup {None}
    BY <1>6, SettleFits DEF FetchFails, TypeOK
  <2>2. entry' # None => entry'.seen # "told" \/ Owed(op)
    BY <1>6, SettleFits DEF FetchFails, TypeOK
  <2>3. fetch # NoLoad
    BY <1>6 DEF FetchFails, NoLoad
  <2>4. \A q \in Slots : fetch'[q] = IF q = s THEN None ELSE fetch[q]
    BY <1>6 DEF FetchFails, TypeOK
  <2>5. fetch' \in [Slots -> Answers \cup {None}] /\ faults' \in 0..MaxFaults
    BY <1>6, DriveViewAssumption DEF FetchFails, TypeOK
  <2>6. TypeOK' /\ ClosedIsEmpty'
    BY <1>0, <2>1, <2>3, <2>5 DEF TypeOK, ClosedIsEmpty
  <2>7. LoadsTold'
    BY <1>1, <2>4 DEF LoadsTold
  <2>8. NoChangeForgotten'
    BY <1>1, <2>2 DEF NoChangeForgotten
  <2> QED
    BY <1>2, <2>6, <2>7, <2>8
<1> QED
  BY <1>3, <1>4, <1>5, <1>6

(* The thumbnail, and another user.                                         *)
LEMMA OutsideInv ==
    ASSUME Inv, ThumbnailMade \/ SwitchUser
    PROVE  Inv'
<1> USE DEF Inv
<1>0. UNCHANGED <<key, page, op, begun, faults>>
  BY DEF ThumbnailMade, SwitchUser
<1>1. Owed(op)' <=> Owed(op)
  BY <1>0 DEF Owed
<1>2. CASE ThumbnailMade
  BY <1>0, <1>1, <1>2 DEF ThumbnailMade, TypeOK, Tiles, HandlersRefresh, LoadsTold,
                          ClosedIsEmpty, NoChangeForgotten, NoLoad
<1>3. CASE SwitchUser
  <2>1. entry' \in Entries \cup {None} /\ (entry' # None => entry'.seen = "missed")
    <3>1. CASE entry = None
      BY <1>3, <3>1 DEF SwitchUser
    <3>2. CASE entry # None
      BY <1>3, <3>2 DEF SwitchUser, TypeOK, Entries, Seen
    <3> QED
      BY <3>1, <3>2
  <2>2. ASSUME NEW s \in Slots
        PROVE  /\ fetch'[s] \in Answers \cup {None}
               /\ fetch'[s] # None => fetch'[s].seen = "missed"
    <3>1. CASE fetch[s] = None
      BY <1>3, <3>1 DEF SwitchUser
    <3>2. CASE fetch[s] # None
      <4>1. fetch[s] \in Answers
        BY <3>2 DEF TypeOK
      <4>2. fetch'[s] = [fetch[s] EXCEPT !.seen = "missed"]
        BY <1>3, <3>2 DEF SwitchUser
      <4> QED
        BY <4>1, <4>2 DEF Answers, Seen
    <3> QED
      BY <3>1, <3>2
  <2>3. fetch' = [s \in Slots |-> fetch'[s]]
    BY <1>3 DEF SwitchUser
  <2>4. fetch' \in [Slots -> Answers \cup {None}]
    BY <2>2, <2>3
  <2>5. key # "shares" /\ tile' \in Tiles
    BY <1>3, ListsOf DEF SwitchUser, Tiles
  <2>6. TypeOK'
    BY <1>0, <2>1, <2>4, <2>5 DEF TypeOK
  <2> QED
    BY <1>0, <1>1, <2>1, <2>2, <2>5, <2>6
       DEF HandlersRefresh, LoadsTold, ClosedIsEmpty, NoChangeForgotten
<1> QED
  BY <1>2, <1>3

(* A change is begun: its handler is to refresh what it will owe.           *)
LEMMA BeginInv ==
    ASSUME Inv, NEW o \in Ops, Begin(o)
    PROVE  Inv'
<1> USE DEF Inv
<1>1. PICK r \in Offered(page) :
        op' = [op EXCEPT ![o] =
                 [hit |-> key \in r.changes, expected |-> key \in Expected(r),
                  refreshes |-> key \in r.refreshes, each |-> r.each,
                  always |-> r.always, polls |-> r.always, left |-> r.files,
                  pc |-> "sent",
                  image |-> r.image /\ key \in {"files/root", "anon/root"},
                  owes |-> FALSE]]
  BY DEF Begin
<1>2. Fits(r)
  BY OffersFit
<1>3. /\ op'[o] \in Running /\ ~op'[o].owes
      /\ op'[o].expected => op'[o].refreshes
      /\ \A q \in Ops : q # o => op'[q] = op[q]
  BY <1>1, <1>2 DEF TypeOK, Fits, Running
<1>4. op' \in [Ops -> Running \cup {None}]
  BY <1>1, <1>3 DEF TypeOK
<1>5. UNCHANGED <<key, page, entry, fetch, tile, faults>> /\ op[o] = None
      /\ begun' \in 0..MaxChanges
  BY DriveViewAssumption DEF Begin, TypeOK
<1>6. TypeOK'
  BY <1>4, <1>5 DEF TypeOK
<1>7. HandlersRefresh'
  BY <1>3 DEF HandlersRefresh
<1>8. Owed(op)' <=> Owed(op)
  BY <1>3, <1>5 DEF Owed
<1>9. ClosedIsEmpty'
  BY <1>5, ListsOf DEF ClosedIsEmpty
<1> QED
  BY <1>5, <1>6, <1>7, <1>8, <1>9 DEF LoadsTold, NoChangeForgotten

(* The server carries a change out: what predates it is owed from now on,   *)
(* or nobody has promised it.                                               *)
LEMMA ApplyInv ==
    ASSUME Inv, NEW o \in Ops, Apply(o)
    PROVE  Inv'
<1> USE DEF Inv
<1>1. op[o] \in Running /\ op[o] # None
  BY DEF Apply, TypeOK
<1>2. /\ op'[o] \in Running /\ op'[o].owes = (op[o].owes \/ op[o].expected)
      /\ op'[o].expected = op[o].expected /\ op'[o].refreshes = op[o].refreshes
      /\ \A q \in Ops : q # o => op'[q] = op[q]
  BY <1>1 DEF Apply, TypeOK, Running
<1>3. op' \in [Ops -> Running \cup {None}]
  BY <1>2 DEF Apply, TypeOK
<1>4. HandlersRefresh'
  BY <1>1, <1>2 DEF HandlersRefresh
<1>5. Owed(op) => Owed(op)'
  BY <1>1, <1>2, NoneAssumption DEF Owed
<1>6. op[o].expected => Owed(op)'
  BY <1>2, NoneAssumption DEF Owed
<1>7. UNCHANGED <<key, page, begun, faults>> /\ tile' \in Tiles
  BY DEF Apply, TypeOK, Tiles
<1>8. PICK seen \in {"told", "missed"} :
        /\ seen = "told" => op[o].expected
        /\ entry' \in {entry, Outrun(entry, seen)}
        /\ \/ fetch' = fetch
           \/ fetch' = [s \in Slots |-> OutrunServed(fetch[s], seen)]
  <2>1. CASE op[o].expected
    BY <2>1 DEF Apply
  <2>2. CASE ~op[o].expected
    BY <2>2 DEF Apply
  <2> QED
    BY <2>1, <2>2
<1>9. /\ entry' \in Entries \cup {None} /\ (entry = None => entry' = None)
      /\ entry' # None => entry # None /\ entry'.mark = entry.mark
      /\ entry' # None /\ entry'.seen = "told" => entry.seen = "told" \/ op[o].expected
  BY <1>8, OutrunFits DEF TypeOK
<1>10. ASSUME NEW s \in Slots
       PROVE  /\ fetch'[s] \in Answers \cup {None}
              /\ fetch[s] = None => fetch'[s] = None
              /\ fetch'[s] # None /\ fetch'[s].seen = "told" =>
                   fetch[s] # None /\ (fetch[s].seen = "told" \/ op[o].expected)
  <2>1. fetch[s] \in Answers \cup {None}
    BY DEF TypeOK
  <2>2. fetch'[s] \in {fetch[s], Outrun(fetch[s], seen)}
    BY <1>8 DEF OutrunServed
  <2> QED
    BY <1>8, <2>1, <2>2, OutrunFits
<1>11. fetch' \in [Slots -> Answers \cup {None}]
  BY <1>8, <1>10 DEF TypeOK
<1>12. fetch = NoLoad => fetch' = NoLoad
  BY <1>10, <1>11 DEF NoLoad
<1>13. TypeOK'
  BY <1>3, <1>7, <1>9, <1>11 DEF TypeOK
<1>14. LoadsTold' /\ NoChangeForgotten'
  BY <1>5, <1>6, <1>9, <1>10 DEF LoadsTold, NoChangeForgotten
<1>15. ClosedIsEmpty'
  BY <1>1, <1>2, <1>7, <1>9, <1>12 DEF ClosedIsEmpty
<1> QED
  BY <1>4, <1>13, <1>14, <1>15

(* What a handler's refresh leaves: nothing fresh predates a change, and    *)
(* loads that do are owed.                                                  *)
LEMMA RefreshFits ==
    ASSUME TypeOK, NEW r, r.refreshes, Refresh(r, op')
    PROVE  /\ entry' \in Entries \cup {None}
           /\ fetch' \in [Slots -> Answers \cup {None}]
           /\ entry' # None => entry'.mark # "fresh"
           /\ \A s \in Slots : fetch'[s] # None /\ fetch'[s].seen = "told" => Owed(op')
<1>1. CASE key # "shares"
  <2>1. Invalidate(op')
    BY <1>1 DEF Refresh
  <2>2. entry' \in Entries \cup {None} /\ (entry' # None => entry'.mark # "fresh")
    BY <2>1, InvalidFits DEF Invalidate, TypeOK
  <2>3. CASE fetch' = Load(page)
    BY <1>1, <2>2, <2>3, AskedFits
  <2>4. CASE fetch' = SettleAll(op')
    BY <1>1, <2>2, <2>4, SettleAllFits DEF TypeOK
  <2> QED
    BY <2>1, <2>3, <2>4 DEF Invalidate
<1>2. CASE key = "shares"
  <2> DEFINE q == CHOOSE t \in Slots : fetch[t] = None
  <2>1. entry' = Invalid(entry)
    BY <1>2 DEF Refresh, Reload
  <2>2. entry' \in Entries \cup {None} /\ (entry' # None => entry'.mark # "fresh")
    BY <2>1, InvalidFits DEF TypeOK
  <2>3. fetch' = [SettleAll(op') EXCEPT ![q] = Asked("modal")]
    BY <1>2 DEF Refresh, Reload
  <2> HIDE DEF q
  <2>4. /\ SettleAll(op') \in [Slots -> Answers \cup {None}]
        /\ \A s \in Slots : SettleAll(op')[s] # None /\ SettleAll(op')[s].seen = "told"
                              => Owed(op')
    BY SettleAllFits DEF TypeOK
  <2>5. \A s \in Slots : fetch'[s] = IF s = q THEN Asked("modal") ELSE SettleAll(op')[s]
    BY <2>3, <2>4
  <2>6. fetch' \in [Slots -> Answers \cup {None}]
    BY <2>3, <2>4, <2>5, AskedFits
  <2> QED
    BY <1>2, <2>2, <2>4, <2>5, <2>6, AskedFits
<1> QED
  BY <1>1, <1>2

LEMMA NextFileFits ==
    ASSUME NEW r \in Running, r.left # 1, NEW w \in BOOLEAN
    PROVE  LET n == NextFile(r, w)
           IN  /\ n \in Running /\ n.owes = w
               /\ n.expected = r.expected /\ n.refreshes = r.refreshes
<1>1. r.left - 1 \in 1..2
  BY DEF Running
<1> QED
  BY <1>1 DEF NextFile, Running

(* An answer comes in: its handler refreshes the list, or goes on.          *)
LEMMA AnsweredInv ==
    ASSUME Inv, NEW o \in Ops, Answered(o)
    PROVE  Inv'
<1> USE DEF Inv
<1>1. op[o] \in Running /\ op[o] # None
  BY DEF Answered, TypeOK
<1>2. op'[o] = IF op[o].left = 1 THEN None
               ELSE NextFile(op[o], op[o].owes /\ ~op[o].each)
  BY DEF Answered, TypeOK
<1>3. \A q \in Ops : q # o => op'[q] = op[q]
  BY DEF Answered, TypeOK
<1>4. /\ op'[o] \in Running \cup {None}
      /\ op'[o] # None =>
           /\ op'[o].expected = op[o].expected /\ op'[o].refreshes = op[o].refreshes
           /\ op'[o].owes = (op[o].owes /\ ~op[o].each)
      /\ op[o].left # 1 => op'[o] # None
  <2>1. CASE op[o].left = 1
    BY <1>2, <2>1
  <2>2. CASE op[o].left # 1
    <3>1. PICK w \in BOOLEAN : w = (op[o].owes /\ ~op[o].each)
      OBVIOUS
    <3>2. op'[o] = NextFile(op[o], w)
      BY <1>2, <2>2, <3>1
    <3>3. /\ op'[o] \in Running /\ op'[o].owes = w
          /\ op'[o].expected = op[o].expected /\ op'[o].refreshes = op[o].refreshes
      BY <1>1, <2>2, <3>2, NextFileFits
    <3> QED
      BY <3>1, <3>3, NoneAssumption
  <2> QED
    BY <2>1, <2>2
<1>5. op' \in [Ops -> Running \cup {None}]
  <2>1. op' = [op EXCEPT ![o] = op'[o]]
    BY <1>2 DEF Answered, TypeOK
  <2> QED
    BY <1>4, <2>1 DEF TypeOK
<1>6. HandlersRefresh'
  BY <1>1, <1>3, <1>4 DEF HandlersRefresh
<1>7. UNCHANGED <<key, page, tile, begun, faults>>
  BY DEF Answered
<1>8. CASE op[o].refreshes /\ (op[o].left = 1 \/ op[o].each)
  <2>1. Refresh(op[o], op')
    BY <1>8 DEF Answered
  <2>2. /\ entry' \in Entries \cup {None}
        /\ fetch' \in [Slots -> Answers \cup {None}]
        /\ entry' # None => entry'.mark # "fresh"
        /\ \A s \in Slots : fetch'[s] # None /\ fetch'[s].seen = "told" => Owed(op')
    BY <1>8, <2>1, RefreshFits
  <2>3. TypeOK' /\ ClosedIsEmpty'
    BY <1>1, <1>5, <1>7, <1>8, <2>2 DEF TypeOK, ClosedIsEmpty
  <2>4. LoadsTold' /\ NoChangeForgotten'
    BY <2>2 DEF LoadsTold, NoChangeForgotten, Owed
  <2> QED
    BY <1>6, <2>3, <2>4
<1>9. CASE ~(op[o].refreshes /\ (op[o].left = 1 \/ op[o].each))
  <2>1. UNCHANGED <<entry, fetch>>
    BY <1>9 DEF Answered, Refresh
  <2>2. op[o].owes => op'[o] # None /\ op'[o].owes
    BY <1>1, <1>4, <1>9 DEF HandlersRefresh, Running
  <2>3. Owed(op) => Owed(op')
    BY <1>3, <2>2 DEF Owed
  <2>4. TypeOK' /\ ClosedIsEmpty'
    BY <1>1, <1>3, <1>4, <1>5, <1>7, <2>1 DEF TypeOK, ClosedIsEmpty
  <2>5. LoadsTold' /\ NoChangeForgotten'
    BY <2>1, <2>3 DEF LoadsTold, NoChangeForgotten
  <2> QED
    BY <1>6, <2>4, <2>5
<1> QED
  BY <1>8, <1>9

(* A request fails: what its handler owed it owes no longer.                *)
LEMMA FailsInv ==
    ASSUME Inv, NEW o \in Ops, Fails(o)
    PROVE  Inv'
<1> USE DEF Inv
<1>1. op[o] \in Running /\ op[o] # None
  BY DEF Fails, TypeOK
<1>2. op'[o] = IF op[o].each /\ op[o].left > 1
               THEN NextFile(op[o], op[o].owes) ELSE None
  BY DEF Fails, TypeOK
<1>3. \A q \in Ops : q # o => op'[q] = op[q]
  BY DEF Fails, TypeOK
<1>4. /\ op'[o] \in Running \cup {None}
      /\ op'[o] # None =>
           /\ op'[o].expected = op[o].expected /\ op'[o].refreshes = op[o].refreshes
           /\ op'[o].owes = op[o].owes
  <2>1. CASE op[o].each /\ op[o].left > 1
    <3>1. op[o].owes \in BOOLEAN /\ op[o].left # 1
      BY <1>1, <2>1 DEF Running
    <3> QED
      BY <1>1, <1>2, <2>1, <3>1, NextFileFits
  <2>2. CASE ~(op[o].each /\ op[o].left > 1)
    BY <1>2, <2>2
  <2> QED
    BY <2>1, <2>2
<1>5. op' \in [Ops -> Running \cup {None}]
  <2>1. op' = [op EXCEPT ![o] = op'[o]]
    BY <1>2 DEF Fails, TypeOK
  <2> QED
    BY <1>4, <2>1 DEF TypeOK
<1>6. HandlersRefresh'
  BY <1>1, <1>3, <1>4 DEF HandlersRefresh
<1>7. UNCHANGED <<key, page, tile, begun>> /\ faults' \in 0..MaxFaults
  BY DriveViewAssumption DEF Fails, TypeOK
<1>8. CASE op[o].always /\ op[o].refreshes
  <2>1. Refresh(op[o], op')
    BY <1>8 DEF Fails
  <2>2. /\ entry' \in Entries \cup {None}
        /\ fetch' \in [Slots -> Answers \cup {None}]
        /\ entry' # None => entry'.mark # "fresh"
        /\ \A s \in Slots : fetch'[s] # None /\ fetch'[s].seen = "told" => Owed(op')
    BY <1>8, <2>1, RefreshFits
  <2>3. TypeOK' /\ ClosedIsEmpty'
    BY <1>1, <1>5, <1>7, <1>8, <2>2 DEF TypeOK, ClosedIsEmpty
  <2>4. LoadsTold' /\ NoChangeForgotten'
    BY <2>2 DEF LoadsTold, NoChangeForgotten, Owed
  <2> QED
    BY <1>6, <2>3, <2>4
<1>9. CASE op[o].always /\ ~op[o].refreshes
  <2>1. UNCHANGED <<entry, fetch>>
    BY <1>9 DEF Fails, Refresh
  <2>2. ~op[o].owes
    BY <1>1, <1>9 DEF HandlersRefresh
  <2>3. Owed(op) => Owed(op')
    BY <1>3, <2>2 DEF Owed
  <2>4. TypeOK' /\ ClosedIsEmpty'
    BY <1>1, <1>3, <1>4, <1>5, <1>7, <2>1 DEF TypeOK, ClosedIsEmpty
  <2>5. LoadsTold' /\ NoChangeForgotten'
    BY <2>1, <2>3 DEF LoadsTold, NoChangeForgotten
  <2> QED
    BY <1>6, <2>4, <2>5
<1>10. CASE ~op[o].always
  <2>1. entry' = Settle(entry, op') /\ fetch' = SettleAll(op')
    BY <1>10 DEF Fails
  <2>2. /\ entry' \in Entries \cup {None} /\ (entry = None => entry' = None)
        /\ entry' # None /\ entry'.seen = "told" => Owed(op')
    BY <2>1, SettleFits DEF TypeOK
  <2>3. /\ fetch' \in [Slots -> Answers \cup {None}]
        /\ \A s \in Slots : fetch'[s] # None /\ fetch'[s].seen = "told" => Owed(op')
        /\ fetch = NoLoad => fetch' = NoLoad
    BY <2>1, SettleAllFits DEF TypeOK
  <2>4. TypeOK' /\ ClosedIsEmpty'
    BY <1>1, <1>3, <1>4, <1>5, <1>7, <2>2, <2>3 DEF TypeOK, ClosedIsEmpty
  <2>5. LoadsTold' /\ NoChangeForgotten'
    BY <2>2, <2>3 DEF LoadsTold, NoChangeForgotten, Owed
  <2> QED
    BY <1>6, <2>4, <2>5
<1> QED
  BY <1>8, <1>9, <1>10

LEMMA InvNext == ASSUME Inv, [Next]_vars PROVE Inv'
<1>1. CASE UNCHANGED vars
  BY <1>1 DEF vars, Inv, TypeOK, HandlersRefresh, LoadsTold, ClosedIsEmpty,
              NoChangeForgotten, Owed, NoLoad
<1>2. CASE Next
  BY <1>2, PageInv, CloseInv, LoadInv, OutsideInv, BeginInv, ApplyInv, AnsweredInv, FailsInv
     DEF Next
<1> QED
  BY <1>1, <1>2

LEMMA InvAlways == Spec => []Inv
BY InitInv, InvNext, PTL DEF Spec

-----------------------------------------------------------------------------
(* The theorems                                                             *)

(* The cache entry, the loads and the changes of a tab keep their types.    *)
THEOREM TypeCorrect == Spec => []TypeOK
<1>1. Inv => TypeOK
  BY DEF Inv
<1> QED
  BY <1>1, InvAlways, PTL

(* Whatever pages are visited, however loads, changes, failures and other   *)
(* users interleave: a list that a handler is to refresh never looks fresh  *)
(* unless that handler is still to come.                                    *)
THEOREM NothingForgotten == Spec => []NoChangeForgotten
<1>1. Inv => NoChangeForgotten
  BY DEF Inv
<1> QED
  BY <1>1, InvAlways, PTL
=============================================================================
