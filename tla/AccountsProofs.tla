--------------------------- MODULE AccountsProofs ---------------------------
(* Proofs about Accounts, for every value of its constants.                *)
EXTENDS Accounts, TLAPS

-----------------------------------------------------------------------------
(* The inductive invariant                                                 *)

Pcs == {"new", "create", "send", "write", "migrate", "open", "list", "revoke",
        "forget", "lookup", "fill", "delete", "done", "failed"}

RequestType ==
    [op : Ops \cup {"none"}, pc : Pcs,
     with : Passwords \cup Creds \cup Links \cup Resets \cup {None},
     saw : BOOLEAN, cred : Creds \cup {None}, todo : SUBSET Sessions,
     owed : SUBSET Sessions, stale : BOOLEAN]

(* What a request under way has read of a credential or a link was there,  *)
(* and rows are not forgotten.                                             *)
ReadsExist(r) ==
    /\ req[r].op = "use" /\ req[r].pc \in {"lookup", "fill"} => With(r) \in Creds
    /\ req[r].op = "verify" /\ req[r].pc \in {"write", "done"} =>
         With(r) \in Verify /\ link[With(r)] # "none"
    /\ req[r].op = "confirm" /\ req[r].pc \in {"write", "delete"} =>
         With(r) \in Deletions /\ link[With(r)] # "none"
    /\ req[r].op = "revoke" /\ req[r].pc \in {"revoke", "forget"} =>
         With(r) \in Creds /\ row[With(r)] # "none"
    /\ \A s \in req[r].todo \cup req[r].owed : row[s] # "none"
    /\ req[r].pc = "revoke" => req[r].op \in {"revoke", "reset"}
    /\ req[r].pc = "forget" =>
         /\ req[r].op \in {"revoke", "reset"} /\ req[r].cred \in Creds
         /\ row[req[r].cred] \in {"revoked", "gone"}

(* A login that has checked its password is one of a verified account.     *)
(* What a migration writes back is the password the account came with, and *)
(* still has unless the login has been overtaken.                          *)
LoginKnown(r) ==
    /\ req[r].op = "login" /\ req[r].pc \in {"migrate", "open"} =>
         user.there = "gone" \/ (There /\ user.verified)
    /\ Migrating(r) => With(r) = First
    /\ Migrating(r) /\ ~req[r].stale /\ There => user.password = First

(* A lookup that read a row before its revocation is on record as stale.   *)
LateFill(r) ==
    At(r, "use", "fill") /\ req[r].saw /\ row[With(r)] = "revoked" => req[r].stale

(* What a reset owes is on its list or revoked, in the end all of it.      *)
Owed(r) ==
    /\ req[r].op = "reset" /\ req[r].pc \in {"revoke", "forget"} =>
         \A s \in req[r].owed : s \in req[r].todo \/ row[s] \in {"revoked", "gone"}
    /\ At(r, "reset", "done") => \A s \in req[r].owed : row[s] \in {"revoked", "gone"}

(* A link that was used is used, and who read it before is on record.      *)
UsedLink(r) ==
    /\ At(r, "verify", "done") => link[With(r)] \in {"used", "gone"}
    /\ At(r, "verify", "write") /\ link[With(r)] = "used" => req[r].stale
    /\ At(r, "confirm", "done") => user.there = "gone"

Known(r) == ReadsExist(r) /\ LoginKnown(r) /\ LateFill(r) /\ Owed(r) /\ UsedLink(r)

(* A password in the old form is the one the account came with.            *)
LegacyFirst == user.legacy => user.password = First

Inv ==
    /\ TypeOK /\ req \in [Requests -> RequestType]
    /\ LegacyFirst /\ \A r \in Requests : Known(r)
    /\ RevokedOnlyByRace /\ LinksWorkOnce

-----------------------------------------------------------------------------
(* How requests move                                                       *)

(* A request is left alone, or somebody notes that it has been overtaken.  *)
Kept(q) ==
    /\ req'[q] \in RequestType
    /\ req'[q].op = req[q].op /\ req'[q].pc = req[q].pc /\ req'[q].with = req[q].with
    /\ req'[q].saw = req[q].saw /\ req'[q].cred = req[q].cred
    /\ req'[q].todo = req[q].todo /\ req'[q].owed = req[q].owed
    /\ req[q].stale => req'[q].stale

Reqs == req \in [Requests -> RequestType]

Others(r) == Reqs' /\ \A q \in Requests \ {r} : Kept(q)

Own(r, op, pc, with) ==
    /\ req'[r].op = op /\ req'[r].pc = pc /\ req'[r].with = with
    /\ req'[r].saw = req[r].saw /\ req'[r].cred = req[r].cred
    /\ req'[r].todo = req[r].todo /\ req'[r].owed = req[r].owed
    /\ req'[r].stale = req[r].stale

Values == Passwords \cup Creds \cup Links \cup Resets \cup {None}

LEMMA BeginIs ==
    ASSUME Reqs, NEW r \in Requests, NEW op \in Ops, NEW pc \in Pcs, NEW with \in Values,
           Begin(r, op, with, pc)
    PROVE  req[r].pc = "new" /\ Own(r, op, pc, with) /\ Others(r)
<1> DEFINE t == [req[r] EXCEPT !.op = op, !.with = with, !.pc = pc]
<1>1. req' = [req EXCEPT ![r].op = op, ![r].with = with, ![r].pc = pc] /\ req[r].pc = "new"
  BY DEF Begin
<1>2. req' = [req EXCEPT ![r] = t]
  BY <1>1 DEF Reqs
<1>3. t \in RequestType
  BY DEF Reqs, RequestType, Values
<1>4. /\ t.op = op /\ t.pc = pc /\ t.with = with /\ t.saw = req[r].saw /\ t.cred = req[r].cred
      /\ t.todo = req[r].todo /\ t.owed = req[r].owed /\ t.stale = req[r].stale
  BY DEF Reqs, RequestType
<1> HIDE DEF t
<1>5. req'[r] = t /\ Reqs' /\ \A q \in Requests \ {r} : req'[q] = req[q]
  BY <1>2, <1>3 DEF Reqs
<1> QED
  BY <1>1, <1>4, <1>5 DEF Own, Others, Kept, Reqs

LEMMA GotoIs ==
    ASSUME Reqs, NEW r \in Requests, NEW pc \in Pcs, Goto(r, pc)
    PROVE  Own(r, req[r].op, pc, With(r)) /\ Others(r)
<1> DEFINE t == [req[r] EXCEPT !.pc = pc]
<1>1. req' = [req EXCEPT ![r] = t]
  BY DEF Goto, Reqs
<1>2. t \in RequestType
  BY DEF Reqs, RequestType
<1>3. /\ t.op = req[r].op /\ t.pc = pc /\ t.with = With(r) /\ t.saw = req[r].saw
      /\ t.cred = req[r].cred
      /\ t.todo = req[r].todo /\ t.owed = req[r].owed /\ t.stale = req[r].stale
  BY DEF Reqs, RequestType, With
<1> HIDE DEF t
<1>4. req'[r] = t /\ Reqs' /\ \A q \in Requests \ {r} : req'[q] = req[q]
  BY <1>1, <1>2 DEF Reqs
<1> QED
  BY <1>3, <1>4 DEF Own, Others, Kept, Reqs

LEMMA OvertakeIs ==
    ASSUME Reqs, NEW r \in Requests, NEW t \in RequestType, NEW S, Overtake(r, t, S)
    PROVE  req'[r] = t /\ Others(r) /\ \A q \in S : q \in Requests \ {r} => req'[q].stale
<1>1. /\ req'[r] = t
      /\ \A q \in Requests \ {r} : req'[q] = [req[q] EXCEPT !.stale = @ \/ q \in S]
  BY DEF Overtake
<1>2. ASSUME NEW q \in Requests \ {r}
      PROVE  Kept(q) /\ (q \in S => req'[q].stale)
  <2>1. req'[q] = [req[q] EXCEPT !.stale = @ \/ q \in S] /\ req[q] \in RequestType
    BY <1>1 DEF Reqs
  <2> DEFINE b == req[q].stale \/ q \in S
  <2>2. b \in BOOLEAN
    OBVIOUS
  <2>3. req'[q] = [req[q] EXCEPT !.stale = b]
    BY <2>1
  <2>4. (req[q].stale => b) /\ (q \in S => b)
    OBVIOUS
  <2> HIDE DEF b
  <2> QED
    BY <2>1, <2>2, <2>3, <2>4 DEF Kept, RequestType
<1>3. Reqs'
  <2>1. \A q \in Requests : req'[q] \in RequestType
    BY <1>1, <1>2 DEF Kept
  <2> QED
    BY <2>1 DEF Overtake, Reqs
<1> QED
  BY <1>1, <1>2, <1>3 DEF Others

LEMMA OvertakeTo ==
    ASSUME Reqs, NEW r \in Requests, NEW pc \in Pcs, NEW S,
           Overtake(r, [req[r] EXCEPT !.pc = pc], S)
    PROVE  /\ Own(r, req[r].op, pc, With(r)) /\ Others(r)
           /\ \A q \in S : q \in Requests \ {r} => req'[q].stale
<1> DEFINE t == [req[r] EXCEPT !.pc = pc]
<1>1. t \in RequestType
  BY DEF Reqs, RequestType
<1>2. /\ t.op = req[r].op /\ t.pc = pc /\ t.with = With(r) /\ t.saw = req[r].saw
      /\ t.cred = req[r].cred
      /\ t.todo = req[r].todo /\ t.owed = req[r].owed /\ t.stale = req[r].stale
  BY DEF Reqs, RequestType, With
<1> HIDE DEF t
<1>3. Overtake(r, t, S)
  BY DEF t
<1> QED
  BY <1>1, <1>2, <1>3, OvertakeIs DEF Own

Rests(r, S, pc) == req' = [req EXCEPT ![r].todo = S, ![r].pc = pc]

Listed(r, S, pc) ==
    /\ req'[r].op = req[r].op /\ req'[r].pc = pc /\ req'[r].with = With(r)
    /\ req'[r].saw = req[r].saw /\ req'[r].cred = req[r].cred
    /\ req'[r].todo = S /\ req'[r].owed = req[r].owed
    /\ req'[r].stale = req[r].stale

LEMMA RestsIs ==
    ASSUME Reqs, NEW r \in Requests, NEW S \in SUBSET Sessions, NEW pc \in Pcs,
           Rests(r, S, pc)
    PROVE  Listed(r, S, pc) /\ Others(r)
<1> DEFINE t == [req[r] EXCEPT !.todo = S, !.pc = pc]
<1>1. req' = [req EXCEPT ![r] = t]
  BY DEF Rests, Reqs
<1>2. t \in RequestType
  BY DEF Reqs, RequestType
<1>3. /\ t.op = req[r].op /\ t.pc = pc /\ t.with = With(r) /\ t.saw = req[r].saw
      /\ t.cred = req[r].cred
      /\ t.todo = S /\ t.owed = req[r].owed /\ t.stale = req[r].stale
  BY DEF Reqs, RequestType, With
<1> HIDE DEF t
<1>4. req'[r] = t /\ Reqs' /\ \A q \in Requests \ {r} : req'[q] = req[q]
  BY <1>1, <1>2 DEF Reqs
<1> QED
  BY <1>3, <1>4 DEF Listed, Others, Kept, Reqs

-----------------------------------------------------------------------------
(* How rows move, and whom a step of the requests in R overtakes           *)

RowsMove(R) ==
    \A c \in Creds :
        /\ row[c] # "none" => row'[c] # "none"
        /\ row[c] \in {"revoked", "gone"} => row'[c] \in {"revoked", "gone"}
        /\ row'[c] = "revoked" =>
             \/ row[c] = "revoked"
             \/ \A q \in Requests \ R :
                   At(q, "use", "fill") /\ With(q) = c => req'[q].stale

LinksMove(R) ==
    \A l \in Links :
        /\ link[l] # "none" => link'[l] # "none"
        /\ link[l] \in {"used", "gone"} => link'[l] \in {"used", "gone"}
        /\ link'[l] = "used" =>
             \/ link[l] = "used"
             \/ \A q \in Requests \ R :
                   At(q, "verify", "write") /\ With(q) = l => req'[q].stale

UserMoves(R) ==
    /\ user.there = "gone" => user'.there = "gone"
    /\ There => user'.there \in {"yes", "gone"}
    /\ There /\ user.verified => user'.there = "gone" \/ (There' /\ user'.verified)
    /\ user'.legacy => user.legacy /\ user'.password = user.password
    /\ There' =>
         \/ user'.password = user.password
         \/ user.there = "none" \/ user'.password = First
         \/ \A q \in Requests \ R : Migrating(q) => req'[q].stale

Moves(R) == RowsMove(R) /\ LinksMove(R) /\ UserMoves(R)

(* A request nobody runs goes on knowing what it knows.                    *)
LEMMA KeptKnown ==
    ASSUME Reqs, TypeOK, NEW R \in SUBSET Requests, NEW q \in Requests \ R,
           Kept(q), Moves(R), Known(q)
    PROVE  Known(q)'
<1>1. Verify \subseteq Links /\ Deletions \subseteq Links /\ Sessions \subseteq Creds
      /\ req[q].todo \subseteq Sessions /\ req[q].owed \subseteq Sessions
  BY DEF Links, Creds, Reqs, RequestType
<1>2. ReadsExist(q)'
  BY <1>1 DEF Known, ReadsExist, Kept, Moves, RowsMove, LinksMove, With, At
<1>3. LoginKnown(q)'
  BY DEF Known, LoginKnown, Kept, Moves, UserMoves, With, At, Migrating, There
<1>4. LateFill(q)'
  BY <1>1 DEF Known, LateFill, ReadsExist, Kept, Moves, RowsMove, With, At
<1>5. Owed(q)'
  BY <1>1 DEF Known, Owed, Kept, Moves, RowsMove, With, At
<1>6. UsedLink(q)'
  BY <1>1 DEF Known, UsedLink, ReadsExist, Kept, Moves, LinksMove, UserMoves, With, At
<1> QED
  BY <1>2, <1>3, <1>4, <1>5, <1>6 DEF Known

(* A step that touches no row moves none.                                  *)
LEMMA StillRows ==
    ASSUME NEW R, UNCHANGED row
    PROVE  RowsMove(R)
BY DEF RowsMove

LEMMA StillLinks ==
    ASSUME NEW R, UNCHANGED link
    PROVE  LinksMove(R)
BY DEF LinksMove

LEMMA StillUser ==
    ASSUME NEW R, UNCHANGED user
    PROVE  UserMoves(R)
BY DEF UserMoves, There

-----------------------------------------------------------------------------
(* Putting a step together                                                 *)

LEMMA StepInv ==
    ASSUME Inv, NEW r \in Requests, Others(r), Moves({r}), Known(r)', TypeOK',
           RevokedOnlyByRace', LinksWorkOnce'
    PROVE  Inv'
<1>1. ASSUME NEW q \in Requests PROVE Known(q)'
  <2>1. CASE q = r
    BY <2>1
  <2>2. CASE q # r
    BY <2>2, KeptKnown DEF Inv, Others, Reqs
  <2> QED
    BY <2>1, <2>2
<1>2. LegacyFirst'
  BY DEF Inv, LegacyFirst, Moves, UserMoves
<1>3. req' \in [Requests -> RequestType]
  BY DEF Others, Reqs
<1> QED
  BY <1>1, <1>2, <1>3 DEF Inv

(* Who is done stays done, and who forgets a credential does so still.     *)
LEMMA RaceKept ==
    ASSUME Inv, NEW r \in Requests, Others(r), req[r].pc \notin {"forget", "done"},
           UNCHANGED cache, \A c \in Creds : row'[c] = "revoked" => row[c] = "revoked"
    PROVE  RevokedOnlyByRace'
<1> SUFFICES ASSUME NEW c \in Creds, row'[c] = "revoked", cache'[c] = "yes", ~Forgetting(c)'
             PROVE  \E q \in Requests : At(q, "use", "done")' /\ With(q)' = c /\ req'[q].stale
  BY DEF RevokedOnlyByRace
<1>1. ~Forgetting(c)
  BY DEF Forgetting, Others, Kept
<1>2. PICK q \in Requests : At(q, "use", "done") /\ With(q) = c /\ req[q].stale
  BY <1>1 DEF Inv, RevokedOnlyByRace
<1>3. q # r
  BY <1>2 DEF At
<1>4. At(q, "use", "done")' /\ With(q)' = c /\ req'[q].stale
  BY <1>2, <1>3 DEF At, With, Others, Kept
<1> QED
  BY <1>4

LEMMA OnceKept ==
    ASSUME Inv, NEW r \in Requests, Others(r), req[r].pc # "done",
           req'[r].pc = "done" => req'[r].op \notin {"verify", "confirm"}
    PROVE  LinksWorkOnce'
BY DEF Inv, LinksWorkOnce, Others, Kept, With

LEMMA QuietType ==
    ASSUME Inv, NEW r \in Requests, Others(r), UNCHANGED <<user, row, link, cache>>,
           rate' \in 0 .. MaxRequests + 1
    PROVE  TypeOK'
BY DEF Inv, TypeOK, Others, Reqs, RequestType, There

(* A step that only moves its request on.                                  *)
LEMMA QuietInv ==
    ASSUME Inv, NEW r \in Requests, Others(r), UNCHANGED <<user, row, link, cache>>,
           rate' \in 0 .. MaxRequests + 1, req[r].pc \notin {"forget", "done"},
           req'[r].pc = "done" => req'[r].op \notin {"verify", "confirm"},
           Known(r)'
    PROVE  Inv'
BY StillRows, StillLinks, StillUser, RaceKept, OnceKept, QuietType, StepInv DEF Moves

LEMMA RateType ==
    ASSUME TypeOK
    PROVE  /\ rate \in 0 .. MaxRequests + 1
           /\ \A op : Allow(op) => rate' \in 0 .. MaxRequests + 1
BY AccountsAssumption DEF TypeOK, Allow

(* A failed request knows nothing but the rows it listed.                  *)
LEMMA FailedKnows ==
    ASSUME Inv, NEW r \in Requests, Own(r, req[r].op, "failed", With(r)),
           \A c \in Creds : row[c] # "none" => row'[c] # "none"
    PROVE  Known(r)'
<1>1. \A s \in req[r].todo \cup req[r].owed : s \in Creds /\ row[s] # "none"
  BY DEF Inv, Known, ReadsExist, RequestType, Creds
<1> QED
  BY <1>1 DEF Own, Known, ReadsExist, LoginKnown, LateFill, Owed, UsedLink, At, Migrating

LEMMA FailInv ==
    ASSUME Inv, NEW r \in Requests, req[r].pc \notin {"forget", "done"},
           Goto(r, "failed"), UNCHANGED <<user, row, link, cache, rate>>
    PROVE  Inv'
<1>1. Own(r, req[r].op, "failed", With(r)) /\ Others(r)
  BY GotoIs DEF Inv, Reqs, Pcs
<1>2. Known(r)'
  BY <1>1, FailedKnows
<1> QED
  BY <1>1, <1>2, QuietInv, RateType DEF Own, Inv

(* What a request has to have seen when it begins.                         *)
LEMMA BeginKnows ==
    ASSUME Inv, NEW r \in Requests, NEW op \in Ops, NEW pc \in Pcs, NEW with \in Values,
           Begin(r, op, with, pc), UNCHANGED <<user, row, link, cache>>,
           op = "use" => with \in Creds,
           op = "verify" => pc = "failed" \/ (pc = "write" /\ with \in Verify /\ link[with] = "sent"),
           op = "confirm" => pc = "failed" \/ (pc = "write" /\ with \in Deletions /\ link[with] = "sent"),
           pc = "revoke" => op = "revoke" /\ with \in Creds /\ row[with] # "none",
           op = "login" => pc = "failed" \/ (There /\ user.verified /\ with = user.password),
           pc = "migrate" => user.legacy,
           op = "reset" => pc # "done",
           pc \notin {"forget", "fill", "list", "delete"}
    PROVE  Inv'
<1>1. req[r].pc = "new" /\ Own(r, op, pc, with) /\ Others(r)
  BY BeginIs DEF Inv, Reqs
<1>2. rate' \in 0 .. MaxRequests + 1
  BY RateType DEF Begin, Inv
<1>3. ReadsExist(r)'
  BY <1>1 DEF Own, Inv, Known, ReadsExist, At, With
<1>4. LoginKnown(r)'
  BY <1>1 DEF Own, Inv, LoginKnown, LegacyFirst, At, With, Migrating, There
<1>5. LateFill(r)' /\ Owed(r)' /\ UsedLink(r)'
  BY <1>1 DEF Own, LateFill, Owed, UsedLink, At, With
<1> QED
  BY <1>1, <1>2, <1>3, <1>4, <1>5, QuietInv DEF Own, Known

LEMMA FindInv ==
    ASSUME Inv, NEW r \in Requests,
           \/ Refuse(r) \/ Resend(r) \/ VerifyFind(r) \/ Login(r) \/ ChangeFind(r)
           \/ ResetFind(r) \/ Revoke(r) \/ Use(r) \/ Leave(r) \/ ConfirmFind(r)
    PROVE  Inv'
<1>0. /\ None \in Values /\ Passwords \subseteq Values /\ Creds \subseteq Values
      /\ Verify \subseteq Values /\ Deletions \subseteq Values /\ Resets \subseteq Values
  BY DEF Values, Links
<1>1. CASE Refuse(r)
  <2>1. Goto(r, "failed") /\ rate' = MaxRequests + 1 /\ UNCHANGED <<user, row, link, cache>>
        /\ req[r].pc = "new"
    BY <1>1 DEF Refuse, Goto
  <2>2. Own(r, req[r].op, "failed", With(r)) /\ Others(r)
    BY <2>1, GotoIs DEF Inv, Reqs, Pcs
  <2>3. Known(r)'
    BY <2>1, <2>2, FailedKnows
  <2>4. rate' \in 0 .. MaxRequests + 1
    BY <2>1, AccountsAssumption
  <2> QED
    BY <2>1, <2>2, <2>3, <2>4, QuietInv DEF Own
<1>2. CASE Resend(r)
  BY <1>0, <1>2, BeginKnows DEF Resend, Rows, Ops, Pcs
<1>3. CASE VerifyFind(r)
  <2>1. PICK v \in Verify : Begin(r, "verify", v, IF link[v] = "sent" THEN "write" ELSE "failed")
    BY <1>3 DEF VerifyFind
  <2> QED
    BY <1>0, <1>3, <2>1, BeginKnows DEF VerifyFind, Rows, Ops, Pcs
<1>4. CASE Login(r)
  <2>1. PICK p \in Passwords :
          Begin(r, "login", p, IF ~(There /\ user.verified /\ p = user.password) THEN "failed"
                               ELSE IF user.legacy THEN "migrate" ELSE "open")
    BY <1>4 DEF Login
  <2> QED
    BY <1>0, <1>4, <2>1, BeginKnows DEF Login, Rows, Ops, Pcs
<1>5. CASE ChangeFind(r)
  BY <1>0, <1>5, BeginKnows DEF ChangeFind, Rows, Ops, Pcs
<1>6. CASE ResetFind(r)
  BY <1>0, <1>6, BeginKnows DEF ResetFind, Rows, Ops, Pcs
<1>7. CASE Revoke(r)
  <2>1. PICK c \in Creds :
          Begin(r, "revoke", c, IF row[c] \in {"none", "gone"} THEN "failed" ELSE "revoke")
    BY <1>7 DEF Revoke
  <2> QED
    BY <1>0, <1>7, <2>1, BeginKnows DEF Revoke, Rows, Ops, Pcs
<1>8. CASE Use(r)
  <2>1. PICK c \in Creds, pc \in {"done", "failed", "lookup"} : Begin(r, "use", c, pc)
    <3>1. cache \in [Creds -> {"empty", "yes", "no"}]
      BY DEF Inv, TypeOK
    <3> QED
      BY <1>8, <3>1 DEF Use
  <2> QED
    BY <1>0, <1>8, <2>1, BeginKnows DEF Use, Rows, Ops, Pcs
<1>9. CASE Leave(r)
  BY <1>0, <1>9, BeginKnows DEF Leave, Rows, Ops, Pcs
<1>10. CASE ConfirmFind(r)
  <2>1. PICK d \in Deletions : Begin(r, "confirm", d, IF link[d] = "sent" THEN "write" ELSE "failed")
    BY <1>10 DEF ConfirmFind
  <2> QED
    BY <1>0, <1>10, <2>1, BeginKnows DEF ConfirmFind, Rows, Ops, Pcs
<1> QED
  BY <1>1, <1>2, <1>3, <1>4, <1>5, <1>6, <1>7, <1>8, <1>9, <1>10

-----------------------------------------------------------------------------
(* The steps that write                                                    *)

UserType == [there : {"none", "yes", "gone"}, verified : BOOLEAN,
             password : Passwords \cup {None}, legacy : BOOLEAN,
             reset : Resets \cup {None}]

LEMMA Typed ==
    ASSUME Inv
    PROVE  /\ user \in UserType
           /\ user.there # "yes" => user = [NoUser EXCEPT !.there = user.there]
           /\ row \in [Creds -> {"none", "active", "expired", "revoked", "gone"}]
           /\ link \in [Links -> {"none", "sent", "expired", "used", "gone"}]
           /\ user.there # "yes" => \A x \in Creds : row[x] \in {"none", "gone"}
           /\ user.there # "yes" => \A x \in Links : link[x] \in {"none", "gone"}
           /\ \A s \in Sessions : row[s] = "active" => user.verified
           /\ cache \in [Creds -> {"empty", "yes", "no"}]
           /\ rate \in 0 .. MaxRequests + 1
           /\ Reqs /\ Sessions \subseteq Creds /\ Keys \subseteq Creds
           /\ Verify \subseteq Links /\ Deletions \subseteq Links
BY DEF Inv, TypeOK, UserType, Reqs, Creds, Links

(* The account of a password or a link that changes is there.              *)
LEMMA NewType ==
    ASSUME Inv, NEW r \in Requests, Others(r), user' \in UserType,
           user'.there # "yes" => user' = [NoUser EXCEPT !.there = user'.there],
           row' \in [Creds -> {"none", "active", "expired", "revoked", "gone"}],
           link' \in [Links -> {"none", "sent", "expired", "used", "gone"}],
           user'.there # "yes" => \A x \in Creds : row'[x] \in {"none", "gone"},
           user'.there # "yes" => \A x \in Links : link'[x] \in {"none", "gone"},
           \A s \in Sessions : row'[s] = "active" => user'.verified,
           cache' \in [Creds -> {"empty", "yes", "no"}],
           UNCHANGED rate
    PROVE  TypeOK'
BY DEF Inv, TypeOK, Others, Reqs, RequestType, UserType

LEMMA RegisterInv ==
    ASSUME Inv, NEW r \in Requests, Register(r)
    PROVE  Inv'
<1>1. CASE Begin(r, "register", None, IF user.there = "none" THEN "create" ELSE "failed")
             /\ UNCHANGED <<Rows, cache>>
  BY <1>1, BeginKnows DEF Rows, Ops, Pcs, Values
<1>2. CASE /\ At(r, "register", "create") /\ user.there = "none"
           /\ user' = [NoUser EXCEPT !.there = "yes", !.password = r]
           /\ Goto(r, "send") /\ UNCHANGED <<row, link, cache, rate>>
  <2>1. Own(r, "register", "send", With(r)) /\ Others(r)
    BY <1>2, GotoIs DEF Inv, Reqs, Pcs, At
  <2>2. /\ user' \in UserType /\ user'.there = "yes" /\ ~user'.legacy
    BY <1>2 DEF NoUser, UserType, Passwords
  <2>3. \A s \in Sessions : row[s] # "active"
    BY <1>2, Typed
  <2>4. TypeOK'
    BY <1>2, <2>1, <2>2, <2>3, NewType, Typed
  <2>5. Moves({r})
    BY <1>2, <2>2, StillRows, StillLinks DEF Moves, UserMoves, There
  <2>6. Known(r)'
    BY <1>2, <2>1 DEF Own, Inv, Known, ReadsExist, LoginKnown, LateFill, Owed, UsedLink, At,
                      With, Migrating
  <2>7. RevokedOnlyByRace' /\ LinksWorkOnce'
    BY <1>2, <2>1, RaceKept, OnceKept DEF At, Own
  <2> QED
    BY <2>1, <2>4, <2>5, <2>6, <2>7, StepInv
<1>3. CASE /\ At(r, "register", "create") /\ Goto(r, "failed")
           /\ UNCHANGED <<user, row, link, cache, rate>>
  BY <1>3, FailInv DEF At
<1> QED
  BY <1>1, <1>2, <1>3 DEF Register

(* A request that only goes on has read nothing new.                       *)
LEMMA GoesOn ==
    ASSUME Inv, NEW r \in Requests, NEW pc \in {"done", "failed", "send", "write"},
           Goto(r, pc), req[r].op \in {"register", "resend", "leave", "login", "change",
                                      "forgot", "refresh"},
           \A c \in Creds : row[c] # "none" => row'[c] # "none"
    PROVE  Own(r, req[r].op, pc, With(r)) /\ Others(r) /\ Known(r)'
<1>1. Own(r, req[r].op, pc, With(r)) /\ Others(r)
  BY GotoIs DEF Inv, Reqs, Pcs
<1>2. \A s \in req[r].todo \cup req[r].owed : s \in Creds /\ row[s] # "none"
  BY DEF Inv, Known, ReadsExist, RequestType, Creds
<1>3. Known(r)'
  BY <1>1, <1>2 DEF Own, Known, ReadsExist, LoginKnown, LateFill, Owed, UsedLink, At, Migrating
<1> QED
  BY <1>1, <1>3

LEMMA SendLinkInv ==
    ASSUME Inv, NEW r \in Requests, SendLink(r)
    PROVE  Inv'
<1>1. /\ req[r].op \in {"register", "resend", "leave"} /\ req[r].pc = "send"
      /\ UNCHANGED <<user, row, cache, rate>>
  BY DEF SendLink
<1>2. CASE There
  <2>1. PICK l \in Links, pc \in {"done", "failed"} :
          link[l] = "none" /\ link' = [link EXCEPT ![l] = "sent"] /\ Goto(r, pc)
    BY <1>2, Typed DEF SendLink
  <2>2. Own(r, req[r].op, pc, With(r)) /\ Others(r) /\ Known(r)'
    BY <1>1, <2>1, GoesOn
  <2>3. link' \in [Links -> {"none", "sent", "expired", "used", "gone"}] /\ LinksMove({r})
    BY <2>1, Typed DEF LinksMove
  <2>4. TypeOK'
    BY <1>1, <1>2, <2>2, <2>3, NewType, Typed DEF There
  <2>5. RevokedOnlyByRace' /\ LinksWorkOnce'
    BY <1>1, <2>2, RaceKept, OnceKept DEF Own
  <2> QED
    BY <1>1, <2>2, <2>3, <2>4, <2>5, StillRows, StillUser, StepInv DEF Moves
<1>3. CASE ~There
  BY <1>1, <1>3, FailInv DEF SendLink
<1> QED
  BY <1>2, <1>3

LEMMA VerifyWriteInv ==
    ASSUME Inv, NEW r \in Requests, VerifyWrite(r)
    PROVE  Inv'
<1>1. At(r, "verify", "write") /\ UNCHANGED <<row, cache, rate>>
      /\ With(r) \in Verify /\ With(r) \in Links /\ link[With(r)] # "none"
  BY Typed DEF VerifyWrite, Inv, Known, ReadsExist, At
<1>2. CASE link[With(r)] = "gone"
  BY <1>1, <1>2, FailInv DEF VerifyWrite, At
<1>3. CASE link[With(r)] # "gone"
  <2>1. /\ link' = [link EXCEPT ![With(r)] = "used"]
        /\ user' = [user EXCEPT !.verified = TRUE]
        /\ Overtake(r, [req[r] EXCEPT !.pc = "done"], SameLink(r))
    BY <1>3 DEF VerifyWrite
  <2>2. /\ Own(r, "verify", "done", With(r)) /\ Others(r)
        /\ \A q \in SameLink(r) : q \in Requests \ {r} => req'[q].stale
    BY <1>1, <2>1, OvertakeTo, Typed DEF Pcs, At
  <2>3. There
    BY <1>1, <1>3, Typed DEF There
  <2>4. /\ user' \in UserType /\ user'.there = "yes" /\ user'.verified
        /\ user'.password = user.password /\ user'.legacy = user.legacy
    BY <2>1, <2>3, Typed DEF UserType, There
  <2>5. /\ link' \in [Links -> {"none", "sent", "expired", "used", "gone"}]
        /\ \A l \in Links : link'[l] = IF l = With(r) THEN "used" ELSE link[l]
    BY <1>1, <2>1, Typed
  <2>6. TypeOK'
    BY <1>1, <2>2, <2>3, <2>4, <2>5, NewType, Typed
  <2>7. LinksMove({r})
    BY <1>1, <1>3, <2>2, <2>5 DEF LinksMove, SameLink, At
  <2>8. UserMoves({r})
    BY <2>3, <2>4 DEF UserMoves, There
  <2>9. Known(r)'
    <3>1. req'[r].with = With(r) /\ link'[With(r)] = "used"
      BY <1>1, <2>2, <2>5 DEF Own
    <3>2. ReadsExist(r)'
      BY <1>1, <2>2, <3>1, Typed DEF Own, Inv, Known, ReadsExist, At, With
    <3>3. LoginKnown(r)' /\ LateFill(r)' /\ Owed(r)'
      BY <2>2 DEF Own, LoginKnown, LateFill, Owed, At, Migrating
    <3>4. UsedLink(r)'
      BY <2>2, <3>1 DEF Own, UsedLink, At, With
    <3> QED
      BY <3>2, <3>3, <3>4 DEF Known
  <2>10. RevokedOnlyByRace'
    BY <1>1, <2>2, RaceKept DEF At
  <2>11. LinksWorkOnce'
    <3>1. ASSUME NEW q \in Requests \ {r}, req[q].op = "verify", With(q) = With(r),
                 req[q].pc = "done"
          PROVE  req[r].stale
      BY <1>1, <1>3, <3>1 DEF Inv, Known, UsedLink, At
    <3> QED
      BY <1>1, <2>2, <3>1 DEF Inv, LinksWorkOnce, Others, Kept, Own, With
  <2> QED
    BY <1>1, <2>2, <2>6, <2>7, <2>8, <2>9, <2>10, <2>11, StillRows, StepInv DEF Moves
<1> QED
  BY <1>2, <1>3

(* Writing the password of an account that is there.                       *)
LEMMA PasswordInv ==
    ASSUME Inv, NEW r \in Requests, There, Others(r), UNCHANGED <<row, link, cache, rate>>,
           NEW p \in Passwords, NEW t \in Resets \cup {None},
           user' = [user EXCEPT !.password = p, !.legacy = FALSE, !.reset = t],
           p = First \/ \A q \in Requests \ {r} : Migrating(q) => req'[q].stale,
           req[r].pc \notin {"forget", "done"},
           req'[r].pc = "done" => req'[r].op \notin {"verify", "confirm"}, Known(r)'
    PROVE  Inv'
<1>1. /\ user' \in UserType /\ user'.there = "yes" /\ user'.verified = user.verified
      /\ user'.password = p /\ ~user'.legacy
  BY Typed DEF UserType, There
<1>2. UserMoves({r})
  BY <1>1 DEF UserMoves, There
<1>3. TypeOK'
  BY <1>1, NewType, Typed
<1> QED
  BY <1>2, <1>3, StillRows, StillLinks, RaceKept, OnceKept, StepInv DEF Moves

LEMMA ResetType ==
    ASSUME Inv
    PROVE  \A p : [user EXCEPT !.password = p, !.legacy = FALSE] =
                    [user EXCEPT !.password = p, !.legacy = FALSE, !.reset = user.reset]
BY Typed DEF UserType

LEMMA MigrateInv ==
    ASSUME Inv, NEW r \in Requests, Migrate(r)
    PROVE  Inv'
<1>1. /\ At(r, "login", "migrate") /\ Goto(r, "open") /\ UNCHANGED <<row, link, cache, rate>>
      /\ With(r) = First /\ First \in Passwords
      /\ user.there = "gone" \/ (There /\ user.verified)
  BY DEF Migrate, Inv, Known, LoginKnown, Migrating, Passwords, At
<1>2. Own(r, "login", "open", With(r)) /\ Others(r)
  BY <1>1, GotoIs, Typed DEF Pcs, At
<1>3. user' = IF There THEN [user EXCEPT !.password = First, !.legacy = FALSE] ELSE user
  BY <1>1 DEF Migrate
<1>4. user'.there = user.there /\ user'.verified = user.verified
  BY <1>3, Typed DEF UserType
<1>5. Known(r)'
  BY <1>1, <1>2, <1>4 DEF Own, Inv, Known, ReadsExist, LoginKnown, LateFill, Owed, UsedLink,
                          At, With, Migrating, There
<1>6. CASE There
  <2>1. /\ user' = [user EXCEPT !.password = First, !.legacy = FALSE, !.reset = user.reset]
        /\ user.reset \in Resets \cup {None}
    BY <1>3, <1>6, ResetType, Typed DEF UserType
  <2>2. req[r].pc \notin {"forget", "done"} /\ req'[r].pc # "done"
    BY <1>1, <1>2 DEF At, Own
  <2> QED
    BY <1>1, <1>2, <1>5, <1>6, <2>1, <2>2, PasswordInv
<1>7. CASE ~There
  BY <1>1, <1>2, <1>3, <1>5, <1>7, QuietInv, RateType DEF Own, At, Inv
<1> QED
  BY <1>6, <1>7

LEMMA OpenSessionInv ==
    ASSUME Inv, NEW r \in Requests, OpenSession(r)
    PROVE  Inv'
<1>1. At(r, "login", "open") /\ UNCHANGED <<user, link, cache, rate>>
  BY DEF OpenSession
<1>2. CASE row' = row
  <2>1. PICK pc \in {"done", "failed"} : Goto(r, pc)
    BY <1>2 DEF OpenSession
  <2>2. Own(r, req[r].op, pc, With(r)) /\ Others(r) /\ Known(r)'
    BY <1>1, <1>2, <2>1, GoesOn DEF At
  <2> QED
    BY <1>1, <1>2, <2>2, QuietInv, RateType DEF Own, At, Inv
<1>3. CASE row' # row
  <2>1. PICK s \in Sessions :
          /\ There /\ Goto(r, "done")
          /\ row[s] = "none" /\ row' = [row EXCEPT ![s] = "active"]
    BY <1>3 DEF OpenSession
  <2>2. /\ row' \in [Creds -> {"none", "active", "expired", "revoked", "gone"}]
        /\ \A c \in Creds : row'[c] = IF c = s THEN "active" ELSE row[c]
    BY <2>1, Typed
  <2>3. Own(r, req[r].op, "done", With(r)) /\ Others(r) /\ Known(r)'
    BY <1>1, <2>1, <2>2, GoesOn DEF At
  <2>4. There /\ user.verified
    BY <1>1, <2>1 DEF Inv, Known, LoginKnown, At, There
  <2>5. TypeOK'
    BY <1>1, <2>2, <2>3, <2>4, NewType, Typed DEF There
  <2>6. RowsMove({r})
    BY <2>1, <2>2 DEF RowsMove
  <2>7. RevokedOnlyByRace' /\ LinksWorkOnce'
    BY <1>1, <2>2, <2>3, RaceKept, OnceKept DEF Own, At
  <2> QED
    BY <1>1, <2>3, <2>5, <2>6, <2>7, StillLinks, StillUser, StepInv DEF Moves
<1> QED
  BY <1>2, <1>3

LEMMA ChangeWriteInv ==
    ASSUME Inv, NEW r \in Requests, ChangeWrite(r)
    PROVE  Inv'
<1>1. At(r, "change", "write") /\ UNCHANGED <<row, link, cache, rate>>
  BY DEF ChangeWrite
<1>2. CASE There
  <2>1. /\ user' = [user EXCEPT !.password = r, !.legacy = FALSE]
        /\ Overtake(r, [req[r] EXCEPT !.pc = "done"], Migrations)
    BY <1>2 DEF ChangeWrite
  <2>2. /\ Own(r, "change", "done", With(r)) /\ Others(r)
        /\ \A q \in Migrations : q \in Requests \ {r} => req'[q].stale
    BY <1>1, <2>1, OvertakeTo, Typed DEF Pcs, At
  <2>3. Known(r)'
    BY <1>1, <2>2 DEF Own, Inv, Known, ReadsExist, LoginKnown, LateFill, Owed, UsedLink,
                      At, With, Migrating
  <2>4. /\ user' = [user EXCEPT !.password = r, !.legacy = FALSE, !.reset = user.reset]
        /\ user.reset \in Resets \cup {None} /\ r \in Passwords
    BY <2>1, ResetType, Typed DEF UserType, Passwords
  <2>5. /\ req[r].pc \notin {"forget", "done"} /\ req'[r].op \notin {"verify", "confirm"}
        /\ \A q \in Requests \ {r} : Migrating(q) => req'[q].stale
    BY <1>1, <2>2 DEF At, Own, Migrations
  <2> QED
    BY <1>1, <1>2, <2>2, <2>3, <2>4, <2>5, PasswordInv
<1>3. CASE ~There
  BY <1>1, <1>3, FailInv DEF ChangeWrite, At
<1> QED
  BY <1>2, <1>3

LEMMA ForgotInv ==
    ASSUME Inv, NEW r \in Requests, Forgot(r)
    PROVE  Inv'
<1>1. CASE Begin(r, "forgot", None, IF There THEN "write" ELSE "done") /\ UNCHANGED <<Rows, cache>>
  BY <1>1, BeginKnows DEF Rows, Ops, Pcs, Values
<1>2. CASE At(r, "forgot", "write") /\ There /\ UNCHANGED <<row, link, cache, rate>>
  <2>1. PICK t \in Resets, pc \in {"done", "failed"} :
          user' = [user EXCEPT !.reset = t] /\ Goto(r, pc)
    BY <1>2 DEF Forgot, Begin, At
  <2>2. Own(r, req[r].op, pc, With(r)) /\ Others(r) /\ Known(r)'
    BY <1>2, <2>1, GoesOn DEF At
  <2>3. /\ user' \in UserType /\ user'.there = "yes" /\ user'.verified = user.verified
        /\ user'.password = user.password /\ user'.legacy = user.legacy
    BY <1>2, <2>1, Typed DEF UserType, There
  <2>4. TypeOK'
    BY <1>2, <2>2, <2>3, NewType, Typed
  <2>5. UserMoves({r})
    BY <1>2, <2>3 DEF UserMoves, There
  <2>6. RevokedOnlyByRace' /\ LinksWorkOnce'
    BY <1>2, <2>2, RaceKept, OnceKept DEF Own, At
  <2> QED
    BY <1>2, <2>2, <2>4, <2>5, <2>6, StillRows, StillLinks, StepInv DEF Moves
<1>3. CASE At(r, "forgot", "write") /\ ~There /\ Forgot(r)
  BY <1>3, FailInv DEF Forgot, Begin, At
<1> QED
  BY <1>1, <1>2, <1>3 DEF Forgot

LEMMA ResetWriteInv ==
    ASSUME Inv, NEW r \in Requests, ResetWrite(r)
    PROVE  Inv'
<1>1. At(r, "reset", "write") /\ UNCHANGED <<row, link, cache, rate>>
  BY DEF ResetWrite
<1>2. CASE There
  <2> DEFINE t == [req[r] EXCEPT !.pc = "list", !.owed = Open(Sessions)]
             S == Migrations \cup SameLink(r)
  <2>1. /\ user' = [user EXCEPT !.password = r, !.legacy = FALSE, !.reset = None]
        /\ Overtake(r, t, S)
    BY <1>2 DEF ResetWrite
  <2>2. t \in RequestType
    <3>1. Open(Sessions) \in SUBSET Sessions /\ req[r] \in RequestType
      BY Typed DEF Open, Reqs
    <3> QED
      BY <3>1 DEF RequestType, Pcs
  <2>3. /\ t.op = "reset" /\ t.pc = "list" /\ t.owed = Open(Sessions) /\ t.todo = req[r].todo
    BY <1>1, Typed DEF Reqs, RequestType, At
  <2> HIDE DEF t
  <2>4. /\ req'[r] = t /\ Others(r)
        /\ \A q \in S : q \in Requests \ {r} => req'[q].stale
    BY <2>1, <2>2, OvertakeIs, Typed
  <2>5. Known(r)'
    BY <1>1, <2>3, <2>4 DEF Inv, Known, ReadsExist, LoginKnown, LateFill, Owed, UsedLink,
                            At, With, Migrating, Open
  <2>6. \A q \in Requests \ {r} : Migrating(q) => req'[q].stale
    BY <2>4 DEF Migrations
  <2>7. r \in Passwords /\ req[r].pc = "write" /\ req'[r].pc = "list"
    BY <1>1, <2>3, <2>4 DEF Passwords, At
  <2> QED
    BY <1>1, <1>2, <2>1, <2>4, <2>5, <2>6, <2>7, PasswordInv
<1>3. CASE ~There
  BY <1>1, <1>3, FailInv DEF ResetWrite, At
<1> QED
  BY <1>2, <1>3

LEMMA ResetListInv ==
    ASSUME Inv, NEW r \in Requests, ResetList(r)
    PROVE  Inv'
<1>1. At(r, "reset", "list") /\ UNCHANGED <<user, row, link, cache, rate>>
  BY DEF ResetList, Rows
<1> DEFINE S == Open(Sessions)
           pc == IF S = {} THEN "done" ELSE "revoke"
<1>2. S \in SUBSET Sessions /\ pc \in {"done", "revoke"} /\ pc \in Pcs
  BY DEF Open, Pcs
<1>3. \A s \in S : row[s] # "none"
  BY DEF Open
<1>4. \A s \in req[r].owed : s \in S \/ row[s] \in {"revoked", "gone"}
  <2>1. \A s \in req[r].owed : s \in Sessions /\ s \in Creds /\ row[s] # "none"
    BY Typed DEF Inv, Known, ReadsExist, Reqs, RequestType
  <2> QED
    BY <2>1, Typed DEF Open
<1>5. Rests(r, S, pc)
  BY <1>1, <1>2 DEF ResetList, Rest, Rests
<1>6. pc = "done" => S = {}
  OBVIOUS
<1> HIDE DEF S, pc
<1>7. Listed(r, S, pc) /\ Others(r)
  BY <1>2, <1>5, RestsIs, Typed
<1>8. Known(r)'
  BY <1>1, <1>2, <1>3, <1>4, <1>6, <1>7
  DEF Listed, Inv, Known, ReadsExist, LoginKnown, LateFill, Owed, UsedLink, At, With, Migrating
<1> QED
  BY <1>1, <1>2, <1>7, <1>8, QuietInv, RateType DEF Listed, At, Inv

-----------------------------------------------------------------------------
(* Credentials                                                             *)

LEMMA RefreshInv ==
    ASSUME Inv, NEW r \in Requests, Refresh(r)
    PROVE  Inv'
<1>1. CASE \E s \in Sessions : Begin(r, "refresh", s, IF row[s] = "active" THEN "write" ELSE "failed")
             /\ UNCHANGED <<Rows, cache>>
  <2>1. PICK s \in Sessions, pc \in {"write", "failed"} :
          Begin(r, "refresh", s, pc) /\ UNCHANGED <<user, row, link, cache>>
    BY <1>1 DEF Rows
  <2>2. s \in Values /\ pc \in Pcs /\ "refresh" \in Ops
    BY Typed DEF Values, Pcs, Ops
  <2> QED
    BY <2>1, <2>2, BeginKnows
<1>2. CASE At(r, "refresh", "write") /\ UNCHANGED <<Rows, cache, rate>>
           /\ If(r, row[With(r)] # "gone", "done")
  <2>1. PICK pc \in {"done", "failed"} : Goto(r, pc) /\ UNCHANGED <<user, row, link, cache, rate>>
    BY <1>2 DEF If, Rows
  <2>2. Own(r, req[r].op, pc, With(r)) /\ Others(r) /\ Known(r)'
    BY <1>2, <2>1, GoesOn DEF At
  <2> QED
    BY <1>2, <2>1, <2>2, QuietInv, RateType DEF Own, At, Inv
<1> QED
  BY <1>1, <1>2 DEF Refresh

LEMMA CreateKeyInv ==
    ASSUME Inv, NEW r \in Requests, CreateKey(r)
    PROVE  Inv'
<1>1. PICK k \in Keys :
        row[k] = "none" /\ There /\ row' = [row EXCEPT ![k] = "active"]
        /\ Begin(r, "createKey", k, "done")
  BY DEF CreateKey
<1>2. UNCHANGED <<user, link, cache, rate>>
  BY <1>1 DEF CreateKey, Begin, Allow, RateLimited
<1>3. req[r].pc = "new" /\ Own(r, "createKey", "done", k) /\ Others(r)
  BY <1>1, BeginIs, Typed DEF Ops, Pcs, Values
<1>4. /\ row' \in [Creds -> {"none", "active", "expired", "revoked", "gone"}]
      /\ \A c \in Creds : row'[c] = IF c = k THEN "active" ELSE row[c]
  BY <1>1, Typed
<1>5. \A s \in Sessions : row'[s] = row[s]
  BY <1>4, Typed, AccountsAssumption
<1>6. TypeOK'
  BY <1>1, <1>2, <1>3, <1>4, <1>5, NewType, Typed DEF There
<1>7. Known(r)'
  <2>1. ReadsExist(r)'
    BY <1>3, <1>5, Typed DEF Own, Inv, Known, ReadsExist, At, With, Reqs, RequestType
  <2>2. LoginKnown(r)' /\ LateFill(r)' /\ Owed(r)' /\ UsedLink(r)'
    BY <1>3 DEF Own, LoginKnown, LateFill, Owed, UsedLink, At, Migrating
  <2> QED
    BY <2>1, <2>2 DEF Known
<1>8. RowsMove({r})
  BY <1>1, <1>4 DEF RowsMove
<1>9. RevokedOnlyByRace' /\ LinksWorkOnce'
  BY <1>2, <1>3, <1>4, RaceKept, OnceKept DEF Own
<1> QED
  BY <1>2, <1>3, <1>6, <1>7, <1>8, <1>9, StillLinks, StillUser, StepInv DEF Moves

LEMMA RevokeWriteInv ==
    ASSUME Inv, NEW r \in Requests, RevokeWrite(r)
    PROVE  Inv'
<1>1. /\ req[r].op \in {"revoke", "reset"} /\ req[r].pc = "revoke"
      /\ UNCHANGED <<user, link, cache, rate>>
  BY DEF RevokeWrite
<1>2. PICK c \in (IF req[r].op = "revoke" THEN {With(r)} ELSE req[r].todo) :
        IF row[c] = "gone" THEN Goto(r, "failed") /\ UNCHANGED row
        ELSE /\ row' = [row EXCEPT ![c] = "revoked"]
             /\ Overtake(r, [req[r] EXCEPT !.pc = "forget", !.cred = c], Filling(c))
  BY DEF RevokeWrite
<1>3. c \in Creds /\ row[c] # "none"
  BY <1>1, <1>2, Typed DEF Inv, Known, ReadsExist, Reqs, RequestType
<1>4. CASE row[c] = "gone"
  BY <1>1, <1>2, <1>4, FailInv
<1>5. CASE row[c] # "gone"
  <2> DEFINE t == [req[r] EXCEPT !.pc = "forget", !.cred = c]
  <2>1. row' = [row EXCEPT ![c] = "revoked"] /\ Overtake(r, t, Filling(c))
    BY <1>2, <1>5
  <2>2. t \in RequestType
    <3>1. req[r] \in RequestType
      BY Typed DEF Reqs
    <3> QED
      BY <1>3, <3>1 DEF RequestType, Pcs
  <2>3. /\ t.op = req[r].op /\ t.pc = "forget" /\ t.with = With(r) /\ t.cred = c
        /\ t.todo = req[r].todo /\ t.owed = req[r].owed
    BY <1>3, Typed DEF Reqs, RequestType, With
  <2> HIDE DEF t
  <2>4. /\ req'[r] = t /\ Others(r)
        /\ \A q \in Filling(c) : q \in Requests \ {r} => req'[q].stale
    BY <2>1, <2>2, OvertakeIs, Typed
  <2>5. /\ row' \in [Creds -> {"none", "active", "expired", "revoked", "gone"}]
        /\ \A d \in Creds : row'[d] = IF d = c THEN "revoked" ELSE row[d]
    BY <1>3, <2>1, Typed
  <2>6. There
    BY <1>3, <1>5, Typed DEF There
  <2>7. TypeOK'
    BY <1>1, <2>4, <2>5, <2>6, NewType, Typed DEF There
  <2>8. RowsMove({r})
    BY <1>3, <1>5, <2>4, <2>5 DEF RowsMove, Filling
  <2>9. ReadsExist(r)'
    BY <1>1, <1>3, <2>3, <2>4, <2>5, Typed
    DEF Inv, Known, ReadsExist, At, With, Reqs, RequestType
  <2>10. Owed(r)'
    BY <1>1, <2>3, <2>4, <2>5, Typed DEF Inv, Known, Owed, At, Reqs, RequestType
  <2>11. LoginKnown(r)' /\ LateFill(r)' /\ UsedLink(r)'
    BY <2>3, <2>4 DEF LoginKnown, LateFill, UsedLink, At, Migrating
  <2>12. RevokedOnlyByRace'
    <3> SUFFICES ASSUME NEW d \in Creds, row'[d] = "revoked", cache'[d] = "yes", ~Forgetting(d)'
                 PROVE  \E q \in Requests : At(q, "use", "done")' /\ With(q)' = d /\ req'[q].stale
      BY DEF RevokedOnlyByRace
    <3>1. d # c
      BY <2>3, <2>4 DEF Forgetting
    <3>2. ~Forgetting(d)
      BY <1>1, <2>4 DEF Forgetting, Others, Kept
    <3>3. PICK q \in Requests : At(q, "use", "done") /\ With(q) = d /\ req[q].stale
      BY <1>1, <2>5, <3>1, <3>2 DEF Inv, RevokedOnlyByRace
    <3>4. q # r
      BY <1>1, <3>3 DEF At
    <3>5. At(q, "use", "done")' /\ With(q)' = d /\ req'[q].stale
      BY <2>4, <3>3, <3>4 DEF At, With, Others, Kept
    <3> QED
      BY <3>5
  <2>13. LinksWorkOnce'
    BY <1>1, <2>3, <2>4, OnceKept
  <2> QED
    BY <1>1, <2>4, <2>7, <2>8, <2>9, <2>10, <2>11, <2>12, <2>13, StillLinks, StillUser, StepInv
    DEF Moves, Known
<1> QED
  BY <1>4, <1>5

LEMMA ForgetInv ==
    ASSUME Inv, NEW r \in Requests, Forget(r)
    PROVE  Inv'
<1> DEFINE c == req[r].cred
           S == req[r].todo \ {c}
           pc == IF S = {} THEN "done" ELSE "revoke"
<1>1. req[r].pc = "forget" /\ UNCHANGED <<user, row, link, rate>>
      /\ cache' = [cache EXCEPT ![c] = "empty"] /\ Rests(r, S, pc)
  BY DEF Forget, Rows, Rest, Rests
<1>2. /\ req[r].op \in {"revoke", "reset"} /\ c \in Creds /\ row[c] \in {"revoked", "gone"}
      /\ req[r].op = "revoke" => With(r) \in Creds /\ row[With(r)] # "none"
      /\ \A s \in req[r].todo \cup req[r].owed : row[s] # "none"
  BY <1>1 DEF Inv, Known, ReadsExist
<1>3. /\ S \in SUBSET Sessions /\ S \subseteq req[r].todo /\ pc \in {"done", "revoke"}
      /\ pc \in Pcs /\ (pc = "done" => S = {}) /\ (\A s \in req[r].todo : s \in S \/ s = c)
  BY Typed DEF Reqs, RequestType, Pcs
<1>4. req[r].op = "reset" => \A s \in req[r].owed : s \in S \/ row[s] \in {"revoked", "gone"}
  BY <1>1, <1>2, <1>3 DEF Inv, Known, Owed, At
<1> HIDE DEF S, pc
<1>5. Listed(r, S, pc) /\ Others(r)
  BY <1>1, <1>3, RestsIs, Typed
<1>6. Known(r)'
  <2>1. ReadsExist(r)'
    BY <1>1, <1>2, <1>3, <1>5 DEF Listed, ReadsExist, At, With
  <2>2. Owed(r)'
    BY <1>1, <1>2, <1>3, <1>4, <1>5 DEF Listed, Owed, At
  <2>3. LoginKnown(r)' /\ LateFill(r)' /\ UsedLink(r)'
    BY <1>2, <1>5 DEF Listed, LoginKnown, LateFill, UsedLink, At, Migrating
  <2> QED
    BY <2>1, <2>2, <2>3 DEF Known
<1>7. /\ cache' \in [Creds -> {"empty", "yes", "no"}]
      /\ cache'[c] = "empty" /\ \A d \in Creds \ {c} : cache'[d] = cache[d]
  BY <1>1, <1>2, Typed
<1>8. TypeOK'
  BY <1>1, <1>5, <1>7, NewType, Typed
<1>9. RevokedOnlyByRace'
  <2> SUFFICES ASSUME NEW d \in Creds, row'[d] = "revoked", cache'[d] = "yes", ~Forgetting(d)'
               PROVE  \E q \in Requests : At(q, "use", "done")' /\ With(q)' = d /\ req'[q].stale
    BY DEF RevokedOnlyByRace
  <2>1. d # c /\ cache[d] = "yes"
    BY <1>7
  <2>2. ~Forgetting(d)
    BY <1>5, <2>1 DEF Forgetting, Others, Kept
  <2>3. PICK q \in Requests : At(q, "use", "done") /\ With(q) = d /\ req[q].stale
    BY <1>1, <2>1, <2>2 DEF Inv, RevokedOnlyByRace
  <2>4. q # r
    BY <1>1, <2>3 DEF At
  <2>5. At(q, "use", "done")' /\ With(q)' = d /\ req'[q].stale
    BY <1>5, <2>3, <2>4 DEF At, With, Others, Kept
  <2> QED
    BY <2>5
<1>10. LinksWorkOnce'
  BY <1>1, <1>2, <1>5, OnceKept DEF Listed
<1> QED
  BY <1>1, <1>5, <1>6, <1>8, <1>9, <1>10, StillRows, StillLinks, StillUser, StepInv DEF Moves

LEMMA UseLookupInv ==
    ASSUME Inv, NEW r \in Requests, UseLookup(r)
    PROVE  Inv'
<1> DEFINE saw == row[With(r)] = "active"
           t == [req[r] EXCEPT !.pc = "fill", !.saw = saw]
<1>1. At(r, "use", "lookup") /\ UNCHANGED <<user, row, link, cache, rate>>
      /\ req' = [req EXCEPT ![r] = t]
  BY Typed DEF UseLookup, Rows, Reqs
<1>2. With(r) \in Creds
  BY <1>1 DEF Inv, Known, ReadsExist, At
<1>3. saw \in BOOLEAN /\ (saw => row[With(r)] = "active")
  OBVIOUS
<1> HIDE DEF saw
<1>4. t \in RequestType
  <2>1. req[r] \in RequestType
    BY Typed DEF Reqs
  <2> QED
    BY <1>3, <2>1 DEF RequestType, Pcs
<1>5. /\ t.op = "use" /\ t.pc = "fill" /\ t.with = With(r) /\ t.saw = saw
      /\ t.todo = req[r].todo /\ t.owed = req[r].owed
  BY <1>1, <1>3, Typed DEF Reqs, RequestType, With, At
<1> HIDE DEF t
<1>6. req'[r] = t /\ Others(r)
  BY <1>1, <1>4, Typed DEF Reqs, Others, Kept
<1>7. Known(r)'
  <2>1. ReadsExist(r)'
    BY <1>1, <1>2, <1>5, <1>6 DEF Inv, Known, ReadsExist, At, With
  <2>2. LoginKnown(r)' /\ LateFill(r)' /\ Owed(r)' /\ UsedLink(r)'
    BY <1>1, <1>3, <1>5, <1>6 DEF LoginKnown, LateFill, Owed, UsedLink, At, With, Migrating
  <2> QED
    BY <2>1, <2>2 DEF Known
<1> QED
  BY <1>1, <1>5, <1>6, <1>7, QuietInv, RateType DEF At, Inv

LEMMA UseFillInv ==
    ASSUME Inv, NEW r \in Requests, UseFill(r)
    PROVE  Inv'
<1> DEFINE c == With(r)
<1>1. At(r, "use", "fill") /\ UNCHANGED <<user, row, link, rate>>
      /\ cache' = [cache EXCEPT ![c] = IF req[r].saw THEN "yes" ELSE "no"]
  BY DEF UseFill, Rows
<1>2. PICK pc \in {"done", "failed"} : Goto(r, pc) /\ (req[r].saw => pc = "done")
  BY DEF UseFill, If
<1>3. Own(r, "use", pc, c) /\ Others(r)
  BY <1>1, <1>2, GotoIs, Typed DEF At, Pcs
<1>4. c \in Creds
  BY <1>1 DEF Inv, Known, ReadsExist, At
<1>5. /\ cache' \in [Creds -> {"empty", "yes", "no"}]
      /\ \A d \in Creds \ {c} : cache'[d] = cache[d]
      /\ cache'[c] = "yes" => req[r].saw
  BY <1>1, <1>4, Typed
<1>6. TypeOK'
  BY <1>1, <1>3, <1>5, NewType, Typed
<1>7. Known(r)'
  BY <1>1, <1>3, <1>4 DEF Own, Inv, Known, ReadsExist, LoginKnown, LateFill, Owed, UsedLink, At,
                          With, Migrating
<1>8. RevokedOnlyByRace'
  <2> SUFFICES ASSUME NEW d \in Creds, row'[d] = "revoked", cache'[d] = "yes", ~Forgetting(d)'
               PROVE  \E q \in Requests : At(q, "use", "done")' /\ With(q)' = d /\ req'[q].stale
    BY DEF RevokedOnlyByRace
  <2>1. CASE d = c
    BY <1>1, <1>2, <1>3, <1>5, <2>1 DEF Inv, Known, LateFill, At, With, Own
  <2>2. CASE d # c
    <3>1. ~Forgetting(d)
      BY <1>1, <1>3 DEF Forgetting, Others, Kept, At
    <3>2. PICK q \in Requests : At(q, "use", "done") /\ With(q) = d /\ req[q].stale
      BY <1>1, <1>5, <2>2, <3>1 DEF Inv, RevokedOnlyByRace
    <3>3. q # r
      BY <1>1, <3>2 DEF At
    <3>4. At(q, "use", "done")' /\ With(q)' = d /\ req'[q].stale
      BY <1>3, <3>2, <3>3 DEF At, With, Others, Kept
    <3> QED
      BY <3>4
  <2> QED
    BY <2>1, <2>2
<1>9. LinksWorkOnce'
  BY <1>1, <1>3, OnceKept DEF Own, At
<1> QED
  BY <1>1, <1>3, <1>6, <1>7, <1>8, <1>9, StillRows, StillLinks, StillUser, StepInv DEF Moves

-----------------------------------------------------------------------------
(* Leaving, and what happens by itself                                     *)

LEMMA ConfirmBurnInv ==
    ASSUME Inv, NEW r \in Requests, ConfirmBurn(r)
    PROVE  Inv'
<1>1. At(r, "confirm", "write") /\ UNCHANGED <<user, row, cache, rate>>
      /\ With(r) \in Deletions /\ With(r) \in Links /\ link[With(r)] # "none"
  BY Typed DEF ConfirmBurn, Inv, Known, ReadsExist, At
<1>2. CASE link[With(r)] = "gone"
  BY <1>1, <1>2, FailInv DEF ConfirmBurn, At
<1>3. CASE link[With(r)] # "gone"
  <2>1. /\ link' = [link EXCEPT ![With(r)] = "used"]
        /\ Overtake(r, [req[r] EXCEPT !.pc = "delete"], SameLink(r))
    BY <1>3 DEF ConfirmBurn
  <2>2. Own(r, "confirm", "delete", With(r)) /\ Others(r)
    BY <1>1, <2>1, OvertakeTo, Typed DEF Pcs, At
  <2>3. There
    BY <1>1, <1>3, Typed DEF There
  <2>4. /\ link' \in [Links -> {"none", "sent", "expired", "used", "gone"}]
        /\ \A l \in Links : link'[l] = IF l = With(r) THEN "used" ELSE link[l]
    BY <1>1, <2>1, Typed
  <2>5. TypeOK'
    BY <1>1, <2>2, <2>3, <2>4, NewType, Typed DEF There
  <2>6. LinksMove({r})
    \* no request that verifies has read this link
    <3>1. \A q \in Requests : At(q, "verify", "write") => With(q) # With(r)
      BY <1>1, AccountsAssumption DEF Inv, Known, ReadsExist, At
    <3> QED
      BY <1>1, <1>3, <2>4, <3>1 DEF LinksMove
  <2>7. Known(r)'
    <3>1. req'[r].with = With(r) /\ link'[With(r)] = "used"
      BY <1>1, <2>2, <2>4 DEF Own
    <3>2. ReadsExist(r)'
      BY <1>1, <2>2, <3>1, Typed DEF Own, Inv, Known, ReadsExist, At, With
    <3>3. LoginKnown(r)' /\ LateFill(r)' /\ Owed(r)' /\ UsedLink(r)'
      BY <2>2 DEF Own, LoginKnown, LateFill, Owed, UsedLink, At, Migrating
    <3> QED
      BY <3>2, <3>3 DEF Known
  <2>8. RevokedOnlyByRace' /\ LinksWorkOnce'
    BY <1>1, <2>2, RaceKept, OnceKept DEF At, Own
  <2> QED
    BY <1>1, <2>2, <2>5, <2>6, <2>7, <2>8, StillRows, StillUser, StepInv DEF Moves
<1> QED
  BY <1>2, <1>3

LEMMA ConfirmDeleteInv ==
    ASSUME Inv, NEW r \in Requests, ConfirmDelete(r)
    PROVE  Inv'
<1>1. At(r, "confirm", "delete") /\ UNCHANGED <<cache, rate>>
  BY DEF ConfirmDelete
<1>2. CASE There
  <2>1. /\ user' = [NoUser EXCEPT !.there = "gone"] /\ Goto(r, "done")
        /\ row' = Cascade(row) /\ link' = Cascade(link)
    BY <1>2 DEF ConfirmDelete
  <2>2. Own(r, "confirm", "done", With(r)) /\ Others(r)
    BY <1>1, <2>1, GotoIs, Typed DEF Pcs, At
  <2>3. /\ user' \in UserType /\ user'.there = "gone" /\ ~user'.legacy
        /\ user' = [NoUser EXCEPT !.there = user'.there]
    BY <2>1 DEF NoUser, UserType
  <2>4. /\ row' \in [Creds -> {"none", "active", "expired", "revoked", "gone"}]
        /\ \A c \in Creds : row'[c] = IF row[c] = "none" THEN "none" ELSE "gone"
    BY <2>1, Typed DEF Cascade
  <2>5. /\ link' \in [Links -> {"none", "sent", "expired", "used", "gone"}]
        /\ \A l \in Links : link'[l] = IF link[l] = "none" THEN "none" ELSE "gone"
    BY <2>1, Typed DEF Cascade
  <2>6. TypeOK'
    BY <1>1, <2>2, <2>3, <2>4, <2>5, NewType, Typed
  <2>7. RowsMove({r}) /\ LinksMove({r})
    BY <2>4, <2>5 DEF RowsMove, LinksMove
  <2>8. UserMoves({r})
    BY <1>2, <2>3 DEF UserMoves, There
  <2>9. Known(r)'
    <3>1. ReadsExist(r)'
      BY <1>1, <2>2, <2>4, Typed DEF Own, Inv, Known, ReadsExist, At, With, Reqs, RequestType
    <3>2. LoginKnown(r)' /\ LateFill(r)' /\ Owed(r)' /\ UsedLink(r)'
      BY <2>2, <2>3 DEF Own, LoginKnown, LateFill, Owed, UsedLink, At, Migrating
    <3> QED
      BY <3>1, <3>2 DEF Known
  <2>10. RevokedOnlyByRace'
    BY <1>1, <2>2, <2>4, RaceKept DEF At
  <2>11. LinksWorkOnce'
    \* no other request has deleted the account, which is there
    <3>1. \A q \in Requests : ~At(q, "confirm", "done")
      BY <1>2 DEF Inv, Known, UsedLink, There
    <3> QED
      BY <1>1, <2>2, <3>1 DEF Inv, LinksWorkOnce, Others, Kept, Own, At, With
  <2> QED
    BY <2>2, <2>6, <2>7, <2>8, <2>9, <2>10, <2>11, StepInv DEF Moves
<1>3. CASE ~There
  BY <1>1, <1>3, FailInv DEF ConfirmDelete, Rows, At
<1> QED
  BY <1>2, <1>3

(* A step of no request.                                                   *)
LEMMA SelfInv ==
    ASSUME Inv, UNCHANGED req, Moves({}), TypeOK',
           \A c \in Creds : row'[c] = "revoked" /\ cache'[c] = "yes" =>
                             row[c] = "revoked" /\ cache[c] = "yes"
    PROVE  Inv'
<1>1. \A q \in Requests : Kept(q)
  BY DEF Inv, Kept
<1>2. \A q \in Requests : Known(q)'
  BY <1>1, KeptKnown DEF Inv, Reqs
<1>3. LegacyFirst'
  BY DEF Inv, LegacyFirst, Moves, UserMoves
<1>4. RevokedOnlyByRace'
  <2> SUFFICES ASSUME NEW d \in Creds, row'[d] = "revoked", cache'[d] = "yes", ~Forgetting(d)'
               PROVE  \E q \in Requests : At(q, "use", "done")' /\ With(q)' = d /\ req'[q].stale
    BY DEF RevokedOnlyByRace
  <2>1. \E q \in Requests : At(q, "use", "done") /\ With(q) = d /\ req[q].stale
    BY DEF Forgetting, Inv, RevokedOnlyByRace
  <2> QED
    BY <2>1 DEF At, With
<1>5. LinksWorkOnce'
  BY DEF Inv, LinksWorkOnce, With
<1> QED
  BY <1>2, <1>3, <1>4, <1>5 DEF Inv

LEMMA SelfType ==
    ASSUME Inv, UNCHANGED req, user' \in UserType,
           user'.there # "yes" => user' = [NoUser EXCEPT !.there = user'.there],
           row' \in [Creds -> {"none", "active", "expired", "revoked", "gone"}],
           link' \in [Links -> {"none", "sent", "expired", "used", "gone"}],
           user'.there # "yes" => \A x \in Creds : row'[x] \in {"none", "gone"},
           user'.there # "yes" => \A x \in Links : link'[x] \in {"none", "gone"},
           \A s \in Sessions : row'[s] = "active" => user'.verified,
           cache' \in [Creds -> {"empty", "yes", "no"}],
           rate' \in 0 .. MaxRequests + 1
    PROVE  TypeOK'
BY DEF Inv, TypeOK, UserType

LEMMA SelfStepInv ==
    ASSUME Inv, WindowEnds \/ CacheExpires \/ UNCHANGED vars
    PROVE  Inv'
<1>1. CASE WindowEnds
  <2>1. rate' \in 0 .. MaxRequests + 1
    BY <1>1, AccountsAssumption DEF WindowEnds
  <2>2. TypeOK'
    BY <1>1, <2>1, SelfType, Typed DEF WindowEnds
  <2> QED
    BY <1>1, <2>2, SelfInv, StillRows, StillLinks, StillUser DEF WindowEnds, Moves
<1>2. CASE CacheExpires
  <2>1. PICK c \in Creds : cache' = [cache EXCEPT ![c] = "empty"]
    BY <1>2 DEF CacheExpires
  <2>2. /\ cache' \in [Creds -> {"empty", "yes", "no"}]
        /\ \A d \in Creds : cache'[d] = "yes" => cache[d] = "yes"
    BY <2>1, Typed
  <2>3. TypeOK'
    BY <1>2, <2>2, SelfType, Typed DEF CacheExpires, Rows
  <2> QED
    BY <1>2, <2>2, <2>3, SelfInv, StillRows, StillLinks, StillUser DEF CacheExpires, Rows, Moves
<1>3. CASE UNCHANGED vars
  <2>1. UNCHANGED <<user, row, link, cache, rate, req>>
    BY <1>3 DEF vars
  <2>2. TypeOK'
    BY <2>1, SelfType, Typed
  <2> QED
    BY <2>1, <2>2, SelfInv, StillRows, StillLinks, StillUser DEF Moves
<1> QED
  BY <1>1, <1>2, <1>3

LEMMA ExpireInv ==
    ASSUME Inv, Expire
    PROVE  Inv'
<1>0. UNCHANGED <<cache, rate, req>>
  BY DEF Expire
<1>1. CASE (\E c \in Creds : row[c] = "active" /\ row' = [row EXCEPT ![c] = "expired"])
           /\ UNCHANGED <<user, link>>
  <2>1. PICK c \in Creds : row[c] = "active" /\ row' = [row EXCEPT ![c] = "expired"]
    BY <1>1
  <2>2. /\ row' \in [Creds -> {"none", "active", "expired", "revoked", "gone"}]
        /\ \A d \in Creds : row'[d] = IF d = c THEN "expired" ELSE row[d]
    BY <2>1, Typed
  <2>3. There
    BY <2>1, Typed DEF There
  <2>4. TypeOK'
    BY <1>0, <1>1, <2>2, <2>3, SelfType, Typed DEF There
  <2>5. RowsMove({})
    BY <2>1, <2>2 DEF RowsMove
  <2>6. \A d \in Creds : row'[d] = "revoked" => row[d] = "revoked"
    BY <2>2
  <2> QED
    BY <1>0, <1>1, <2>4, <2>5, <2>6, SelfInv, StillLinks, StillUser DEF Moves
<1>2. CASE (\E l \in Links : link[l] = "sent" /\ link' = [link EXCEPT ![l] = "expired"])
           /\ UNCHANGED <<user, row>>
  <2>1. PICK l \in Links : link[l] = "sent" /\ link' = [link EXCEPT ![l] = "expired"]
    BY <1>2
  <2>2. /\ link' \in [Links -> {"none", "sent", "expired", "used", "gone"}]
        /\ \A m \in Links : link'[m] = IF m = l THEN "expired" ELSE link[m]
    BY <2>1, Typed
  <2>3. There
    BY <2>1, Typed DEF There
  <2>4. TypeOK'
    BY <1>0, <1>2, <2>2, <2>3, SelfType, Typed DEF There
  <2>5. LinksMove({})
    BY <2>1, <2>2 DEF LinksMove
  <2> QED
    BY <1>0, <1>2, <2>4, <2>5, SelfInv, StillRows, StillUser DEF Moves
<1>3. CASE user.reset # None /\ user' = [user EXCEPT !.reset = None] /\ UNCHANGED <<row, link>>
  <2>1. There
    BY <1>3, Typed DEF There, NoUser
  <2>2. /\ user' \in UserType /\ user'.there = "yes" /\ user'.verified = user.verified
        /\ user'.password = user.password /\ user'.legacy = user.legacy
    BY <1>3, <2>1, Typed DEF UserType, There
  <2>3. TypeOK'
    BY <1>0, <1>3, <2>2, SelfType, Typed
  <2>4. UserMoves({})
    BY <2>1, <2>2 DEF UserMoves, There
  <2> QED
    BY <1>0, <1>3, <2>3, <2>4, SelfInv, StillRows, StillLinks DEF Moves
<1> QED
  BY <1>1, <1>2, <1>3 DEF Expire

-----------------------------------------------------------------------------
(* The theorems                                                            *)

LEMMA InitInv ==
    ASSUME Init
    PROVE  Inv
<1>1. /\ req = [r \in Requests |-> NewRequest] /\ cache = [c \in Creds |-> "empty"] /\ rate = 0
      /\ user \in UserType
      /\ user.there # "yes" => user = [NoUser EXCEPT !.there = user.there]
      /\ row \in [Creds -> {"none", "active"}] /\ link \in [Links -> {"none", "sent"}]
      /\ user.there # "yes" => \A x \in Creds : row[x] = "none"
      /\ user.there # "yes" => \A x \in Links : link[x] = "none"
      /\ \A s \in Creds : row[s] = "active" => user.verified
      /\ user.legacy => user.password = First
  <2>1. CASE user = NoUser /\ row = [c \in Creds |-> "none"] /\ link = [l \in Links |-> "none"]
    BY <2>1 DEF Init, NoUser, UserType
  <2>2. CASE /\ user \in [there : {"yes"}, verified : BOOLEAN, password : {First},
                           legacy : BOOLEAN, reset : Resets \cup {None}]
             /\ row \in [Creds -> {"none"} \cup (IF user.verified THEN {"active"} ELSE {})]
             /\ link \in [Links -> {"none", "sent"}]
    BY <2>2 DEF Init, UserType, Passwords
  <2> QED
    BY <2>1, <2>2 DEF Init
<1>2. NewRequest \in RequestType /\ \A r \in Requests : req[r] = NewRequest
  BY <1>1 DEF NewRequest, RequestType, Pcs
<1>3. req \in [Requests -> RequestType]
  BY <1>1, <1>2
<1>4. TypeOK
  <2>1. /\ row \in [Creds -> {"none", "active", "expired", "revoked", "gone"}]
        /\ link \in [Links -> {"none", "sent", "expired", "used", "gone"}]
        /\ cache \in [Creds -> {"empty", "yes", "no"}] /\ rate \in 0 .. MaxRequests + 1
    BY <1>1, AccountsAssumption
  <2>2. /\ user.there # "yes" => \A x \in Creds : row[x] \in {"none", "gone"}
        /\ user.there # "yes" => \A x \in Links : link[x] \in {"none", "gone"}
        /\ \A s \in Sessions : row[s] = "active" => user.verified
    BY <1>1 DEF Creds
  <2>3. \A r \in Requests :
          /\ req[r].op \in Ops \cup {"none"}
          /\ req[r].todo \subseteq Sessions /\ req[r].owed \subseteq Sessions
          /\ req[r].saw \in BOOLEAN /\ req[r].stale \in BOOLEAN
    BY <1>2 DEF RequestType
  <2> QED
    BY <1>1, <2>1, <2>2, <2>3 DEF TypeOK, UserType
<1>5. \A r \in Requests : Known(r)
  BY <1>2 DEF NewRequest, Known, ReadsExist, LoginKnown, LateFill, Owed, UsedLink, At, Migrating
<1>6. RevokedOnlyByRace /\ LinksWorkOnce /\ LegacyFirst
  BY <1>1, <1>2 DEF NewRequest, RevokedOnlyByRace, LinksWorkOnce, LegacyFirst
<1> QED
  BY <1>3, <1>4, <1>5, <1>6 DEF Inv

LEMMA InvNext ==
    ASSUME Inv, [Next]_vars
    PROVE  Inv'
<1>1. ASSUME NEW r \in Requests, Step(r)
      PROVE  Inv'
  BY <1>1, FindInv, RegisterInv, SendLinkInv, VerifyWriteInv, MigrateInv, OpenSessionInv,
     ChangeWriteInv, ForgotInv, ResetWriteInv, ResetListInv, RefreshInv, CreateKeyInv,
     RevokeWriteInv, ForgetInv, UseLookupInv, UseFillInv, ConfirmBurnInv, ConfirmDeleteInv
  DEF Step
<1> QED
  BY <1>1, SelfStepInv, ExpireInv DEF Next

LEMMA InvAlways == Spec => []Inv
BY InitInv, InvNext, PTL DEF Spec

(* The account, its sessions, keys and links and every request have their  *)
(* types: nothing is left of an account that is gone, and a session is one *)
(* of a verified address.                                                  *)
THEOREM TypeCorrect == Spec => []TypeOK
<1>1. Inv => TypeOK
  BY DEF Inv
<1> QED
  BY <1>1, InvAlways, PTL

(* Once revoking a session or key has returned, the cache accepts it only  *)
(* by a lookup that had read the row before: the race between              *)
(* invalidateSessionCache and isSessionActive, and nothing else.           *)
THEOREM RevokedStaysOut == Spec => []RevokedOnlyByRace
<1>1. Inv => RevokedOnlyByRace
  BY DEF Inv
<1> QED
  BY <1>1, InvAlways, PTL

(* A password reset that succeeds has revoked every session that was open  *)
(* when the password was replaced.                                         *)
THEOREM ResetEndsSessions == Spec => []ResetKillsSessions
<1>1. Inv => ResetKillsSessions
  BY DEF Inv, Known, Owed, ResetKillsSessions
<1> QED
  BY <1>1, InvAlways, PTL

(* A link works once, but for verifications that read it before either had *)
(* written; the link that deletes the account works once for certain.      *)
THEOREM LinkUsedOnce == Spec => []LinksWorkOnce
<1>1. Inv => LinksWorkOnce
  BY DEF Inv
<1> QED
  BY <1>1, InvAlways, PTL

(* No step of another request moves a request.                             *)
LEMMA StepOthers ==
    ASSUME Reqs, NEW q \in Requests, Step(q), NEW r \in Requests \ {q}
    PROVE  req'[r].op = req[r].op /\ req'[r].pc = req[r].pc
<1>1. ASSUME NEW op, NEW with, NEW pc, Begin(q, op, with, pc)
      PROVE  req'[r] = req[r]
  BY <1>1 DEF Begin, Reqs
<1>2. ASSUME NEW pc, Goto(q, pc)
      PROVE  req'[r] = req[r]
  BY <1>2 DEF Goto, Reqs
<1>3. ASSUME NEW t, NEW S, Overtake(q, t, S)
      PROVE  req'[r].op = req[r].op /\ req'[r].pc = req[r].pc
  <2>1. req'[r] = [req[r] EXCEPT !.stale = @ \/ r \in S] /\ req[r] \in RequestType
    BY <1>3 DEF Overtake, Reqs
  <2> QED
    BY <2>1 DEF RequestType
<1>4. ASSUME NEW S, Rest(q, S)
      PROVE  req'[r] = req[r]
  BY <1>4 DEF Rest, Reqs
<1>5. CASE Refuse(q) \/ UseLookup(q)
  BY <1>5 DEF Refuse, UseLookup, Reqs
<1>6. CASE \/ Register(q) \/ Resend(q) \/ SendLink(q) \/ VerifyFind(q) \/ VerifyWrite(q)
           \/ Login(q) \/ Migrate(q) \/ OpenSession(q) \/ ChangeFind(q) \/ ChangeWrite(q)
           \/ Forgot(q) \/ ResetFind(q) \/ ResetWrite(q) \/ ResetList(q)
  BY <1>1, <1>2, <1>3, <1>4, <1>6
  DEF Register, Resend, SendLink, VerifyFind, VerifyWrite, Login, Migrate, OpenSession,
      ChangeFind, ChangeWrite, Forgot, ResetFind, ResetWrite, ResetList
<1>7. CASE \/ Refresh(q) \/ CreateKey(q) \/ Revoke(q) \/ RevokeWrite(q) \/ Forget(q)
           \/ Use(q) \/ UseFill(q) \/ Leave(q) \/ ConfirmFind(q) \/ ConfirmBurn(q)
           \/ ConfirmDelete(q)
  BY <1>1, <1>2, <1>3, <1>4, <1>7
  DEF Refresh, CreateKey, Revoke, RevokeWrite, Forget, Use, UseFill, Leave, ConfirmFind,
      ConfirmBurn, ConfirmDelete, If
<1> QED
  BY <1>5, <1>6, <1>7 DEF Step

(* Only its own write ends a migration.                                    *)
LEMMA MigratingEnds ==
    ASSUME Inv, [Next]_vars, NEW r \in Requests, Migrating(r), ~Migrating(r)'
    PROVE  Migrate(r)
<1>1. req[r].op = "login" /\ req[r].pc = "migrate"
  BY DEF Migrating, At
<1>2. ASSUME NEW q \in Requests, q # r, Step(q)
      PROVE  FALSE
  <2>1. req'[r].op = req[r].op /\ req'[r].pc = req[r].pc
    BY <1>2, StepOthers DEF Inv, Reqs
  <2> QED
    BY <1>1, <2>1 DEF Migrating, At
<1>3. CASE Step(r)
  BY <1>1, <1>3 DEF Step, Refuse, Register, Resend, SendLink, VerifyFind, VerifyWrite, Login,
     OpenSession, ChangeFind, ChangeWrite, Forgot, ResetFind, ResetWrite, ResetList, Refresh,
     CreateKey, Revoke, RevokeWrite, Forget, Use, UseLookup, UseFill, Leave, ConfirmFind,
     ConfirmBurn, ConfirmDelete, Begin, At
<1>4. UNCHANGED req => FALSE
  BY DEF Migrating, At
<1> QED
  BY <1>2, <1>3, <1>4 DEF Next, WindowEnds, CacheExpires, Expire, vars

(* Storing a password in the new form changes no password, unless it was   *)
(* replaced while the login was hashing.                                   *)
THEOREM MigrationIsSilent == Spec => MigrationKeepsPassword
<1>1. ASSUME Inv, [Next]_vars
      PROVE  [\A r \in Requests :
                Migrating(r) /\ ~Migrating(r)' /\ ~req[r].stale
                  => user'.password = user.password]_vars
  <2> SUFFICES ASSUME NEW r \in Requests, Migrating(r), ~Migrating(r)', ~req[r].stale
               PROVE  user'.password = user.password
    OBVIOUS
  <2>1. Migrate(r) /\ With(r) = First /\ (There => user.password = First)
    BY <1>1, MigratingEnds DEF Inv, Known, LoginKnown
  <2> QED
    BY <1>1, <2>1, Typed DEF Migrate, UserType
<1> QED
  BY <1>1, InvAlways, PTL DEF Spec, MigrationKeepsPassword

=============================================================================
