------------------------------ MODULE Accounts ------------------------------
(***************************************************************************)
(* One account: its password, the links mailed to it, its device sessions  *)
(* and API keys, and the cache in which a server process keeps what it     *)
(* last read about a session or a key.  Requests interleave between the    *)
(* queries they await; no query locks a row for the next one.              *)
(***************************************************************************)
EXTENDS Integers, FiniteSets

CONSTANTS
    Requests,    \* requests, each one call; also the passwords they set
    Sessions,    \* device sessions
    Keys,        \* API keys
    Verify,      \* links that verify the address
    Resets,      \* links that reset the password
    Deletions,   \* links that delete the account
    MaxRequests, \* maxRequests of the "auth" rate limit policy
    First,       \* the password of an account that was there before
    None         \* no value

Creds == Sessions \cup Keys
Links == Verify \cup Deletions
Passwords == Requests \cup {First}

ASSUME AccountsAssumption ==
    /\ MaxRequests \in Nat
    /\ First \notin Requests /\ None \notin Passwords \cup Creds \cup Links \cup Resets
    /\ Sessions \cap Keys = {} /\ Verify \cap Deletions = {}

VARIABLES
    user,   \* the row: whether there, verified, its password, its reset link
    row,    \* of each session and key
    link,   \* of each verification and deletion link
    cache,  \* sessionCache and apiKeyCache
    rate,   \* calls counted in the rate limit window of the caller
    req     \* requests

vars == <<user, row, link, cache, rate, req>>

NoUser == [there |-> "none", verified |-> FALSE, password |-> None,
           legacy |-> FALSE, reset |-> None]
NewRequest == [op |-> "none", pc |-> "new", with |-> None, saw |-> FALSE,
               cred |-> None, todo |-> {}, owed |-> {}, stale |-> FALSE]

Ops == {"register", "verify", "resend", "login", "change", "forgot", "reset",
        "refresh", "revoke", "createKey", "leave", "confirm", "use"}

TypeOK ==
    /\ user \in [there : {"none", "yes", "gone"}, verified : BOOLEAN,
                 password : Passwords \cup {None}, legacy : BOOLEAN,
                 reset : Resets \cup {None}]
    /\ user.there # "yes" => user = [NoUser EXCEPT !.there = user.there]
    /\ row \in [Creds -> {"none", "active", "expired", "revoked", "gone"}]
    /\ link \in [Links -> {"none", "sent", "expired", "used", "gone"}]
    \* rows of an account need the account, and a session a verified address
    /\ user.there # "yes" => \A x \in Creds : row[x] \in {"none", "gone"}
    /\ user.there # "yes" => \A x \in Links : link[x] \in {"none", "gone"}
    /\ \A s \in Sessions : row[s] = "active" => user.verified
    /\ cache \in [Creds -> {"empty", "yes", "no"}]
    /\ rate \in 0 .. MaxRequests + 1
    /\ \A r \in Requests :
         /\ req[r].op \in Ops \cup {"none"}
         /\ req[r].todo \subseteq Sessions /\ req[r].owed \subseteq Sessions
         /\ req[r].saw \in BOOLEAN /\ req[r].stale \in BOOLEAN

(* No account yet, or one at any point of its life. *)
Init ==
    /\ \/ /\ user = NoUser
          /\ row = [c \in Creds |-> "none"] /\ link = [l \in Links |-> "none"]
       \/ /\ user \in [there : {"yes"}, verified : BOOLEAN, password : {First},
                       legacy : BOOLEAN, reset : Resets \cup {None}]
          /\ row \in [Creds -> {"none"} \cup (IF user.verified THEN {"active"} ELSE {})]
          /\ link \in [Links -> {"none", "sent"}]
          /\ \A v \in Verify : link[v] = "sent" => ~user.verified
    /\ cache = [c \in Creds |-> "empty"]
    /\ rate = 0
    /\ req = [r \in Requests |-> NewRequest]

-----------------------------------------------------------------------------
There == user.there = "yes"
At(r, op, pc) == req[r].op = op /\ req[r].pc = pc
With(r) == req[r].with

Goto(r, pc) == req' = [req EXCEPT ![r].pc = pc]
If(r, ok, pc) == Goto(r, IF ok THEN pc ELSE "failed")

(* checkRateLimit: a window of a minute, counted from its first call. *)
RateLimited == {"register", "verify", "resend", "login", "change", "forgot",
                "refresh", "leave"}
Allow(op) ==
    IF op \notin RateLimited THEN UNCHANGED rate
    ELSE rate < MaxRequests /\ rate' = rate + 1

Refuse(r) ==
    /\ req[r].pc = "new" /\ rate >= MaxRequests
    /\ req' = [req EXCEPT ![r].pc = "failed"]
    /\ rate' = MaxRequests + 1
    /\ UNCHANGED <<user, row, link, cache>>

WindowEnds ==
    /\ rate > 0 /\ rate' = 0
    /\ UNCHANGED <<user, row, link, cache, req>>

Begin(r, op, with, pc) ==
    /\ req[r].pc = "new" /\ Allow(op)
    /\ req' = [req EXCEPT ![r].op = op, ![r].with = with, ![r].pc = pc]

Rows == <<user, row, link>>

(* r goes on as next, and the requests in Readers have read something that *)
(* it now writes over.                                                     *)
Overtake(r, next, Readers) ==
    req' = [q \in Requests |-> IF q = r THEN next
                               ELSE [req[q] EXCEPT !.stale = @ \/ q \in Readers]]

-----------------------------------------------------------------------------
(* Signing up: register, resendVerification, verifyEmail                   *)

Register(r) ==
    \/ /\ Begin(r, "register", None, IF user.there = "none" THEN "create" ELSE "failed")
       /\ UNCHANGED <<Rows, cache>>
    \/ /\ At(r, "register", "create")      \* the address is unique
       /\ IF user.there = "none"
            THEN /\ user' = [NoUser EXCEPT !.there = "yes", !.password = r]
                 /\ Goto(r, "send")
            ELSE Goto(r, "failed") /\ UNCHANGED user
       /\ UNCHANGED <<row, link, cache, rate>>

Resend(r) ==
    /\ Begin(r, "resend", None, IF There /\ ~user.verified THEN "send" ELSE "done")
    /\ UNCHANGED <<Rows, cache>>

(* A link is stored, then mailed; a mailer that fails fails the call, the  *)
(* link and the account stay.                                              *)
SendLink(r) ==
    /\ req[r].op \in {"register", "resend", "leave"} /\ req[r].pc = "send"
    /\ IF There
         THEN /\ \E l \in (IF req[r].op = "leave" THEN Deletions ELSE Verify) :
                   link[l] = "none" /\ link' = [link EXCEPT ![l] = "sent"]
              /\ \E pc \in {"done", "failed"} : Goto(r, pc)
         ELSE Goto(r, "failed") /\ UNCHANGED link
    /\ UNCHANGED <<user, row, cache, rate>>

VerifyFind(r) ==
    /\ \E v \in Verify :
         /\ link[v] # "none"
         /\ Begin(r, "verify", v, IF link[v] = "sent" THEN "write" ELSE "failed")
    /\ UNCHANGED <<Rows, cache>>

SameLink(r) ==
    {q \in Requests : req[q].op = req[r].op /\ With(q) = With(r) /\ req[q].pc = "write"}

(* One transaction; it marks this link used and no other. *)
VerifyWrite(r) ==
    /\ At(r, "verify", "write")
    /\ IF link[With(r)] = "gone" THEN Goto(r, "failed") /\ UNCHANGED <<user, link>>
       ELSE /\ link' = [link EXCEPT ![With(r)] = "used"]
            /\ user' = [user EXCEPT !.verified = TRUE]
            /\ Overtake(r, [req[r] EXCEPT !.pc = "done"], SameLink(r))
    /\ UNCHANGED <<row, cache, rate>>

-----------------------------------------------------------------------------
(* Passwords: login, changePassword, requestPasswordReset, resetPassword   *)

(* Mutant: a password stored in the old form is not compared. *)
LoginUnchecked(r) ==
    /\ \E p \in Passwords :
         Begin(r, "login", p, IF ~(There /\ user.verified) THEN "failed"
                              ELSE IF user.legacy THEN "migrate"
                              ELSE IF p = user.password THEN "open" ELSE "failed")
    /\ UNCHANGED <<Rows, cache>>

(* A login verifies against the row it read; hashing takes a while.  A     *)
(* password stored in the old form is written back in the new one.         *)
Login(r) ==
    /\ \E p \in Passwords :
         Begin(r, "login", p, IF ~(There /\ user.verified /\ p = user.password) THEN "failed"
                              ELSE IF user.legacy THEN "migrate" ELSE "open")
    /\ UNCHANGED <<Rows, cache>>

(* Best effort: without the row the login goes on. *)
Migrate(r) ==
    /\ At(r, "login", "migrate") /\ Goto(r, "open")
    /\ user' = IF There THEN [user EXCEPT !.password = With(r), !.legacy = FALSE] ELSE user
    /\ UNCHANGED <<row, link, cache, rate>>

(* A named device gets a session, other logins a token no row stands for. *)
OpenSession(r) ==
    /\ At(r, "login", "open")
    /\ \/ Goto(r, "done") /\ UNCHANGED row
       \/ /\ There /\ Goto(r, "done")
          /\ \E s \in Sessions : row[s] = "none" /\ row' = [row EXCEPT ![s] = "active"]
       \/ ~There /\ Goto(r, "failed") /\ UNCHANGED row
    /\ UNCHANGED <<user, link, cache, rate>>

ChangeFind(r) ==
    /\ \E p \in Passwords :
         Begin(r, "change", p, IF There /\ p = user.password THEN "write" ELSE "failed")
    /\ UNCHANGED <<Rows, cache>>

Migrating(q) == At(q, "login", "migrate")
Migrations == {q \in Requests : Migrating(q)}

ChangeWrite(r) ==
    /\ At(r, "change", "write")
    /\ IF There
         THEN /\ user' = [user EXCEPT !.password = r, !.legacy = FALSE]
              /\ Overtake(r, [req[r] EXCEPT !.pc = "done"], Migrations)
         ELSE Goto(r, "failed") /\ UNCHANGED user
    /\ UNCHANGED <<row, link, cache, rate>>

(* The account remembers one reset link, the last. *)
Forgot(r) ==
    \/ /\ Begin(r, "forgot", None, IF There THEN "write" ELSE "done")
       /\ UNCHANGED <<Rows, cache>>
    \/ /\ At(r, "forgot", "write")
       /\ \E t \in Resets : IF There
            THEN /\ user' = [user EXCEPT !.reset = t]
                 /\ \E pc \in {"done", "failed"} : Goto(r, pc)
            ELSE Goto(r, "failed") /\ UNCHANGED user
       /\ UNCHANGED <<row, link, cache, rate>>

ResetFind(r) ==
    /\ \E t \in Resets :
         Begin(r, "reset", t, IF user.reset = t THEN "write" ELSE "failed")
    /\ UNCHANGED <<Rows, cache>>

Open(S) == {s \in S : row[s] \in {"active", "expired"}}

(* The password is replaced and whatever reset link there is forgotten. *)
ResetWrite(r) ==
    /\ At(r, "reset", "write")
    /\ IF There
         THEN /\ user' = [user EXCEPT !.password = r, !.legacy = FALSE, !.reset = None]
              /\ Overtake(r, [req[r] EXCEPT !.pc = "list", !.owed = Open(Sessions)],
                          Migrations \cup SameLink(r))
         ELSE Goto(r, "failed") /\ UNCHANGED user
    /\ UNCHANGED <<row, link, cache, rate>>

Rest(r, S) == req' = [req EXCEPT ![r].todo = S, ![r].pc = IF S = {} THEN "done" ELSE "revoke"]

(* Mutant: only sessions that could still be refreshed are listed. *)
ResetListValid(r) ==
    /\ At(r, "reset", "list") /\ Rest(r, {s \in Sessions : row[s] = "active"})
    /\ UNCHANGED <<Rows, cache, rate>>

ResetList(r) ==
    /\ At(r, "reset", "list") /\ Rest(r, Open(Sessions))
    /\ UNCHANGED <<Rows, cache, rate>>

-----------------------------------------------------------------------------
(* Sessions and keys                                                       *)

Refresh(r) ==
    \/ /\ \E s \in Sessions : Begin(r, "refresh", s, IF row[s] = "active" THEN "write" ELSE "failed")
       /\ UNCHANGED <<Rows, cache>>
    \/ /\ At(r, "refresh", "write") /\ If(r, row[With(r)] # "gone", "done")
       /\ UNCHANGED <<Rows, cache, rate>>

CreateKey(r) ==
    /\ \E k \in Keys : row[k] = "none" /\ There
         /\ row' = [row EXCEPT ![k] = "active"] /\ Begin(r, "createKey", k, "done")
    /\ UNCHANGED <<user, link, cache>>

Revoke(r) ==
    /\ \E c \in Creds :
         Begin(r, "revoke", c, IF row[c] \in {"none", "gone"} THEN "failed" ELSE "revoke")
    /\ UNCHANGED <<Rows, cache>>

Filling(c) == {q \in Requests : At(q, "use", "fill") /\ With(q) = c}

(* revokedAt is set for one credential, of the call or of the list ... *)
RevokeWrite(r) ==
    /\ req[r].op \in {"revoke", "reset"} /\ req[r].pc = "revoke"
    /\ \E c \in (IF req[r].op = "revoke" THEN {With(r)} ELSE req[r].todo) :
         IF row[c] = "gone" THEN Goto(r, "failed") /\ UNCHANGED row
         ELSE /\ row' = [row EXCEPT ![c] = "revoked"]
              /\ Overtake(r, [req[r] EXCEPT !.pc = "forget", !.cred = c], Filling(c))
    /\ UNCHANGED <<user, link, cache, rate>>

(* Mutant: the cache is not told. *)
ForgetNothing(r) ==
    /\ req[r].pc = "forget"
    /\ Rest(r, req[r].todo \ {req[r].cred})
    /\ UNCHANGED <<Rows, cache, rate>>

(* ... and then, when the update is back, the cache forgets it. *)
Forget(r) ==
    /\ req[r].pc = "forget"
    /\ Rest(r, req[r].todo \ {req[r].cred})
    /\ cache' = [cache EXCEPT ![req[r].cred] = "empty"]
    /\ UNCHANGED <<Rows, rate>>

(* isSessionActive, authFromApiKey: what the cache says, for a minute; the *)
(* row if it says nothing.                                                 *)
Use(r) ==
    /\ \E c \in Creds :
         /\ row[c] # "none"
         /\ Begin(r, "use", c, CASE cache[c] = "yes" -> "done" [] cache[c] = "no" -> "failed"
                                 [] cache[c] = "empty" -> "lookup")
    /\ UNCHANGED <<Rows, cache>>

UseLookup(r) ==
    /\ At(r, "use", "lookup")
    /\ req' = [req EXCEPT ![r].pc = "fill", ![r].saw = row[With(r)] = "active"]
    /\ UNCHANGED <<Rows, cache, rate>>

UseFill(r) ==
    /\ At(r, "use", "fill") /\ If(r, req[r].saw, "done")
    /\ cache' = [cache EXCEPT ![With(r)] = IF req[r].saw THEN "yes" ELSE "no"]
    /\ UNCHANGED <<Rows, rate>>

(* The minute is over, or the process restarts. *)
CacheExpires ==
    /\ \E c \in Creds : cache[c] # "empty" /\ cache' = [cache EXCEPT ![c] = "empty"]
    /\ UNCHANGED <<Rows, rate, req>>

-----------------------------------------------------------------------------
(* Leaving: requestAccountDeletion, confirmAccountDeletion                 *)

Leave(r) ==
    /\ \E p \in Passwords :
         Begin(r, "leave", p, IF There /\ p = user.password THEN "send" ELSE "failed")
    /\ UNCHANGED <<Rows, cache>>

ConfirmFind(r) ==
    /\ \E d \in Deletions :
         /\ link[d] # "none"
         /\ Begin(r, "confirm", d, IF link[d] = "sent" THEN "write" ELSE "failed")
    /\ UNCHANGED <<Rows, cache>>

(* The link is burned first, then the account and all it owns is deleted.  *)
(* The caches are left as they are.                                        *)
ConfirmBurn(r) ==
    /\ At(r, "confirm", "write")
    /\ IF link[With(r)] = "gone" THEN Goto(r, "failed") /\ UNCHANGED link
       ELSE /\ link' = [link EXCEPT ![With(r)] = "used"]
            /\ Overtake(r, [req[r] EXCEPT !.pc = "delete"], SameLink(r))
    /\ UNCHANGED <<user, row, cache, rate>>

Cascade(f) == [x \in DOMAIN f |-> IF f[x] = "none" THEN "none" ELSE "gone"]

(* Mutant: deleting an account that is gone succeeds. *)
ConfirmDeleteMany(r) ==
    /\ At(r, "confirm", "delete") /\ Goto(r, "done")
    /\ user' = [NoUser EXCEPT !.there = "gone"]
    /\ row' = Cascade(row) /\ link' = Cascade(link)
    /\ UNCHANGED <<cache, rate>>

ConfirmDelete(r) ==
    /\ At(r, "confirm", "delete")
    /\ IF There
         THEN /\ user' = [NoUser EXCEPT !.there = "gone"] /\ Goto(r, "done")
              /\ row' = Cascade(row) /\ link' = Cascade(link)
         ELSE Goto(r, "failed") /\ UNCHANGED Rows
    /\ UNCHANGED <<cache, rate>>

(* expiresAt of a session, a key or a link passes. *)
Expire ==
    /\ \/ /\ \E c \in Creds : row[c] = "active" /\ row' = [row EXCEPT ![c] = "expired"]
          /\ UNCHANGED <<user, link>>
       \/ /\ \E l \in Links : link[l] = "sent" /\ link' = [link EXCEPT ![l] = "expired"]
          /\ UNCHANGED <<user, row>>
       \/ /\ user.reset # None /\ user' = [user EXCEPT !.reset = None]
          /\ UNCHANGED <<row, link>>
    /\ UNCHANGED <<cache, rate, req>>

-----------------------------------------------------------------------------
Step(r) ==
    \/ Refuse(r)
    \/ Register(r) \/ Resend(r) \/ SendLink(r) \/ VerifyFind(r) \/ VerifyWrite(r)
    \/ Login(r) \/ Migrate(r) \/ OpenSession(r)
    \/ ChangeFind(r) \/ ChangeWrite(r) \/ Forgot(r)
    \/ ResetFind(r) \/ ResetWrite(r) \/ ResetList(r)
    \/ Refresh(r) \/ CreateKey(r) \/ Revoke(r) \/ RevokeWrite(r) \/ Forget(r)
    \/ Use(r) \/ UseLookup(r) \/ UseFill(r)
    \/ Leave(r) \/ ConfirmFind(r) \/ ConfirmBurn(r) \/ ConfirmDelete(r)

Next == (\E r \in Requests : Step(r)) \/ WindowEnds \/ CacheExpires \/ Expire

Spec == Init /\ [][Next]_vars

-----------------------------------------------------------------------------
Forgetting(c) == \E r \in Requests : req[r].pc = "forget" /\ req[r].cred = c

(* Once its revocation has returned, a session or key is accepted from the *)
(* cache only if the entry was written by a lookup that read the row       *)
(* before it was revoked.                                                  *)
RevokedOnlyByRace ==
    \A c \in Creds :
        row[c] = "revoked" /\ cache[c] = "yes" /\ ~Forgetting(c) =>
            \E r \in Requests : At(r, "use", "done") /\ With(r) = c /\ req[r].stale

(* A reset that succeeds has revoked every session there was when the      *)
(* password was replaced, whatever was revoked, expired or deleted by      *)
(* others meanwhile.                                                       *)
ResetKillsSessions ==
    \A r \in Requests : At(r, "reset", "done") =>
        \A s \in req[r].owed : row[s] \in {"revoked", "gone"}

(* A link works once: twice only for two calls that read it before either  *)
(* had written, and the link that deletes the account never.               *)
LinksWorkOnce ==
    \A r, q \in Requests :
        /\ r # q /\ req[r].op = req[q].op /\ With(r) = With(q)
        /\ req[r].pc = "done" /\ req[q].pc = "done"
        => /\ req[r].op = "verify" => req[r].stale \/ req[q].stale
           /\ req[r].op # "confirm"

(* A login leaves the account the password it had, unless the password was *)
(* replaced while the login was hashing: then the old one is back.         *)
MigrationKeepsPassword ==
    [][\A r \in Requests :
         Migrating(r) /\ ~Migrating(r)' /\ ~req[r].stale
           => user'.password = user.password]_vars

(* The migration of a stored password is transparent. *)
MigrationTransparent ==
    [][\A r \in Requests :
         Migrating(r) /\ ~Migrating(r)' => user'.password = user.password]_vars

(* Verifying an address uses up every outstanding link of the account. *)
OtherLinksUsed ==
    (\E r \in Requests : At(r, "verify", "done")) /\ ~(\E r \in Requests : req[r].op = "resend")
        => \A v \in Verify : link[v] # "sent"

=============================================================================
