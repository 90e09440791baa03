---------------------------- MODULE AuthSessions ----------------------------
(***************************************************************************)
(* Refresh tokens and sessions of one user: AuthService's login, refresh   *)
(* rotation, logout and the revocations, with UserService.deleteUser and   *)
(* AdminUsersService.logoutAllSessions.  The user row holds ONE refresh    *)
(* token hash for all devices; every device has a UserSession row and a    *)
(* refresh token that names it (claim sid).                                *)
(*                                                                         *)
(* A request is a handler running in the server.  Each of its awaited      *)
(* database calls is a step of its own, so handlers interleave between     *)
(* them as on the event loop.  The handlers that read or clear the hash    *)
(* run inside RefreshTokenLockService.withLock, which is used here through *)
(* its abstract specification, ExclusiveLease.                             *)
(*                                                                         *)
(* A token is its index in "minted".  Passwords are left out: a login is   *)
(* one whose credentials were right.                                       *)
(***************************************************************************)
EXTENDS Naturals, Sequences

CONSTANTS
  Requests,         \* handlers that may run at the same time
  Sessions,         \* UserSession rows the user may ever have
  MaxTokens         \* bound: refresh tokens ever signed

ASSUME MaxTokensAssumption == MaxTokens \in Nat

VARIABLES
  hash,             \* User.hashedRefreshToken: the token it is the hash of, or None
  status,           \* User.status
  sess,             \* UserSession rows
  minted,           \* the session named by each refresh token signed so far
  delivered,        \* the tokens that reached a client
  inside,           \* the requests whose critical section a live lease protects
  req,              \* what each request is doing
  unlocked,         \* history: requests in a critical section without a lease
  exposed,          \* history: some critical section has run without a lease
  leased,           \* history: the hash is null since a clearing under a lease
  spent,            \* history: tokens a rotation has replaced, kept while ~exposed
  voided            \* history: tokens in use when reuse was detected, kept while ~exposed

vars == <<hash, status, sess, minted, delivered, req, inside, unlocked, exposed, leased, spent,
          voided>>

lockVars == <<inside, unlocked, exposed>>

None == 0
Tokens == 1..MaxTokens

\* FROZEN is as ACTIVE here: no check of this code tells them apart.
Statuses == {"ACTIVE", "BLOCKED", "DELETED"}
SessionStates == {"none", "active", "revoked"}
Ops == {"none", "login", "refresh", "logout", "revoke", "delete"}

(***************************************************************************)
(* "waiting" for the lock; in the critical section "running" (about to     *)
(* read or clear the user row), "verified" (the token matches the hash),   *)
(* "rotating" (new tokens signed, hash not yet stored), "replayed" and     *)
(* "purging" (reuse detected), "leaving" (the finally block); outside it   *)
(* "restoring", "recording", "installing" (login), "tidying" (deleteUser   *)
(* after the lock) and "replying" (tokens on their way to the client).     *)
(***************************************************************************)
Section == {"running", "verified", "rotating", "replayed", "purging", "leaving"}
PCs == Section \cup {"idle", "waiting", "restoring", "recording", "installing",
                     "tidying", "replying"}

(***************************************************************************)
(* A request: where it is, what it was sent for, the token it presented,   *)
(* the one it is handing out and, as history, whether the session of the   *)
(* token it presented had been revoked when the request began.             *)
(***************************************************************************)
Request == [at : PCs, op : Ops, tok : {None} \cup Tokens, next : {None} \cup Tokens,
            barred : BOOLEAN]

Idle == [at |-> "idle", op |-> "none", tok |-> None, next |-> None,
         barred |-> FALSE]

TypeOK ==
  /\ hash \in {None} \cup Tokens
  /\ status \in Statuses
  /\ sess \in [Sessions -> SessionStates]
  /\ minted \in Seq(Sessions) /\ Len(minted) <= MaxTokens
  /\ delivered \subseteq Tokens
  /\ req \in [Requests -> Request]
  /\ inside \subseteq Requests
  /\ unlocked \subseteq Requests
  /\ exposed \in BOOLEAN
  /\ leased \in BOOLEAN
  /\ spent \subseteq Tokens
  /\ voided \subseteq Tokens

\* UserService.create has just inserted the user; register then goes on as a
\* login does.
Init ==
  /\ hash = None
  /\ status = "ACTIVE"
  /\ sess = [s \in Sessions |-> "none"]
  /\ minted = <<>>
  /\ delivered = {}
  /\ req = [r \in Requests |-> Idle]
  /\ inside = {}
  /\ unlocked = {}
  /\ exposed = FALSE
  /\ leased = FALSE
  /\ spent = {}
  /\ voided = {}
-----------------------------------------------------------------------------
Lease == INSTANCE ExclusiveLease WITH Callers <- Requests

At(r, l) == req[r].at = l
Goto(r, l) == req' = [req EXCEPT ![r].at = l]
Hand(r, l, t) == req' = [req EXCEPT ![r].at = l, ![r].next = t]
Done(r) == req' = [req EXCEPT ![r] = Idle]

\* A request begins: what it was sent for, and with which token.
Start(r, o, t, l) ==
  /\ At(r, "idle")
  /\ req' = [req EXCEPT ![r] =
       [at |-> l, op |-> o, tok |-> t, next |-> None,
        barred |-> t # None /\ sess[minted[t]] = "revoked"]]

\* updateMany({revokedAt: null}) on every session but those of "keep".
Revoked(keep) ==
  [s \in Sessions |-> IF sess[s] = "active" /\ s \notin keep THEN "revoked" ELSE sess[s]]
-----------------------------------------------------------------------------
(* login, register and restoreAccountAndLogin: none of them takes the lock *)

\* validateUser has accepted the credentials and read the status.
Login(r) ==
  /\ status = "ACTIVE"
  /\ Start(r, "login", None, "recording")
  /\ UNCHANGED <<hash, status, sess, minted, delivered, lockVars, leased, spent, voided>>

\* restoreAccountAndLogin has read an account that is still restorable.
Restore(r) ==
  /\ status = "DELETED"
  /\ Start(r, "login", None, "restoring")
  /\ UNCHANGED <<hash, status, sess, minted, delivered, lockVars, leased, spent, voided>>

\* The unconditional update back to ACTIVE.
Reactivate(r) ==
  /\ At(r, "restoring")
  /\ status' = "ACTIVE"
  /\ Goto(r, "recording")
  /\ UNCHANGED <<hash, sess, minted, delivered, lockVars, leased, spent, voided>>

\* recordSession, then issueTokens, which touches no shared state.
RecordSession(r) ==
  /\ At(r, "recording")
  /\ Len(minted) < MaxTokens
  /\ \E s \in Sessions :
       /\ sess[s] = "none"
       /\ sess' = [sess EXCEPT ![s] = "active"]
       /\ minted' = Append(minted, s)
  /\ Hand(r, "installing", Len(minted) + 1)
  /\ UNCHANGED <<hash, status, delivered, lockVars, leased, spent, voided>>

\* updateRefreshTokenHash of a login.
InstallHash(r) ==
  /\ At(r, "installing")
  /\ hash' = req[r].next
  /\ leased' = FALSE
  /\ Goto(r, "replying")
  /\ UNCHANGED <<status, sess, minted, delivered, lockVars, spent, voided>>

\* The response reaches the client, or is lost.
Reply(r) ==
  /\ At(r, "replying")
  /\ delivered' \in {delivered, delivered \cup {req[r].next}}
  /\ Done(r)
  /\ UNCHANGED <<hash, status, sess, minted, lockVars, leased, spent, voided>>
-----------------------------------------------------------------------------
(* The critical sections *)

\* getNewTokens with a token some client was given, perhaps long ago.
Refresh(r) ==
  /\ \E t \in delivered : Start(r, "refresh", t, "waiting")
  /\ UNCHANGED <<hash, status, sess, minted, delivered, lockVars, leased, spent, voided>>

\* The handlers that clear the hash: logout; "revoke", which stands for
\* changePassword, confirmPasswordReset, confirmEmailChange and the admin's
\* logoutAllSessions; deleteUser, which has read the status.
Clearing(r) ==
  /\ \E o \in {"logout", "revoke", "delete"} :
       /\ o = "delete" => status # "DELETED"
       /\ Start(r, o, None, "waiting")
  /\ UNCHANGED <<hash, status, sess, minted, delivered, lockVars, leased, spent, voided>>

\* A lock that does not exclude anybody.
EnterBusy(r) ==
  /\ At(r, "waiting")
  /\ inside' = inside \cup {r}
  /\ Goto(r, "running")
  /\ UNCHANGED <<hash, status, sess, minted, delivered, unlocked, exposed, leased, spent, voided>>

\* withLock got the lock.
EnterLocked(r) ==
  /\ At(r, "waiting")
  /\ Lease!Enter(r)
  /\ Goto(r, "running")
  /\ UNCHANGED <<hash, status, sess, minted, delivered, unlocked, exposed, leased, spent, voided>>

\* History: request r is in its critical section without a lease.
Expose(r) ==
  /\ unlocked' = unlocked \cup {r}
  /\ exposed' = TRUE
  /\ spent' = {}
  /\ voided' = {}

\* withLock gave up and runs fn anyway (an answer that came after the key had
\* expired counts as well).
EnterUnlocked(r) ==
  /\ At(r, "waiting")
  /\ Goto(r, "running")
  /\ Expose(r)
  /\ UNCHANGED <<hash, status, sess, minted, delivered, inside, leased>>

\* The key's TTL runs out under the request that is inside.
Lapse(r) ==
  /\ r \in inside
  /\ Lease!Leave
  /\ Expose(r)
  /\ UNCHANGED <<hash, status, sess, minted, delivered, req, leased>>

\* rotateRefreshToken reads the user and compares the token with the hash.
ReadUser(r) ==
  /\ At(r, "running") /\ req[r].op = "refresh"
  /\ Goto(r, IF status # "ACTIVE" \/ hash = None THEN "leaving"
             ELSE IF hash = req[r].tok THEN "verified" ELSE "replayed")
  /\ UNCHANGED <<hash, status, sess, minted, delivered, lockVars, leased, spent, voided>>

\* History: reuse has been detected.  Every token so far is suspect, but for one that
\* a login is about to install.
Void ==
  voided' = IF exposed THEN {}
            ELSE voided \cup {t \in 1..Len(minted) :
                               \A r \in Requests : At(r, "installing") => req[r].next # t}

\* Reuse detected, and the hash left to the purge of the sessions.
KeepReplayed(r) ==
  /\ At(r, "replayed")
  /\ Void
  /\ Goto(r, "purging")
  /\ UNCHANGED <<hash, status, sess, minted, delivered, lockVars, leased, spent>>

\* Reuse detected: the hash goes first ...
ClearReplayed(r) ==
  /\ At(r, "replayed")
  /\ hash' = None
  /\ leased' = (r \notin unlocked)
  /\ Void
  /\ Goto(r, "purging")
  /\ UNCHANGED <<status, sess, minted, delivered, lockVars, spent>>

\* ... and then the sessions.
PurgeSessions(r) ==
  /\ At(r, "purging")
  /\ sess' = Revoked({})
  /\ Goto(r, "leaving")
  /\ UNCHANGED <<hash, status, minted, delivered, lockVars, leased, spent, voided>>

\* The latest token of session s.  A JWT has only its second of issue to tell it
\* from the other tokens of its session, so signing again within the second
\* gives this very token.
Latest(s) ==
  {t \in 1..Len(minted) :
     minted[t] = s /\ \A u \in 1..Len(minted) : minted[u] = s => u <= t}

\* issueTokens for the session of the token that r presented.
Issue(r) ==
  LET s == minted[req[r].tok]
  IN  \/ /\ Len(minted) < MaxTokens
         /\ minted' = Append(minted, s)
         /\ Hand(r, "rotating", Len(minted) + 1)
      \/ /\ minted' = minted
         /\ \E t \in Latest(s) : Hand(r, "rotating", t)

\* The lock kept for the read only: released before the new hash is stored.
ReleaseEarly(r) ==
  /\ At(r, "verified")
  /\ Issue(r)
  /\ inside' = inside \ {r}
  /\ UNCHANGED <<hash, status, sess, delivered, unlocked, exposed, leased, spent, voided>>

\* A rotation that does not look at the session row.
CheckNothing(r) ==
  /\ At(r, "verified")
  /\ Issue(r)
  /\ UNCHANGED <<hash, status, sess, delivered, lockVars, leased, spent, voided>>

\* The session must not be revoked; then new tokens are signed for it.
CheckSession(r) ==
  /\ At(r, "verified")
  /\ IF sess[minted[req[r].tok]] = "active"
     THEN Issue(r)
     ELSE Goto(r, "leaving") /\ minted' = minted
  /\ UNCHANGED <<hash, status, sess, delivered, lockVars, leased, spent, voided>>

\* updateRefreshTokenHash of a rotation.
StoreHash(r) ==
  /\ At(r, "rotating")
  /\ hash' = req[r].next
  /\ leased' = FALSE
  /\ spent' = IF exposed THEN {} ELSE spent \cup ({req[r].tok} \ {req[r].next})
  /\ Goto(r, "leaving")
  /\ UNCHANGED <<status, sess, minted, delivered, lockVars, voided>>

\* A revocation that does not wait for the lock.
ClearUnlocked(r) ==
  /\ req[r].at \in {"waiting", "running"} /\ req[r].op \in {"logout", "revoke", "delete"}
  /\ hash' = None
  /\ leased' = (r \notin unlocked)
  /\ status' = IF req[r].op = "delete" THEN "DELETED" ELSE status
  /\ sess' = IF req[r].op = "revoke" THEN Revoked({}) ELSE sess
  /\ Goto(r, "leaving")
  /\ UNCHANGED <<minted, delivered, lockVars, spent, voided>>

\* The one database transaction of each clearing handler.
ClearHash(r) ==
  /\ At(r, "running") /\ req[r].op \in {"logout", "revoke", "delete"}
  /\ hash' = None
  /\ leased' = (r \notin unlocked)
  /\ status' = IF req[r].op = "delete" THEN "DELETED" ELSE status
  /\ sess' = IF req[r].op = "revoke" THEN Revoked({}) ELSE sess
  /\ Goto(r, "leaving")
  /\ UNCHANGED <<minted, delivered, lockVars, spent, voided>>

\* withLock's finally: the lock is released before the caller goes on.
LeaveLock(r) ==
  /\ At(r, "leaving")
  /\ inside' = inside \ {r}
  /\ unlocked' = unlocked \ {r}
  /\ \/ req[r].next # None /\ Goto(r, "replying")
     \/ req[r].op = "delete" /\ Goto(r, "tidying")
     \/ req[r].next = None /\ req[r].op # "delete" /\ Done(r)
  /\ UNCHANGED <<hash, status, sess, minted, delivered, exposed, leased, spent, voided>>

\* deleteUser revokes the sessions once it is out of the lock.
TidySessions(r) ==
  /\ At(r, "tidying")
  /\ sess' = Revoked({})
  /\ Done(r)
  /\ UNCHANGED <<hash, status, minted, delivered, lockVars, leased, spent, voided>>
-----------------------------------------------------------------------------
(* Handlers of one step, failures *)

\* revokeSession.
RevokeSession(s) ==
  /\ sess[s] = "active"
  /\ sess' = [sess EXCEPT ![s] = "revoked"]
  /\ UNCHANGED <<hash, status, minted, delivered, lockVars, req, leased, spent, voided>>

\* revokeAllSessions from a client whose own session, if its token names one, is kept.
RevokeOthers ==
  /\ \E keep \in {{}} \cup {{s} : s \in Sessions} : sess' = Revoked(keep)
  /\ UNCHANGED <<hash, status, minted, delivered, lockVars, req, leased, spent, voided>>

\* The admin sets the status, touching neither hash nor sessions.
SetStatus ==
  /\ status' \in Statuses
  /\ UNCHANGED <<hash, sess, minted, delivered, lockVars, req, leased, spent, voided>>

\* A database call of the request rejects (its effect, if it had one, is the
\* step before): the exception goes through withLock's finally.
Fail(r) ==
  /\ UNCHANGED <<hash, status, sess, minted, delivered, lockVars, leased, spent, voided>>
  /\ \/ /\ req[r].at \in Section
        /\ req' = [req EXCEPT ![r].at = "leaving", ![r].op = "none", ![r].next = None]
     \/ /\ req[r].at \in {"restoring", "recording", "installing", "tidying"}
        /\ Done(r)

\* The server dies with every request in it.
Crash ==
  /\ \E r \in Requests : ~At(r, "idle")
  /\ req' = [r \in Requests |-> Idle]
  /\ inside' = {}
  /\ unlocked' = {}
  /\ UNCHANGED <<hash, status, sess, minted, delivered, exposed, leased, spent, voided>>

LoginStep(r) == Login(r) \/ Restore(r) \/ Reactivate(r) \/ RecordSession(r) \/ InstallHash(r)

RefreshStep(r) ==
  \/ Refresh(r) \/ ReadUser(r) \/ ClearReplayed(r) \/ PurgeSessions(r)
  \/ CheckSession(r) \/ StoreHash(r)

ClearStep(r) == Clearing(r) \/ ClearHash(r) \/ TidySessions(r)

LockStep(r) == EnterLocked(r) \/ EnterUnlocked(r) \/ Lapse(r) \/ LeaveLock(r)

Next ==
  \/ \E r \in Requests :
       LoginStep(r) \/ RefreshStep(r) \/ ClearStep(r) \/ LockStep(r) \/ Reply(r) \/ Fail(r)
  \/ \E s \in Sessions : RevokeSession(s)
  \/ RevokeOthers
  \/ SetStatus
  \/ Crash

Spec == Init /\ [][Next]_vars
-----------------------------------------------------------------------------
(* Properties *)

\* Only requests in their critical section hold the lease, one at a time, and a
\* request in there without it is known to be unlocked.
LeaseDiscipline ==
  /\ \A r, q \in inside : r = q
  /\ \A r \in Requests : req[r].at \in Section <=> r \in inside \cup unlocked
  /\ inside \cap unlocked = {}
  /\ unlocked # {} => exposed

Rotating(r) == req[r].at \in {"verified", "rotating"}

\* getNewTokens' comment (auth.service.ts:374-377): no revocation made under the
\* lock finds its way under a locked rotation that has already read the hash.
NoRevocationUnderneath ==
  /\ leased => hash = None
  /\ \A r \in inside : Rotating(r) => ~leased

\* The tokens a request or the user row refers to have been signed.
TokensExist ==
  /\ hash <= Len(minted)
  /\ \A t \in delivered : t <= Len(minted)
  /\ \A r \in Requests :
       /\ req[r].tok <= Len(minted) /\ req[r].next <= Len(minted)
       /\ req[r].op = "refresh" => req[r].tok # None
       /\ Rotating(r) => req[r].op = "refresh"
       /\ req[r].at \in {"rotating", "installing", "replying"} => req[r].next # None

\* Rotation keeps a token in its session and moves forward; a token a login has
\* signed for its new session is known to nobody before it is installed.
Custody ==
  /\ \A t \in 1..Len(minted) : sess[minted[t]] # "none"
  /\ \A r \in Requests :
       /\ req[r].tok # None => req[r].tok \in delivered
       /\ req[r].op \in {"none", "logout", "revoke", "delete"} => req[r].next = None
       /\ req[r].op = "refresh" /\ req[r].next # None =>
            req[r].tok <= req[r].next /\ minted[req[r].next] = minted[req[r].tok]
       /\ req[r].barred => req[r].tok # None /\ sess[minted[req[r].tok]] = "revoked"
       /\ req[r].at \in {"restoring", "recording", "installing"} => req[r].op = "login"
       /\ At(r, "installing") =>
            /\ req[r].next \notin delivered
            /\ \A t \in 1..Len(minted) : minted[t] = minted[req[r].next] => t = req[r].next
            /\ \A q \in Requests \ {r} : req[q].op = "login" => req[q].next # req[r].next

\* Refresh tokens move forward: a replaced token has a later one in its session,
\* and neither the stored hash nor a rotation goes back to it.
Succession ==
  /\ exposed => spent = {}
  /\ \A t \in spent :
       t \in delivered /\ \E u \in 1..Len(minted) : t < u /\ minted[u] = minted[t]
  /\ hash \notin spent
  /\ \A r \in Requests :
       /\ Rotating(r) => req[r].tok \notin spent
       /\ At(r, "rotating") => req[r].next \notin spent

\* The tokens a detected reuse has voided: of a session all up to some point, none of
\* them stored, being rotated or about to be stored.
Outlawed ==
  /\ exposed => voided = {}
  /\ \A t \in voided :
       /\ t <= Len(minted)
       /\ \A u \in 1..t : minted[u] = minted[t] => u \in voided
  /\ hash \notin voided
  /\ \A r \in Requests :
       /\ Rotating(r) => req[r].tok \notin voided
       /\ req[r].at \in {"rotating", "installing"} => req[r].next \notin voided

\* The inductive invariant: the critical sections and the tokens they handle.
Sections ==
  /\ TypeOK /\ LeaseDiscipline /\ NoRevocationUnderneath
  /\ TokensExist /\ Custody /\ Succession /\ Outlawed

\* "Un-revoking" (auth.service.ts:374-377): a cleared hash comes back only by a
\* login, or when the rotation or the clearing ran without the lock.
NoUnrevocation ==
  [][leased /\ hash' # None =>
       \E r \in Requests : At(r, "installing") \/ (At(r, "rotating") /\ r \in unlocked)]_vars

\* Rotation makes a refresh token good for one exchange: as long as the lock has
\* always worked, no rotation is under way for a token another one has replaced.
SingleUse ==
  \A r \in Requests : Rotating(r) => req[r].tok \notin spent

\* A session revoked before the refresh request began never gets tokens from it,
\* lock or no lock.
RevokedSessionStaysOut ==
  \A r \in Requests : At(r, "rotating") => ~req[r].barred

\* Reuse detection (auth.service.ts:409-416) shuts out whoever holds a token of that
\* moment, on any device, although the handler may fail or die between its two writes:
\* while the lock has always worked, no such token is exchanged for new ones again.
ReuseShutsOut ==
  \A r \in Requests : At(r, "rotating") => req[r].tok \notin voided

\* The first token of its session, which a login has signed.
FromLogin(t) == t # None /\ \A u \in 1..Len(minted) : minted[u] = minted[t] => t <= u

\* A rotation under the lock exchanges the token presented for the new one; what it
\* may overwrite instead is the token of a login, which does not take the lock.
RotationExchanges ==
  [][\A r \in inside : At(r, "rotating") /\ req'[r].at = "leaving" /\ hash' # hash /\ ~exposed =>
       hash = req[r].tok \/ FromLogin(hash)]_vars

\* The comment at auth.service.ts:409-412: in the reuse branch "a previously-rotated
\* token was replayed".
ReuseMeansRotated ==
  \A r \in Requests : At(r, "replayed") /\ ~exposed => req[r].tok \in spent

=============================================================================
