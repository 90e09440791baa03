------------------------- MODULE AuthSessionsProofs -------------------------
(***************************************************************************)
(* Proofs about AuthSessions, for every number of requests, sessions and   *)
(* tokens.                                                                 *)
(***************************************************************************)
EXTENDS AuthSessions, SequenceTheorems, TLAPS

USE MaxTokensAssumption

\* What Append does to the tokens signed so far.
LEMMA Signing ==
  ASSUME TypeOK, NEW s \in Sessions, Len(minted) < MaxTokens
  PROVE  /\ Append(minted, s) \in Seq(Sessions)
         /\ Len(minted) \in Nat
         /\ Len(Append(minted, s)) = Len(minted) + 1
         /\ Len(minted) + 1 \in Tokens
         /\ \A t \in 1..Len(minted) : Append(minted, s)[t] = minted[t]
         /\ Append(minted, s)[Len(minted) + 1] = s
BY AppendProperties, LenProperties DEF TypeOK, Tokens

\* A request stays a request under each of the updates the steps make.
LEMMA Starting ==
  ASSUME TypeOK, NEW r \in Requests, NEW o \in Ops, NEW t \in {None} \cup Tokens,
         NEW l \in PCs, Start(r, o, t, l)
  PROVE  req' \in [Requests -> Request]
<1> DEFINE b == t # None /\ sess[minted[t]] = "revoked"
<1>1. b \in BOOLEAN
  OBVIOUS
<1>2. [at |-> l, op |-> o, tok |-> t, next |-> None, barred |-> b] \in Request
  BY <1>1 DEF Request
<1> QED BY <1>2 DEF Start, TypeOK

LEMMA Moving ==
  ASSUME TypeOK, NEW r \in Requests, NEW l \in PCs, Goto(r, l)
  PROVE  req' \in [Requests -> Request]
BY DEF Goto, Request, TypeOK

LEMMA Ending ==
  ASSUME TypeOK, NEW r \in Requests, Done(r)
  PROVE  req' \in [Requests -> Request]
<1>1. Idle \in Request
  BY DEF Idle, Request, PCs, Ops, None
<1> QED BY <1>1 DEF Done, TypeOK

LEMMA Handing ==
  ASSUME TypeOK, NEW r \in Requests, NEW l \in PCs, NEW n \in {None} \cup Tokens, Hand(r, l, n)
  PROVE  req' \in [Requests -> Request]
<1>1. [req[r] EXCEPT !.at = l, !.next = n] \in Request
  BY DEF Request, TypeOK
<1>2. req' = [req EXCEPT ![r] = [req[r] EXCEPT !.at = l, !.next = n]]
  BY DEF Hand, TypeOK
<1> QED BY <1>1, <1>2 DEF TypeOK

LEMMA Failing ==
  ASSUME TypeOK, NEW r \in Requests, Fail(r)
  PROVE  req' \in [Requests -> Request]
<1>1. CASE Done(r)
  BY <1>1, Ending
<1>2. CASE req' = [req EXCEPT ![r].at = "leaving", ![r].op = "none", ![r].next = None]
  <2>1. [req[r] EXCEPT !.at = "leaving", !.op = "none", !.next = None] \in Request
    <3>1. req[r] \in Request
      BY DEF TypeOK
    <3>2. "leaving" \in PCs /\ "none" \in Ops
      BY DEF PCs, Section, Ops
    <3> QED BY <3>1, <3>2 DEF Request
  <2>2. req' = [req EXCEPT ![r] = [req[r] EXCEPT !.at = "leaving", !.op = "none", !.next = None]]
    BY <1>2 DEF TypeOK
  <2> QED BY <2>1, <2>2 DEF TypeOK
<1> QED BY <1>1, <1>2 DEF Fail

LEMMA InitTypeOK == Init => TypeOK
<1> SUFFICES ASSUME Init PROVE TypeOK
  OBVIOUS
<1>1. minted \in Seq(Sessions) /\ Len(minted) <= MaxTokens
  BY EmptySeq DEF Init
<1>2. req \in [Requests -> Request]
  BY DEF Init, Idle, Request, PCs, Section, Ops, None
<1> QED BY <1>1, <1>2 DEF Init, TypeOK, Statuses, SessionStates, None

\* Every step preserves the types.
LEMMA NextTypeOK == TypeOK /\ TokensExist /\ [Next]_vars => TypeOK'
<1> SUFFICES ASSUME TypeOK, TokensExist, [Next]_vars PROVE TypeOK'
  OBVIOUS
<1> DEFINE RequestOK == req' \in [Requests -> Request]
<1> USE DEF PCs, Section, Ops, None, lockVars, At
<1>1. ASSUME NEW r \in Requests, LoginStep(r) PROVE TypeOK'
  <2>1. CASE Login(r) \/ Restore(r)
    <3>1. RequestOK
      BY <2>1, Starting DEF Login, Restore
    <3> QED BY <2>1, <3>1 DEF Login, Restore, TypeOK
  <2>2. CASE Reactivate(r)
    <3>1. RequestOK
      BY <2>2, Moving DEF Reactivate
    <3> QED BY <2>2, <3>1 DEF Reactivate, TypeOK, Statuses
  <2>3. CASE RecordSession(r)
    <3>1. PICK s \in Sessions : sess' = [sess EXCEPT ![s] = "active"] /\ minted' = Append(minted, s)
      BY <2>3 DEF RecordSession
    <3>2. minted' \in Seq(Sessions) /\ Len(minted') <= MaxTokens /\ Len(minted) + 1 \in Tokens
      BY <2>3, <3>1, Signing DEF RecordSession, Tokens
    <3>3. RequestOK
      BY <2>3, <3>2, Handing DEF RecordSession
    <3> QED BY <2>3, <3>1, <3>2, <3>3 DEF RecordSession, TypeOK, SessionStates
  <2>4. CASE InstallHash(r)
    <3>1. RequestOK
      BY <2>4, Moving DEF InstallHash
    <3>2. hash' \in {None} \cup Tokens
      BY <2>4 DEF InstallHash, TypeOK, Request
    <3> QED BY <2>4, <3>1, <3>2 DEF InstallHash, TypeOK
  <2> QED BY <1>1, <2>1, <2>2, <2>3, <2>4 DEF LoginStep
<1>2. ASSUME NEW r \in Requests, RefreshStep(r) PROVE TypeOK'
  <2>1. CASE Refresh(r)
    <3>1. PICK t \in delivered : Start(r, "refresh", t, "waiting")
      BY <2>1 DEF Refresh
    <3>2. RequestOK
      BY <3>1, Starting DEF TypeOK
    <3> QED BY <2>1, <3>2 DEF Refresh, TypeOK
  <2>2. CASE ReadUser(r)
    <3>1. RequestOK
      BY <2>2, Moving DEF ReadUser
    <3> QED BY <2>2, <3>1 DEF ReadUser, TypeOK
  <2>3. CASE ClearReplayed(r)
    <3>1. RequestOK
      BY <2>3, Moving DEF ClearReplayed
    <3>2. voided' \subseteq Tokens
      <4>1. voided \subseteq Tokens /\ 1..Len(minted) \subseteq Tokens
        <5>1. Len(minted) \in Nat /\ Len(minted) <= MaxTokens
          BY LenProperties DEF TypeOK
        <5> QED BY <5>1 DEF TypeOK, Tokens
      <4>2. voided' = {} \/ voided' \subseteq voided \cup 1..Len(minted)
        BY <2>3 DEF ClearReplayed, Void
      <4> QED BY <4>1, <4>2
    <3> QED BY <2>3, <3>1, <3>2 DEF ClearReplayed, TypeOK
  <2>4. CASE PurgeSessions(r)
    <3>1. RequestOK
      BY <2>4, Moving DEF PurgeSessions
    <3> QED BY <2>4, <3>1 DEF PurgeSessions, Revoked, TypeOK, SessionStates
  <2>5. CASE CheckSession(r)
    <3> DEFINE s == minted[req[r].tok]
    <3>1. s \in Sessions
      BY <2>5 DEF CheckSession, TokensExist, Rotating, TypeOK, Request, Tokens
    <3>2. CASE Goto(r, "leaving") /\ minted' = minted
      <4>1. RequestOK
        BY <3>2, Moving
      <4> QED BY <2>5, <3>2, <4>1 DEF CheckSession, TypeOK
    <3>3. CASE /\ Len(minted) < MaxTokens /\ minted' = Append(minted, s)
               /\ Hand(r, "rotating", Len(minted) + 1)
      <4>1. minted' \in Seq(Sessions) /\ Len(minted') <= MaxTokens /\ Len(minted) + 1 \in Tokens
        BY <3>1, <3>3, Signing DEF Tokens
      <4>2. RequestOK
        BY <3>3, <4>1, Handing
      <4> QED BY <2>5, <4>1, <4>2 DEF CheckSession, TypeOK
    <3>4. ASSUME NEW t \in Latest(s), minted' = minted, Hand(r, "rotating", t)
          PROVE  TypeOK'
      <4>1. t \in Tokens
        BY <3>4, LenProperties DEF Latest, Tokens, TypeOK
      <4>2. RequestOK
        BY <3>4, <4>1, Handing
      <4> QED BY <2>5, <3>4, <4>2 DEF CheckSession, TypeOK
    <3> QED BY <2>5, <3>2, <3>3, <3>4 DEF CheckSession, Issue
  <2>6. CASE StoreHash(r)
    <3>1. RequestOK
      BY <2>6, Moving DEF StoreHash
    <3>2. hash' \in {None} \cup Tokens
      BY <2>6 DEF StoreHash, TypeOK, Request
    <3>3. spent' \subseteq Tokens
      BY <2>6 DEF StoreHash, TypeOK, Request, TokensExist, Rotating
    <3> QED BY <2>6, <3>1, <3>2, <3>3 DEF StoreHash, TypeOK
  <2> QED BY <1>2, <2>1, <2>2, <2>3, <2>4, <2>5, <2>6 DEF RefreshStep
<1>3. ASSUME NEW r \in Requests, ClearStep(r) PROVE TypeOK'
  <2>1. RequestOK
    BY <1>3, Starting, Moving, Ending DEF ClearStep, Clearing, ClearHash, TidySessions
  <2> QED BY <1>3, <2>1 DEF ClearStep, Clearing, ClearHash, TidySessions, Revoked, TypeOK, Statuses, SessionStates
<1>4. ASSUME NEW r \in Requests, LockStep(r) PROVE TypeOK'
  <2>1. RequestOK
    BY <1>4, Moving, Ending DEF LockStep, EnterLocked, EnterUnlocked, Lapse, LeaveLock, TypeOK
  <2> QED BY <1>4, <2>1 DEF LockStep, EnterLocked, EnterUnlocked, Lapse, LeaveLock, Expose,
                           Lease!Enter, Lease!Leave, TypeOK
<1>5. ASSUME NEW r \in Requests, Reply(r) PROVE TypeOK'
  <2>1. RequestOK
    BY <1>5, Ending DEF Reply
  <2>2. req[r].next \in Tokens
    BY <1>5 DEF Reply, TokensExist, TypeOK, Request
  <2> QED BY <1>5, <2>1, <2>2 DEF Reply, TypeOK
<1>6. ASSUME NEW r \in Requests, Fail(r) PROVE TypeOK'
  <2>1. RequestOK
    BY <1>6, Failing
  <2> QED BY <1>6, <2>1 DEF Fail, TypeOK
<1>7. CASE (\E s \in Sessions : RevokeSession(s)) \/ RevokeOthers \/ SetStatus
  BY <1>7 DEF RevokeSession, RevokeOthers, SetStatus, Revoked, TypeOK, Statuses, SessionStates
<1>8. CASE Crash
  <2>1. Idle \in Request
    BY DEF Idle, Request
  <2> QED BY <1>8, <2>1 DEF Crash, TypeOK
<1>9. CASE UNCHANGED vars
  BY <1>9 DEF vars, TypeOK
<1> QED BY <1>1, <1>2, <1>3, <1>4, <1>5, <1>6, <1>7, <1>8, <1>9 DEF Next

-----------------------------------------------------------------------------
\* What the updates leave of a request.
LEMMA Moved ==
  ASSUME TypeOK, NEW r \in Requests, NEW l, Goto(r, l)
  PROVE  \A q \in Requests :
           /\ req'[q].at = IF q = r THEN l ELSE req[q].at
           /\ req'[q].op = req[q].op /\ req'[q].tok = req[q].tok
           /\ req'[q].next = req[q].next /\ req'[q].barred = req[q].barred
BY DEF Goto, TypeOK, Request

LEMMA Ended ==
  ASSUME TypeOK, NEW r \in Requests, Done(r)
  PROVE  \A q \in Requests : req'[q] = IF q = r THEN Idle ELSE req[q]
BY DEF Done, TypeOK

LEMMA Started ==
  ASSUME TypeOK, NEW r \in Requests, NEW o, NEW t, NEW l, Start(r, o, t, l)
  PROVE  /\ req[r].at = "idle"
         /\ \A q \in Requests \ {r} : req'[q] = req[q]
         /\ req'[r].at = l /\ req'[r].op = o /\ req'[r].tok = t /\ req'[r].next = None
         /\ req'[r].barred = (t # None /\ sess[minted[t]] = "revoked")
BY DEF Start, TypeOK, At

LEMMA Handed ==
  ASSUME TypeOK, NEW r \in Requests, NEW l, NEW n, Hand(r, l, n)
  PROVE  /\ \A q \in Requests \ {r} : req'[q] = req[q]
         /\ req'[r].at = l /\ req'[r].next = n
         /\ req'[r].op = req[r].op /\ req'[r].tok = req[r].tok /\ req'[r].barred = req[r].barred
<1>1. req' = [req EXCEPT ![r] = [req[r] EXCEPT !.at = l, !.next = n]]
  BY DEF Hand, TypeOK
<1>2. req[r] \in Request
  BY DEF TypeOK
<1> QED BY <1>1, <1>2 DEF TypeOK, Request

LEMMA Failed ==
  ASSUME TypeOK, NEW r \in Requests, Fail(r)
  PROVE  /\ \A q \in Requests \ {r} : req'[q] = req[q]
         /\ req[r].at \in Section =>
              /\ req'[r].at = "leaving" /\ req'[r].op = "none" /\ req'[r].next = None
              /\ req'[r].tok = req[r].tok /\ req'[r].barred = req[r].barred
         /\ req[r].at \notin Section => req'[r] = Idle
<1>1. CASE /\ req[r].at \in Section
           /\ req' = [req EXCEPT ![r].at = "leaving", ![r].op = "none", ![r].next = None]
  <2>1. req' = [req EXCEPT ![r] = [req[r] EXCEPT !.at = "leaving", !.op = "none", !.next = None]]
    BY <1>1 DEF TypeOK
  <2>2. req'[r] = [req[r] EXCEPT !.at = "leaving", !.op = "none", !.next = None]
    BY <2>1 DEF TypeOK
  <2>3. req[r] \in Request
    BY DEF TypeOK
  <2> QED BY <1>1, <2>1, <2>2, <2>3 DEF TypeOK, Request
<1>2. CASE /\ req[r].at \in {"restoring", "recording", "installing", "tidying"}
           /\ Done(r)
  BY <1>2, Ended DEF Section
<1> QED BY <1>1, <1>2 DEF Fail

-----------------------------------------------------------------------------
LEMMA InitLocking == Init => LeaseDiscipline /\ NoRevocationUnderneath
BY DEF Init, Idle, LeaseDiscipline, NoRevocationUnderneath, Section, Rotating, None

\* The lease and the critical sections keep agreeing.
LEMMA NextLeaseDiscipline == TypeOK /\ LeaseDiscipline /\ [Next]_vars => LeaseDiscipline'
<1> SUFFICES ASSUME TypeOK, LeaseDiscipline, [Next]_vars PROVE LeaseDiscipline'
  OBVIOUS
<1> USE DEF LeaseDiscipline, Section, At
<1>0. ASSUME UNCHANGED lockVars,
             \A q \in Requests : req'[q].at \in Section <=> req[q].at \in Section
      PROVE  LeaseDiscipline'
  BY <1>0 DEF lockVars
<1>1. ASSUME NEW r \in Requests, LoginStep(r) PROVE LeaseDiscipline'
  <2>1. CASE Login(r) \/ Restore(r)
    <3>1. PICK l \in {"recording", "restoring"} : Start(r, "login", None, l)
      BY <2>1 DEF Login, Restore
    <3> QED BY <1>0, <2>1, <3>1, Started DEF Login, Restore
  <2>2. CASE Reactivate(r) \/ InstallHash(r)
    BY <1>0, <2>2, Moved DEF Reactivate, InstallHash
  <2>3. CASE RecordSession(r)
    BY <1>0, <2>3, Handed DEF RecordSession
  <2> QED BY <1>1, <2>1, <2>2, <2>3 DEF LoginStep
<1>2. ASSUME NEW r \in Requests, RefreshStep(r) PROVE LeaseDiscipline'
  <2>1. CASE Refresh(r)
    BY <1>0, <2>1, Started DEF Refresh
  <2>2. CASE ReadUser(r) \/ ClearReplayed(r) \/ PurgeSessions(r) \/ StoreHash(r)
    BY <1>0, <2>2, Moved DEF ReadUser, ClearReplayed, PurgeSessions, StoreHash
  <2>3. CASE CheckSession(r)
    <3>1. CASE Issue(r)
      <4>1. PICK n : Hand(r, "rotating", n)
        BY <3>1 DEF Issue
      <4> QED BY <1>0, <2>3, <4>1, Handed DEF CheckSession
    <3>2. CASE Goto(r, "leaving")
      BY <1>0, <2>3, <3>2, Moved DEF CheckSession
    <3> QED BY <2>3, <3>1, <3>2 DEF CheckSession
  <2> QED BY <1>2, <2>1, <2>2, <2>3 DEF RefreshStep
<1>3. ASSUME NEW r \in Requests, ClearStep(r) PROVE LeaseDiscipline'
  <2>1. CASE Clearing(r)
    BY <1>0, <2>1, Started DEF Clearing
  <2>2. CASE ClearHash(r)
    BY <1>0, <2>2, Moved DEF ClearHash
  <2>3. CASE TidySessions(r)
    BY <1>0, <2>3, Ended DEF TidySessions, Idle
  <2> QED BY <1>3, <2>1, <2>2, <2>3 DEF ClearStep
<1>4. ASSUME NEW r \in Requests, LockStep(r) PROVE LeaseDiscipline'
  <2>1. CASE EnterLocked(r)
    BY <2>1, Moved DEF EnterLocked, Lease!Enter, TypeOK
  <2>2. CASE EnterUnlocked(r)
    BY <2>2, Moved DEF EnterUnlocked, Expose, TypeOK
  <2>3. CASE Lapse(r)
    BY <2>3 DEF Lapse, Expose, Lease!Leave, TypeOK
  <2>4. CASE LeaveLock(r)
    BY <2>4, Moved, Ended DEF LeaveLock, Idle, TypeOK
  <2> QED BY <1>4, <2>1, <2>2, <2>3, <2>4 DEF LockStep
<1>5. ASSUME NEW r \in Requests, Reply(r) PROVE LeaseDiscipline'
  BY <1>0, <1>5, Ended DEF Reply, Idle
<1>6. ASSUME NEW r \in Requests, Fail(r) PROVE LeaseDiscipline'
  <2>1. UNCHANGED lockVars
    BY <1>6 DEF Fail
  <2> QED BY <1>0, <1>6, <2>1, Failed DEF Idle
<1>7. CASE (\E s \in Sessions : RevokeSession(s)) \/ RevokeOthers \/ SetStatus
  BY <1>0, <1>7 DEF RevokeSession, RevokeOthers, SetStatus
<1>8. CASE Crash
  BY <1>8 DEF Crash, Idle
<1>9. CASE UNCHANGED vars
  BY <1>0, <1>9 DEF vars, lockVars
<1> QED BY <1>1, <1>2, <1>3, <1>4, <1>5, <1>6, <1>7, <1>8, <1>9 DEF Next

-----------------------------------------------------------------------------
\* Nothing of what the lock protects comes undone under a locked rotation.
LEMMA NextNoRevocation ==
  TypeOK /\ LeaseDiscipline /\ NoRevocationUnderneath /\ [Next]_vars => NoRevocationUnderneath'
<1> SUFFICES ASSUME TypeOK, LeaseDiscipline, NoRevocationUnderneath, [Next]_vars
             PROVE  NoRevocationUnderneath'
  OBVIOUS
<1> USE DEF NoRevocationUnderneath, Rotating, At, lockVars
<1>0. ASSUME UNCHANGED <<hash, leased>>, inside' \subseteq inside,
             \A q \in Requests : Rotating(q)' => Rotating(q)
      PROVE  NoRevocationUnderneath'
  BY <1>0 DEF TypeOK
<1>1. ASSUME NEW r \in Requests, LoginStep(r) PROVE NoRevocationUnderneath'
  <2>1. CASE Login(r) \/ Restore(r)
    <3>1. PICK l \in {"recording", "restoring"} : Start(r, "login", None, l)
      BY <2>1 DEF Login, Restore
    <3> QED BY <1>0, <2>1, <3>1, Started DEF Login, Restore
  <2>2. CASE Reactivate(r)
    BY <1>0, <2>2, Moved DEF Reactivate
  <2>3. CASE RecordSession(r)
    BY <1>0, <2>3, Handed DEF RecordSession
  <2>4. CASE InstallHash(r)
    BY <2>4 DEF InstallHash
  <2> QED BY <1>1, <2>1, <2>2, <2>3, <2>4 DEF LoginStep
<1>2. ASSUME NEW r \in Requests, RefreshStep(r) PROVE NoRevocationUnderneath'
  <2>1. CASE Refresh(r)
    BY <1>0, <2>1, Started DEF Refresh
  <2>2. CASE ReadUser(r)
    BY <2>2, Moved DEF ReadUser, TypeOK
  <2>3. CASE ClearReplayed(r)
    BY <2>3, Moved DEF ClearReplayed, LeaseDiscipline, Section, TypeOK
  <2>4. CASE PurgeSessions(r)
    BY <1>0, <2>4, Moved DEF PurgeSessions
  <2>5. CASE CheckSession(r)
    <3>1. CASE Issue(r)
      <4>1. PICK n : Hand(r, "rotating", n)
        BY <3>1 DEF Issue
      <4> QED BY <1>0, <2>5, <4>1, Handed DEF CheckSession
    <3>2. CASE Goto(r, "leaving")
      BY <1>0, <2>5, <3>2, Moved DEF CheckSession
    <3> QED BY <2>5, <3>1, <3>2 DEF CheckSession
  <2>6. CASE StoreHash(r)
    BY <2>6 DEF StoreHash
  <2> QED BY <1>2, <2>1, <2>2, <2>3, <2>4, <2>5, <2>6 DEF RefreshStep
<1>3. ASSUME NEW r \in Requests, ClearStep(r) PROVE NoRevocationUnderneath'
  <2>1. CASE Clearing(r)
    BY <1>0, <2>1, Started DEF Clearing
  <2>2. CASE ClearHash(r)
    BY <2>2, Moved DEF ClearHash, LeaseDiscipline, Section, TypeOK
  <2>3. CASE TidySessions(r)
    BY <1>0, <2>3, Ended DEF TidySessions, Idle
  <2> QED BY <1>3, <2>1, <2>2, <2>3 DEF ClearStep
<1>4. ASSUME NEW r \in Requests, LockStep(r) PROVE NoRevocationUnderneath'
  <2>1. CASE EnterLocked(r)
    BY <2>1, Moved DEF EnterLocked, Lease!Enter, TypeOK
  <2>2. CASE EnterUnlocked(r)
    BY <1>0, <2>2, Moved DEF EnterUnlocked, Expose
  <2>3. CASE Lapse(r)
    BY <1>0, <2>3 DEF Lapse, Expose, Lease!Leave
  <2>4. CASE LeaveLock(r)
    BY <1>0, <2>4, Moved, Ended DEF LeaveLock, Idle
  <2> QED BY <1>4, <2>1, <2>2, <2>3, <2>4 DEF LockStep
<1>5. ASSUME NEW r \in Requests, Reply(r) PROVE NoRevocationUnderneath'
  BY <1>0, <1>5, Ended DEF Reply, Idle
<1>6. ASSUME NEW r \in Requests, Fail(r) PROVE NoRevocationUnderneath'
  <2>1. UNCHANGED <<hash, leased, inside>>
    BY <1>6 DEF Fail
  <2> QED BY <1>0, <1>6, <2>1, Failed DEF Idle
<1>7. CASE (\E s \in Sessions : RevokeSession(s)) \/ RevokeOthers \/ SetStatus
  BY <1>0, <1>7 DEF RevokeSession, RevokeOthers, SetStatus
<1>8. CASE Crash
  BY <1>0, <1>8 DEF Crash, Idle
<1>9. CASE UNCHANGED vars
  BY <1>0, <1>9 DEF vars
<1> QED BY <1>1, <1>2, <1>3, <1>4, <1>5, <1>6, <1>7, <1>8, <1>9 DEF Next

-----------------------------------------------------------------------------
TokenInv == TokensExist /\ Custody /\ Succession

\* A request that a step leaves with the tokens it has, or strips of them.
Keeps(q) ==
  \/ req'[q] = Idle
  \/ /\ req'[q].at = "leaving" /\ req'[q].op = "none" /\ req'[q].next = None
     /\ req'[q].tok = req[q].tok /\ req'[q].barred = req[q].barred
  \/ /\ req'[q].tok = req[q].tok /\ req'[q].next = req[q].next
     /\ req'[q].op = req[q].op /\ req'[q].barred = req[q].barred
     /\ \/ req'[q].at = req[q].at
        \/ req'[q].at \in {"running", "purging", "leaving", "tidying"}
        \/ req'[q].at = "recording" /\ req[q].at = "restoring"
        \/ req'[q].at = "replying" /\ req[q].next # None

\* Steps that sign, deliver and store no token keep the token invariants.
LEMMA QuietStep ==
  ASSUME TypeOK, TypeOK', TokenInv,
         UNCHANGED <<minted, delivered>>, hash' \in {hash, None},
         spent' \subseteq spent, exposed' => spent' = {},
         \A s \in Sessions :
           /\ sess'[s] = "none" => sess[s] = "none"
           /\ sess[s] = "revoked" => sess'[s] = "revoked",
         \A q \in Requests : Keeps(q)
  PROVE  TokenInv'
<1> USE DEF TokenInv, TypeOK, Request, Tokens, None
<1>0. Len(minted) \in Nat
  BY LenProperties
<1>1. TokensExist'
  BY <1>0 DEF TokensExist, Keeps, Rotating, Idle
<1>2. Custody'
  <2>1. \A t \in 1..Len(minted) : minted[t] \in Sessions
    BY LenProperties
  <2>2. \A q \in Requests : req[q].tok # None => minted[req[q].tok] \in Sessions
    BY <2>1, <1>0 DEF TokensExist
  <2>3. ASSUME NEW t \in 1..Len(minted) PROVE sess'[minted[t]] # "none"
    <3>1. minted[t] \in Sessions /\ sess[minted[t]] # "none"
      BY <2>1 DEF Custody
    <3> QED BY <3>1
  <2>4. ASSUME NEW q \in Requests, req'[q].at = "installing"
        PROVE  /\ req[q].at = "installing" /\ req'[q].next = req[q].next
    <3>1. Keeps(q) /\ Idle.at # "installing"
      BY DEF Idle
    <3> QED BY <2>4, <3>1 DEF Keeps
  <2>5. ASSUME NEW q \in Requests, NEW r \in Requests \ {q}, req'[r].at = "installing",
               req'[q].op = "login"
        PROVE  req'[q].next # req'[r].next
    BY <2>4, <2>5 DEF Keeps, Idle, Custody, At
  <2>6. ASSUME NEW q \in Requests, req'[q].barred
        PROVE  req'[q].tok # None /\ sess'[minted[req'[q].tok]] = "revoked"
    BY <2>2, <2>6 DEF Keeps, Idle, Custody
  <2>7. ASSUME NEW q \in Requests
        PROVE  /\ req'[q].tok # None => req'[q].tok \in delivered
               /\ req'[q].op \in {"none", "logout", "revoke", "delete"} => req'[q].next = None
               /\ req'[q].op = "refresh" /\ req'[q].next # None =>
                    req'[q].tok <= req'[q].next /\ minted[req'[q].next] = minted[req'[q].tok]
    <3>1. CASE req'[q] = Idle
      BY <3>1 DEF Idle
    <3>2. CASE req'[q].op = "none" /\ req'[q].next = None /\ req'[q].tok = req[q].tok
      BY <3>2 DEF Custody
    <3>3. CASE /\ req'[q].op = req[q].op /\ req'[q].next = req[q].next
               /\ req'[q].tok = req[q].tok
      BY <3>3 DEF Custody
    <3> QED BY <3>1, <3>2, <3>3 DEF Keeps
  <2>8. ASSUME NEW q \in Requests, req'[q].at = "installing"
        PROVE  /\ req'[q].next \notin delivered
               /\ \A t \in 1..Len(minted) : minted[t] = minted[req'[q].next] => t = req'[q].next
    BY <2>4, <2>8 DEF Custody, At
  <2>9. ASSUME NEW q \in Requests, req'[q].at \in {"restoring", "recording", "installing"}
        PROVE  req'[q].op = "login"
    BY <2>9 DEF Keeps, Idle, Custody
  <2> QED BY <2>3, <2>5, <2>6, <2>7, <2>8, <2>9 DEF Custody, At
<1>3. Succession'
  <2>1. hash' \notin spent'
    BY DEF Succession
  <2>2. ASSUME NEW q \in Requests, Rotating(q)'
        PROVE  /\ Rotating(q) /\ req'[q].at = req[q].at
               /\ req'[q].tok = req[q].tok /\ req'[q].next = req[q].next
    <3> HIDE DEF TokenInv, TypeOK, Request, Tokens, None
    <3>1. Keeps(q)
      OBVIOUS
    <3> QED BY <2>2, <3>1 DEF Keeps, Rotating, Idle
  <2>3. ASSUME NEW q \in Requests, Rotating(q)'
        PROVE  /\ req'[q].tok \notin spent'
               /\ req'[q].at = "rotating" => req'[q].next \notin spent'
    BY <2>2, <2>3 DEF Succession, At
  <2>4. \A t \in spent' :
          t \in delivered' /\ \E u \in 1..Len(minted') : t < u /\ minted'[u] = minted'[t]
    BY DEF Succession
  <2> QED BY <2>1, <2>3, <2>4 DEF Succession, Rotating, At
<1> QED BY <1>1, <1>2, <1>3

\* Of the lock, the sessions and the user row, only quiet steps.
LEMMA QuietNext ==
  ASSUME TypeOK, TypeOK', LeaseDiscipline, TokenInv,
         \/ \E r \in Requests : \/ Reactivate(r) \/ ClearReplayed(r) \/ PurgeSessions(r)
                               \/ ClearHash(r) \/ TidySessions(r) \/ LockStep(r) \/ Fail(r)
         \/ \E s \in Sessions : RevokeSession(s)
         \/ RevokeOthers \/ SetStatus \/ Crash \/ UNCHANGED vars
  PROVE  TokenInv'
<1> USE DEF At, lockVars
<1>1. ASSUME NEW r \in Requests, Reactivate(r) PROVE TokenInv'
  <2>1. \A q \in Requests : Keeps(q)
    BY <1>1, Moved DEF Reactivate, Keeps, Rotating
  <2> QED BY <1>1, <2>1, QuietStep DEF Reactivate, TokenInv, Succession
<1>2. ASSUME NEW r \in Requests, ClearReplayed(r) PROVE TokenInv'
  <2>1. \A q \in Requests : Keeps(q)
    BY <1>2, Moved DEF ClearReplayed, Keeps, Rotating
  <2> QED BY <1>2, <2>1, QuietStep DEF ClearReplayed, TokenInv, Succession
<1>3. ASSUME NEW r \in Requests, PurgeSessions(r) PROVE TokenInv'
  <2>1. \A q \in Requests : Keeps(q)
    BY <1>3, Moved DEF PurgeSessions, Keeps, Rotating
  <2> QED BY <1>3, <2>1, QuietStep DEF PurgeSessions, Revoked, TokenInv, Succession
<1>4. ASSUME NEW r \in Requests, ClearHash(r) PROVE TokenInv'
  <2>1. \A q \in Requests : Keeps(q)
    BY <1>4, Moved DEF ClearHash, Keeps, Rotating
  <2> QED BY <1>4, <2>1, QuietStep DEF ClearHash, Revoked, TokenInv, Succession
<1>5. ASSUME NEW r \in Requests, TidySessions(r) PROVE TokenInv'
  <2>1. \A q \in Requests : Keeps(q)
    BY <1>5, Ended DEF TidySessions, Keeps
  <2> QED BY <1>5, <2>1, QuietStep DEF TidySessions, Revoked, TokenInv, Succession
<1>6. ASSUME NEW r \in Requests, LockStep(r) PROVE TokenInv'
  <2>1. CASE EnterLocked(r)
    <3>1. \A q \in Requests : Keeps(q)
      BY <2>1, Moved DEF EnterLocked, Keeps, Rotating
    <3> QED BY <2>1, <3>1, QuietStep DEF EnterLocked, TokenInv, Succession
  <2>2. CASE EnterUnlocked(r)
    <3>1. \A q \in Requests : Keeps(q)
      BY <2>2, Moved DEF EnterUnlocked, Keeps, Rotating
    <3> QED BY <2>2, <3>1, QuietStep DEF EnterUnlocked, Expose
  <2>3. CASE Lapse(r)
    <3>1. \A q \in Requests : Keeps(q)
      BY <2>3 DEF Lapse, Keeps
    <3> QED BY <2>3, <3>1, QuietStep DEF Lapse, Expose
  <2>4. CASE LeaveLock(r)
    <3>1. \A q \in Requests : Keeps(q)
      BY <2>4, Moved, Ended DEF LeaveLock, Keeps, Rotating
    <3> QED BY <2>4, <3>1, QuietStep DEF LeaveLock, TokenInv, Succession
  <2> QED BY <1>6, <2>1, <2>2, <2>3, <2>4 DEF LockStep
<1>7. ASSUME NEW r \in Requests, Fail(r) PROVE TokenInv'
  <2>1. \A q \in Requests : Keeps(q)
    BY <1>7, Failed DEF Keeps
  <2>2. UNCHANGED <<hash, sess, minted, delivered, spent, exposed>>
    BY <1>7 DEF Fail
  <2> QED BY <2>1, <2>2, QuietStep DEF TokenInv, Succession
<1>8. ASSUME NEW s \in Sessions, RevokeSession(s) PROVE TokenInv'
  <2>1. \A q \in Requests : Keeps(q)
    BY <1>8 DEF RevokeSession, Keeps
  <2>2. \A x \in Sessions : /\ sess'[x] = "none" => sess[x] = "none"
                           /\ sess[x] = "revoked" => sess'[x] = "revoked"
    BY <1>8 DEF RevokeSession, TypeOK
  <2> QED BY <1>8, <2>1, <2>2, QuietStep DEF RevokeSession, TokenInv, Succession
<1>9. CASE RevokeOthers
  <2>1. \A q \in Requests : Keeps(q)
    BY <1>9 DEF RevokeOthers, Keeps
  <2> QED BY <1>9, <2>1, QuietStep DEF RevokeOthers, Revoked, TokenInv, Succession
<1>10. CASE SetStatus \/ UNCHANGED vars
  <2>1. \A q \in Requests : Keeps(q)
    BY <1>10 DEF SetStatus, vars, Keeps
  <2> QED BY <1>10, <2>1, QuietStep DEF SetStatus, vars, TokenInv, Succession
<1>11. CASE Crash
  <2>1. \A q \in Requests : Keeps(q)
    BY <1>11 DEF Crash, Keeps
  <2> QED BY <1>11, <2>1, QuietStep DEF Crash, TokenInv, Succession
<1> QED BY <1>1, <1>2, <1>3, <1>4, <1>5, <1>6, <1>7, <1>8, <1>9, <1>10, <1>11

\* A request that begins holds no new token, and the token it presents is one
\* that was delivered.
LEMMA StartStep ==
  ASSUME TypeOK, TypeOK', TokenInv, NEW r \in Requests, NEW o \in Ops,
         NEW t \in {None} \cup delivered, NEW l \in {"recording", "restoring", "waiting"},
         Start(r, o, t, l), o = "refresh" => t # None, l # "waiting" => o = "login",
         UNCHANGED <<hash, sess, minted, delivered, exposed, spent>>
  PROVE  TokenInv'
<1> USE DEF TokenInv, TypeOK, Request, Tokens, None
<1>0. Len(minted) \in Nat
  BY LenProperties
<1>1. /\ \A q \in Requests \ {r} : req'[q] = req[q]
      /\ req'[r].at = l /\ req'[r].op = o /\ req'[r].tok = t /\ req'[r].next = None
      /\ req'[r].barred = (t # None /\ sess[minted[t]] = "revoked")
  BY Started
<1>2. TokensExist'
  BY <1>0, <1>1 DEF TokensExist, Rotating
<1>3. Custody'
  <2>1. ASSUME NEW q \in Requests, req'[q].at = "installing"
        PROVE  q # r /\ \A p \in Requests \ {q} : req'[p].op = "login" => req'[p].next # req'[q].next
    <3>1. q # r /\ req'[q] = req[q] /\ req[q].next # None
      BY <1>1, <2>1 DEF TokensExist
    <3>2. ASSUME NEW p \in Requests \ {q}, req'[p].op = "login" PROVE req'[p].next # req'[q].next
      <4>1. CASE p = r
        BY <1>1, <3>1, <4>1
      <4>2. CASE p # r
        BY <1>1, <2>1, <3>1, <3>2, <4>2 DEF Custody, At
      <4> QED BY <4>1, <4>2
    <3> QED BY <3>1, <3>2
  <2>2. ASSUME NEW q \in Requests, req'[q].barred
        PROVE  req'[q].tok # None /\ sess[minted[req'[q].tok]] = "revoked"
    BY <1>1, <2>2 DEF Custody
  <2>3. ASSUME NEW q \in Requests, req'[q].next # None
        PROVE  q # r /\ req'[q] = req[q]
    BY <1>1, <2>3
  <2>4. \A q \in Requests : req'[q].tok # None => req'[q].tok \in delivered
    BY <1>1 DEF Custody
  <2>5. ASSUME NEW q \in Requests, req'[q].at \in {"restoring", "recording", "installing"}
        PROVE  req'[q].op = "login"
    BY <1>1, <2>5 DEF Custody
  <2> QED BY <2>1, <2>2, <2>3, <2>4, <2>5, <1>1 DEF Custody, At
<1>4. Succession'
  BY <1>0, <1>1 DEF Succession, Rotating, At
<1> QED BY <1>2, <1>3, <1>4

\* A login's token is new, and so is its session.
LEMMA RecordStep ==
  ASSUME TypeOK, TypeOK', TokenInv, NEW r \in Requests, RecordSession(r)
  PROVE  TokenInv'
<1> USE DEF TokenInv, TypeOK, Request, Tokens, None
<1>1. PICK s \in Sessions : /\ sess[s] = "none"
                            /\ sess' = [sess EXCEPT ![s] = "active"]
                            /\ minted' = Append(minted, s)
  BY DEF RecordSession
<1> DEFINE n == Len(minted) + 1
<1>2. /\ Len(minted) \in Nat /\ Len(minted') = n
      /\ \A t \in 1..Len(minted) : minted'[t] = minted[t] /\ minted[t] \in Sessions
      /\ minted'[n] = s
  BY <1>1, Signing, LenProperties DEF RecordSession
<1>3. /\ \A q \in Requests \ {r} : req'[q] = req[q]
      /\ req'[r].at = "installing" /\ req'[r].next = n
      /\ req'[r].op = req[r].op /\ req'[r].tok = req[r].tok /\ req'[r].barred = req[r].barred
  BY Handed DEF RecordSession
<1>4. UNCHANGED <<hash, delivered, exposed, spent>> /\ req[r].at = "recording"
  BY DEF RecordSession, lockVars, At
<1>5. TokensExist'
  <2>1. TokensExist /\ \A q \in Requests : req[q].tok \in Nat /\ req[q].next \in Nat
    OBVIOUS
  <2>2. hash \in Nat /\ \A t \in delivered : t \in Nat
    OBVIOUS
  <2> HIDE DEF TokenInv, TypeOK, Request, Tokens
  <2>3. ASSUME NEW q \in Requests
        PROVE  /\ req'[q].tok <= n /\ req'[q].next <= n
               /\ req'[q].op = "refresh" => req'[q].tok # None
               /\ Rotating(q)' => req'[q].op = "refresh"
               /\ req'[q].at \in {"rotating", "installing", "replying"} => req'[q].next # None
    <3>1. CASE q = r
      BY <1>2, <1>3, <2>1, <3>1 DEF TokensExist, Rotating
    <3>2. CASE q # r
      BY <1>2, <1>3, <2>1, <3>2 DEF TokensExist, Rotating
    <3> QED BY <3>1, <3>2
  <2>4. hash' <= n /\ \A t \in delivered' : t <= n
    BY <1>2, <1>4, <2>1, <2>2 DEF TokensExist
  <2> QED BY <1>2, <2>3, <2>4 DEF TokensExist
<1>6. Custody'
  <2>1. req[r].op = "login" /\ req[r].op # "refresh"
    BY <1>4 DEF Custody
  <2>2. \A t \in 1..Len(minted) : minted[t] # s /\ sess'[minted[t]] = sess[minted[t]]
    BY <1>1, <1>2 DEF Custody
  <2>3. \A t \in 1..n : sess'[minted'[t]] # "none"
    <3>1. sess'[s] = "active"
      BY <1>1
    <3> QED BY <1>2, <2>2, <3>1 DEF Custody
  <2>4. ASSUME NEW q \in Requests
        PROVE  /\ req'[q].tok = req[q].tok /\ req'[q].barred = req[q].barred
               /\ req'[q].op = req[q].op
               /\ req[q].tok # None => req[q].tok \in 1..Len(minted)
               /\ req[q].next # None => req[q].next \in 1..Len(minted)
    <3>1. TokensExist /\ req[q].tok \in Nat /\ req[q].next \in Nat
      OBVIOUS
    <3> HIDE DEF TokenInv, TypeOK, Request, Tokens
    <3> QED BY <1>2, <1>3, <3>1 DEF TokensExist
  <2>5. ASSUME NEW q \in Requests, req'[q].barred
        PROVE  req'[q].tok # None /\ sess'[minted'[req'[q].tok]] = "revoked"
    BY <1>2, <2>2, <2>4, <2>5 DEF Custody
  <2>6. ASSUME NEW q \in Requests, req'[q].op # "login"
        PROVE  q # r /\ req'[q] = req[q]
    BY <2>1, <1>3, <2>6
  <2>7. ASSUME NEW q \in Requests, req'[q].op = "refresh", req'[q].next # None
        PROVE  req'[q].tok <= req'[q].next /\ minted'[req'[q].next] = minted'[req'[q].tok]
    <3>1. req'[q] = req[q] /\ req[q].op = "refresh" /\ req[q].next # None
      BY <2>6, <2>7
    <3>2. req[q].tok \in 1..Len(minted) /\ req[q].next \in 1..Len(minted)
      BY <2>4, <3>1 DEF TokensExist
    <3>3. req[q].tok <= req[q].next /\ minted[req[q].next] = minted[req[q].tok]
      BY <3>1 DEF Custody
    <3> QED BY <1>2, <3>1, <3>2, <3>3
  <2>8. ASSUME NEW q \in Requests, req'[q].at = "installing"
        PROVE  /\ req'[q].next \notin delivered
               /\ \A t \in 1..n : minted'[t] = minted'[req'[q].next] => t = req'[q].next
               /\ \A p \in Requests \ {q} : req'[p].op = "login" => req'[p].next # req'[q].next
    <3>1. CASE q = r
      <4>1. req'[q].next = n /\ minted'[n] = s
        BY <1>2, <1>3, <3>1
      <4>2. n \notin delivered
        BY <1>2 DEF TokensExist
      <4>3. \A t \in 1..n : minted'[t] = s => t = n
        BY <1>2, <2>2
      <4>4. \A p \in Requests \ {q} : req'[p].next # n
        BY <1>2, <1>3, <2>4, <3>1
      <4> QED BY <4>1, <4>2, <4>3, <4>4
    <3>2. CASE q # r
      <4>1. req'[q] = req[q] /\ req[q].next \in 1..Len(minted)
        BY <3>2, <2>8, <1>3, <2>4 DEF TokensExist
      <4>2. \A t \in 1..n : minted'[t] = minted'[req[q].next] => t = req[q].next
        BY <1>2, <2>2, <2>8, <4>1 DEF Custody, At
      <4>3. ASSUME NEW p \in Requests \ {q}, req'[p].op = "login"
            PROVE  req'[p].next # req'[q].next
        <5>1. CASE p = r
          BY <1>2, <1>3, <4>1, <5>1
        <5>2. CASE p # r
          BY <1>3, <2>8, <4>1, <4>3, <5>2 DEF Custody, At
        <5> QED BY <5>1, <5>2
      <4> QED BY <2>8, <4>1, <4>2, <4>3 DEF Custody, At
    <3> QED BY <3>1, <3>2
  <2>9. ASSUME NEW q \in Requests, req'[q].at \in {"restoring", "recording", "installing"}
        PROVE  req'[q].op = "login"
    <3>1. CASE q = r
      BY <1>3, <2>1, <3>1
    <3>2. CASE q # r
      BY <1>3, <2>9, <3>2 DEF Custody
    <3> QED BY <3>1, <3>2
  <2>10. ASSUME NEW q \in Requests
         PROVE  /\ req'[q].tok # None => req'[q].tok \in delivered
                /\ req'[q].op \in {"none", "logout", "revoke", "delete"} => req'[q].next = None
    BY <2>4, <2>6 DEF Custody
  <2> QED BY <1>2, <1>4, <2>3, <2>5, <2>7, <2>8, <2>9, <2>10 DEF Custody, At
<1>7. Succession'
  <2>1. Succession /\ TokensExist /\ \A t \in spent : t \in Nat
    OBVIOUS
  <2>2. \A t \in delivered : t \in 1..Len(minted)
    BY <1>2, <2>1 DEF TokensExist
  <2> HIDE DEF TokenInv, TypeOK, Request, Tokens
  <2>3. \A t \in spent :
          t \in delivered /\ \E u \in 1..n : t < u /\ minted'[u] = minted'[t]
    BY <1>2, <2>1, <2>2 DEF Succession
  <2>4. ASSUME NEW q \in Requests
        PROVE  /\ Rotating(q)' => req'[q].tok \notin spent
               /\ req'[q].at = "rotating" => req'[q].next \notin spent
    <3>1. CASE q = r
      BY <1>3, <3>1 DEF Rotating
    <3>2. CASE q # r
      BY <1>3, <2>1, <3>2 DEF Succession, Rotating, At
    <3> QED BY <3>1, <3>2
  <2>5. hash' \notin spent' /\ (exposed' => spent' = {})
    BY <1>4, <2>1 DEF Succession
  <2> QED BY <1>2, <1>4, <2>3, <2>4, <2>5 DEF Succession, At
<1> QED BY <1>5, <1>6, <1>7

\* What a login installs was known to nobody, so it has not been spent.
LEMMA InstallStep ==
  ASSUME TypeOK, TypeOK', TokenInv, NEW r \in Requests, InstallHash(r)
  PROVE  TokenInv'
<1> USE DEF TokenInv, TypeOK, Request, Tokens, None
<1>1. /\ UNCHANGED <<sess, minted, delivered, exposed, spent>> /\ hash' = req[r].next
      /\ req[r].at = "installing" /\ req'[r].at = "replying"
  BY Moved DEF InstallHash, At, lockVars
<1>2. \A q \in Requests : /\ q # r => req'[q].at = req[q].at
                         /\ req'[q].op = req[q].op /\ req'[q].tok = req[q].tok
                         /\ req'[q].next = req[q].next /\ req'[q].barred = req[q].barred
  BY Moved DEF InstallHash
<1>3. TokensExist'
  BY <1>1, <1>2 DEF TokensExist, Rotating
<1>4. Custody'
  <2>1. \A q \in Requests : req'[q].at \in {"restoring", "recording", "installing"} => req'[q].at = req[q].at
    BY <1>1, <1>2
  <2> QED BY <1>1, <1>2, <2>1 DEF Custody, At
<1>5. Succession'
  <2>1. hash' \notin spent'
    BY <1>1 DEF Custody, Succession, At
  <2> QED BY <1>1, <1>2, <2>1 DEF Succession, Rotating, At
<1> QED BY <1>3, <1>4, <1>5

\* Only tokens that are no login's secret are delivered.
LEMMA ReplyStep ==
  ASSUME TypeOK, TypeOK', TokenInv, NEW r \in Requests, Reply(r)
  PROVE  TokenInv'
<1> USE DEF TokenInv, TypeOK, Request, Tokens, None
<1>1. /\ UNCHANGED <<hash, sess, minted, exposed, spent>>
      /\ delivered \subseteq delivered' /\ delivered' \subseteq delivered \cup {req[r].next}
      /\ req[r].at = "replying" /\ req[r].next # None
      /\ req'[r] = Idle /\ \A q \in Requests \ {r} : req'[q] = req[q]
  BY Ended DEF Reply, At, lockVars, TokensExist
<1>2. TokensExist'
  BY <1>1 DEF TokensExist, Rotating, Idle
<1>3. Custody'
  <2>1. ASSUME NEW q \in Requests, req'[q].at = "installing" PROVE q # r /\ req'[q].next # req[r].next
    <3>1. q # r /\ req'[q] = req[q]
      BY <1>1, <2>1 DEF Idle
    <3>2. CASE req[r].op = "login"
      BY <2>1, <3>1, <3>2 DEF Custody, At
    <3>3. CASE req[r].op = "refresh"
      <4>1. /\ req[r].tok \in delivered /\ req[r].tok \in 1..Len(minted)
            /\ minted[req[r].next] = minted[req[r].tok]
        BY <1>1, <3>3 DEF Custody, TokensExist
      <4>2. /\ req[q].next \notin delivered
            /\ \A t \in 1..Len(minted) : minted[t] = minted[req[q].next] => t = req[q].next
        BY <2>1, <3>1 DEF Custody, At
      <4>3. ASSUME req[q].next = req[r].next PROVE FALSE
        <5>1. req[r].tok = req[q].next
          BY <4>1, <4>2, <4>3
        <5> QED BY <4>1, <4>2, <5>1
      <4> QED BY <3>1, <4>3
    <3>4. CASE req[r].op \notin {"login", "refresh"}
      BY <1>1, <3>4 DEF Custody, Ops
    <3> QED BY <3>2, <3>3, <3>4
  <2>2. ASSUME NEW q \in Requests, q = r PROVE req'[q].next = None /\ req'[q].tok = None /\ req'[q].op = "none"
                                                /\ req'[q].at = "idle" /\ ~req'[q].barred
    BY <1>1, <2>2 DEF Idle
  <2>3. ASSUME NEW q \in Requests, req'[q].at = "installing"
        PROVE  /\ req'[q].next \notin delivered'
               /\ \A t \in 1..Len(minted) : minted[t] = minted[req'[q].next] => t = req'[q].next
               /\ \A p \in Requests \ {q} : req'[p].op = "login" => req'[p].next # req'[q].next
    <3>1. req'[q] = req[q] /\ req'[q].next \notin delivered'
      BY <1>1, <2>1, <2>3 DEF Custody, At
    <3>2. \A p \in Requests \ {q} : req'[p].op = "login" => p # r /\ req'[p] = req[p]
      BY <1>1, <2>2
    <3> QED BY <1>1, <2>3, <3>1, <3>2 DEF Custody, At
  <2> QED BY <1>1, <2>2, <2>3 DEF Custody, At
<1>4. Succession'
  BY <1>1 DEF Succession, Rotating, At, Idle
<1> QED BY <1>2, <1>3, <1>4

\* The token that the user row vouches for has not been spent.
LEMMA ReadStep ==
  ASSUME TypeOK, TypeOK', TokenInv, NEW r \in Requests, ReadUser(r)
  PROVE  TokenInv'
<1> USE DEF At, lockVars
<1>1. UNCHANGED <<hash, sess, minted, delivered, exposed, spent>> /\ req[r].op = "refresh"
  BY DEF ReadUser
<1>2. PICK l \in {"leaving", "verified", "replayed"} :
        Goto(r, l) /\ (l = "verified" => hash = req[r].tok)
  BY DEF ReadUser
<1>3. \A q \in Requests : /\ req'[q].at = IF q = r THEN l ELSE req[q].at
                         /\ req'[q].op = req[q].op /\ req'[q].tok = req[q].tok
                         /\ req'[q].next = req[q].next /\ req'[q].barred = req[q].barred
  BY <1>2, Moved
<1>4. TokensExist'
  BY <1>1, <1>3 DEF TokenInv, TokensExist, Rotating
<1>5. Custody'
  <2>1. \A q \in Requests : req'[q].at \in {"restoring", "recording", "installing"} => req'[q].at = req[q].at
    BY <1>3
  <2> QED BY <1>1, <1>3, <2>1 DEF TokenInv, Custody
<1>6. Succession'
  <2>1. ASSUME NEW q \in Requests, Rotating(q)' PROVE req'[q].tok \notin spent
    BY <1>2, <1>3, <2>1 DEF TokenInv, Succession, Rotating
  <2> QED BY <1>1, <1>3, <2>1 DEF TokenInv, Succession, Rotating
<1> QED BY <1>4, <1>5, <1>6 DEF TokenInv

\* Signing for a session moves it forward: what comes next is not spent.
LEMMA CheckStep ==
  ASSUME TypeOK, TypeOK', LeaseDiscipline, TokenInv, NEW r \in Requests, CheckSession(r)
  PROVE  TokenInv'
<1> USE DEF TypeOK, Request, Tokens, None
<1> DEFINE s == minted[req[r].tok]
<1>1. /\ UNCHANGED <<hash, sess, delivered, exposed, spent>>
      /\ req[r].at = "verified" /\ req[r].op = "refresh"
      /\ req[r].tok \in 1..Len(minted) /\ req[r].tok \notin spent
      /\ Len(minted) \in Nat /\ s \in Sessions
  BY LenProperties DEF CheckSession, At, lockVars, TokenInv, TokensExist, Succession, Rotating
<1>2. CASE Goto(r, "leaving") /\ minted' = minted
  <2>1. \A q \in Requests : Keeps(q)
    BY <1>2, Moved DEF Keeps
  <2> QED BY <1>1, <1>2, <2>1, QuietStep DEF TokenInv, Succession
<1>3. ASSUME NEW n \in Tokens, Hand(r, "rotating", n), n \in 1..Len(minted'),
             sess[s] = "active", n \notin spent, req[r].tok <= n, minted'[n] = s,
             Len(minted) <= Len(minted'), Len(minted') \in Nat,
             \A t \in 1..Len(minted) : minted'[t] = minted[t],
             \A t \in 1..Len(minted') : t \in 1..Len(minted) \/ minted'[t] = s
      PROVE  TokenInv'
  <2>1. /\ \A q \in Requests \ {r} : req'[q] = req[q]
        /\ req'[r].at = "rotating" /\ req'[r].next = n
        /\ req'[r].op = "refresh" /\ req'[r].tok = req[r].tok /\ req'[r].barred = req[r].barred
    BY <1>1, <1>3, Handed
  <2>2. TokensExist'
    <3>1. hash' <= Len(minted') /\ \A t \in delivered' : t <= Len(minted')
      BY <1>1, <1>3 DEF TokenInv, TokensExist
    <3>2. ASSUME NEW q \in Requests \ {r}
          PROVE  req'[q].tok <= Len(minted') /\ req'[q].next <= Len(minted')
      <4>1. req'[q] = req[q] /\ req[q].tok \in Nat /\ req[q].next \in Nat
        BY <2>1
      <4>2. req[q].tok <= Len(minted) /\ req[q].next <= Len(minted)
        BY DEF TokenInv, TokensExist
      <4> QED BY <1>1, <1>3, <4>1, <4>2
    <3>3. req'[r].tok <= Len(minted') /\ req'[r].next <= Len(minted')
      BY <1>1, <1>3, <2>1
    <3>4. ASSUME NEW q \in Requests
          PROVE  /\ req'[q].op = "refresh" => req'[q].tok # None
                 /\ Rotating(q)' => req'[q].op = "refresh"
                 /\ req'[q].at \in {"rotating", "installing", "replying"} => req'[q].next # None
      <4>1. CASE q = r
        BY <1>1, <1>3, <2>1, <4>1
      <4>2. CASE q # r
        BY <2>1, <4>2 DEF TokenInv, TokensExist, Rotating
      <4> QED BY <4>1, <4>2
    <3> QED BY <3>1, <3>2, <3>3, <3>4 DEF TokensExist
  <2>3. Custody'
    <3>1. \A t \in 1..Len(minted') : sess'[minted'[t]] # "none"
      BY <1>1, <1>3 DEF TokenInv, Custody
    <3>2. ASSUME NEW q \in Requests
          PROVE  /\ req'[q].tok = req[q].tok /\ req'[q].barred = req[q].barred
                 /\ req'[q].op = req[q].op
                 /\ req[q].tok # None => req[q].tok \in 1..Len(minted)
                 /\ req[q].next # None => req[q].next \in 1..Len(minted)
      BY <1>1, <2>1 DEF TokenInv, TokensExist
    <3>3. ASSUME NEW q \in Requests, req'[q].barred
          PROVE  req'[q].tok # None /\ sess'[minted'[req'[q].tok]] = "revoked"
      BY <1>1, <1>3, <3>2, <3>3 DEF TokenInv, Custody
    <3>4. ASSUME NEW q \in Requests, req'[q].op = "refresh", req'[q].next # None
          PROVE  req'[q].tok <= req'[q].next /\ minted'[req'[q].next] = minted'[req'[q].tok]
      <4>1. CASE q = r
        BY <1>1, <1>3, <2>1, <4>1
      <4>2. CASE q # r
        BY <1>1, <1>3, <2>1, <3>2, <3>4, <4>2 DEF TokenInv, Custody, TokensExist
      <4> QED BY <4>1, <4>2
    <3>5. ASSUME NEW q \in Requests, req'[q].at = "installing"
          PROVE  /\ req'[q].next \notin delivered
                 /\ \A t \in 1..Len(minted') : minted'[t] = minted'[req'[q].next] => t = req'[q].next
                 /\ \A p \in Requests \ {q} : req'[p].op = "login" => req'[p].next # req'[q].next
      <4>1. /\ q # r /\ req'[q] = req[q] /\ req[q].next \in 1..Len(minted)
            /\ req[q].next \notin delivered
            /\ \A t \in 1..Len(minted) : minted[t] = minted[req[q].next] => t = req[q].next
        BY <1>1, <2>1, <3>2, <3>5 DEF TokenInv, Custody, TokensExist, At
      <4>2. minted[req[q].next] # s
        BY <1>1, <4>1 DEF TokenInv, Custody
      <4>3. \A t \in 1..Len(minted') : minted'[t] = minted'[req[q].next] => t = req[q].next
        BY <1>3, <4>1, <4>2
      <4>4. ASSUME NEW p \in Requests \ {q}, req'[p].op = "login"
            PROVE  req'[p].next # req'[q].next
        <5>1. p # r /\ req'[p] = req[p]
          BY <2>1, <4>4
        <5> QED BY <3>5, <4>1, <4>4, <5>1 DEF TokenInv, Custody, At
      <4> QED BY <4>1, <4>3, <4>4
    <3>6. ASSUME NEW q \in Requests
          PROVE  /\ req'[q].tok # None => req'[q].tok \in delivered
                 /\ req'[q].op \in {"none", "logout", "revoke", "delete"} => req'[q].next = None
                 /\ req'[q].at \in {"restoring", "recording", "installing"} => req'[q].op = "login"
      <4>1. CASE q = r
        BY <1>1, <2>1, <4>1 DEF TokenInv, Custody
      <4>2. CASE q # r
        BY <2>1, <4>2 DEF TokenInv, Custody
      <4> QED BY <4>1, <4>2
    <3> QED BY <1>1, <3>1, <3>3, <3>4, <3>5, <3>6 DEF Custody, At
  <2>4. Succession'
    <3>1. \A t \in spent : t \in delivered /\ \E u \in 1..Len(minted') : t < u /\ minted'[u] = minted'[t]
      BY <1>1, <1>3 DEF TokenInv, Succession, TokensExist
    <3>2. ASSUME NEW q \in Requests
          PROVE  /\ Rotating(q)' => req'[q].tok \notin spent
                 /\ req'[q].at = "rotating" => req'[q].next \notin spent
      BY <1>1, <1>3, <2>1 DEF TokenInv, Succession, Rotating, At
    <3> QED BY <1>1, <3>1, <3>2 DEF TokenInv, Succession, At
  <2> QED BY <2>2, <2>3, <2>4 DEF TokenInv
<1>4. CASE /\ sess[s] = "active" /\ Len(minted) < MaxTokens
           /\ minted' = Append(minted, s) /\ Hand(r, "rotating", Len(minted) + 1)
  <2>1. Len(minted) + 1 \notin spent
    BY <1>1 DEF TokenInv, Succession, TokensExist
  <2>2. /\ Len(minted) + 1 \in Tokens /\ Len(minted') = Len(minted) + 1
        /\ \A t \in 1..Len(minted) : minted'[t] = minted[t]
        /\ minted'[Len(minted) + 1] = s
    BY <1>1, <1>4, Signing
  <2> QED BY <1>1, <1>3, <1>4, <2>1, <2>2
<1>5. ASSUME NEW t \in Latest(s), sess[s] = "active", minted' = minted, Hand(r, "rotating", t)
      PROVE  TokenInv'
  <2>1. t \in 1..Len(minted) /\ minted[t] = s /\ req[r].tok <= t
    BY <1>1 DEF Latest
  <2>2. t \notin spent
    BY <2>1 DEF TokenInv, Succession, Latest
  <2> QED BY <1>1, <1>3, <1>5, <2>1, <2>2
<1> QED BY <1>2, <1>4, <1>5 DEF CheckSession, Issue

\* The token a rotation stores is not spent, and the one it replaces is older.
LEMMA StoreStep ==
  ASSUME TypeOK, TypeOK', LeaseDiscipline, TokenInv, NEW r \in Requests, StoreHash(r)
  PROVE  TokenInv'
<1> USE DEF TypeOK, Request, Tokens, None
<1>1. /\ UNCHANGED <<sess, minted, delivered, exposed>> /\ hash' = req[r].next
      /\ req[r].at = "rotating" /\ req'[r].at = "leaving"
      /\ spent' = IF exposed THEN {} ELSE spent \cup ({req[r].tok} \ {req[r].next})
  BY Moved DEF StoreHash, At, lockVars
<1>2. \A q \in Requests : /\ q # r => req'[q].at = req[q].at
                         /\ req'[q].op = req[q].op /\ req'[q].tok = req[q].tok
                         /\ req'[q].next = req[q].next /\ req'[q].barred = req[q].barred
  BY Moved DEF StoreHash
<1>3. /\ req[r].op = "refresh" /\ req[r].tok # None /\ req[r].next # None
      /\ req[r].tok \in delivered /\ req[r].tok \notin spent /\ req[r].next \notin spent
      /\ req[r].tok <= req[r].next /\ minted[req[r].next] = minted[req[r].tok]
      /\ req[r].next \in 1..Len(minted) /\ Len(minted) \in Nat
  BY <1>1, LenProperties DEF TokenInv, TokensExist, Custody, Succession, Rotating, At
<1>4. TokensExist'
  BY <1>1, <1>2, <1>3 DEF TokenInv, TokensExist, Rotating
<1>5. Custody'
  <2>1. \A q \in Requests : req'[q].at \in {"restoring", "recording", "installing"} => req'[q].at = req[q].at
    BY <1>1, <1>2
  <2> QED BY <1>1, <1>2, <2>1 DEF TokenInv, Custody, At
<1>6. Succession'
  <2>1. hash' \notin spent'
    BY <1>1, <1>3
  <2>2. \A t \in spent' :
          t \in delivered /\ \E u \in 1..Len(minted) : t < u /\ minted[u] = minted[t]
    BY <1>1, <1>3 DEF TokenInv, Succession
  <2>3. exposed' => spent' = {}
    BY <1>1
  <2>4. ASSUME NEW q \in Requests, Rotating(q)' PROVE exposed
    BY <1>1, <1>2, <2>4 DEF Rotating, LeaseDiscipline, Section
  <2> QED BY <1>1, <2>1, <2>2, <2>3, <2>4 DEF Succession, Rotating, At
<1> QED BY <1>4, <1>5, <1>6 DEF TokenInv

-----------------------------------------------------------------------------
\* Every step keeps the token invariants.
LEMMA NextTokens == TypeOK /\ TypeOK' /\ LeaseDiscipline /\ TokenInv /\ [Next]_vars => TokenInv'
<1> SUFFICES ASSUME TypeOK, TypeOK', LeaseDiscipline, TokenInv, [Next]_vars PROVE TokenInv'
  OBVIOUS
<1> USE DEF lockVars
<1>1. ASSUME NEW r \in Requests, Login(r) \/ Restore(r) PROVE TokenInv'
  <2>1. \E l \in {"recording", "restoring"} : Start(r, "login", None, l)
    BY <1>1 DEF Login, Restore
  <2> QED BY <1>1, <2>1, StartStep DEF Login, Restore, Ops
<1>2. ASSUME NEW r \in Requests, Refresh(r) PROVE TokenInv'
  <2>1. PICK t \in delivered : Start(r, "refresh", t, "waiting")
    BY <1>2 DEF Refresh
  <2>2. t # None
    BY DEF TypeOK, Tokens, None
  <2> QED BY <1>2, <2>1, <2>2, StartStep DEF Refresh, Ops
<1>3. ASSUME NEW r \in Requests, Clearing(r) PROVE TokenInv'
  <2>1. PICK o \in {"logout", "revoke", "delete"} : Start(r, o, None, "waiting")
    BY <1>3 DEF Clearing
  <2> QED BY <1>3, <2>1, StartStep DEF Clearing, Ops
<1> QED
  BY <1>1, <1>2, <1>3, RecordStep, InstallStep, ReplyStep, ReadStep, CheckStep, StoreStep, QuietNext
  DEF Next, LoginStep, RefreshStep, ClearStep

-----------------------------------------------------------------------------
\* Steps that bring no token near the user row leave the voided tokens outlawed.
LEMMA StillOutlawed ==
  ASSUME TypeOK, TypeOK', Outlawed,
         hash' \in {hash, None}, voided' \in {voided, {}}, exposed' => voided' = {},
         Len(minted) <= Len(minted'), \A t \in 1..Len(minted) : minted'[t] = minted[t],
         \A q \in Requests :
           /\ Rotating(q)' => Rotating(q) /\ req'[q].tok = req[q].tok
           /\ req'[q].at \in {"rotating", "installing"} =>
                req'[q].at = req[q].at /\ req'[q].next = req[q].next
  PROVE  Outlawed'
<1>0. Len(minted) \in Nat /\ Len(minted') \in Nat
  BY LenProperties DEF TypeOK
<1>1. hash' \notin voided'
  BY DEF TypeOK, Outlawed, Tokens, None
<1>2. ASSUME NEW t \in voided'
      PROVE  /\ t <= Len(minted')
             /\ \A u \in 1..t : minted'[u] = minted'[t] => u \in voided'
  <2>1. t \in voided /\ voided' = voided
    BY <1>2
  <2>2. t \in Nat /\ t <= Len(minted)
    BY <2>1 DEF TypeOK, Tokens, Outlawed
  <2> QED BY <1>0, <2>1, <2>2 DEF Outlawed, TypeOK, Tokens
<1>3. ASSUME NEW q \in Requests
      PROVE  /\ Rotating(q)' => req'[q].tok \notin voided'
             /\ req'[q].at \in {"rotating", "installing"} => req'[q].next \notin voided'
  BY <1>3 DEF Outlawed
<1> QED BY <1>1, <1>2, <1>3 DEF Outlawed

\* A detected reuse voids the tokens of that moment: no other rotation is under way,
\* and of a session that a login is about to install there is no other token.
LEMMA VoidStep ==
  ASSUME TypeOK, TypeOK', LeaseDiscipline, TokensExist, Custody, Outlawed,
         NEW r \in Requests, ClearReplayed(r)
  PROVE  Outlawed'
<1>1. /\ UNCHANGED <<minted, exposed>> /\ hash' = None /\ Void /\ req[r].at = "replayed"
      /\ Goto(r, "purging")
  BY DEF ClearReplayed, At, lockVars
<1>4. \A q \in Requests : /\ req'[q].at = IF q = r THEN "purging" ELSE req[q].at
                         /\ req'[q].next = req[q].next
  BY <1>1, Moved
<1>2. CASE exposed
  BY <1>1, <1>2 DEF Outlawed, Void, None
<1>3. CASE ~exposed
  <2> DEFINE fresh == {t \in 1..Len(minted) :
                         \A q \in Requests : At(q, "installing") => req[q].next # t}
  <2>0. voided' = voided \cup fresh /\ Len(minted) \in Nat
    BY <1>1, <1>3, LenProperties DEF Void, TypeOK
  <2>1. hash' \notin voided'
    BY <1>1 DEF TypeOK, Tokens, None
  <2>2. ASSUME NEW q \in Requests PROVE ~Rotating(q)' /\ req'[q].at # "rotating"
    <3>1. r \in inside /\ unlocked = {}
      BY <1>1, <1>3 DEF LeaseDiscipline, Section
    <3>2. q # r => req[q].at \notin Section
      BY <3>1 DEF LeaseDiscipline
    <3> QED BY <1>4, <3>2 DEF Rotating, Section
  <2>3. ASSUME NEW q \in Requests, req'[q].at = "installing" PROVE req'[q].next \notin voided'
    BY <1>4, <2>0, <2>3 DEF Outlawed, At
  <2>4. ASSUME NEW t \in voided', NEW u \in 1..t, minted[u] = minted[t]
        PROVE  t <= Len(minted) /\ u \in voided'
    <3>1. CASE t \in voided
      BY <2>0, <2>4, <3>1 DEF Outlawed
    <3>2. CASE t \in fresh
      <4>1. u \in 1..Len(minted)
        BY <2>0, <3>2
      <4>2. ASSUME NEW q \in Requests, At(q, "installing") PROVE req[q].next # u
        <5>1. req[q].next # t
          BY <3>2, <4>2
        <5>2. \A x \in 1..Len(minted) : minted[x] = minted[req[q].next] => x = req[q].next
          BY <4>2 DEF Custody
        <5> QED BY <2>4, <3>2, <5>1, <5>2
      <4> QED BY <2>0, <3>2, <4>1, <4>2
    <3> QED BY <2>0, <3>1, <3>2
  <2>5. \A t \in voided' : t <= Len(minted)
    BY <2>0 DEF Outlawed
  <2> QED BY <1>1, <1>3, <2>1, <2>2, <2>3, <2>4, <2>5 DEF Outlawed
<1> QED BY <1>2, <1>3

\* A login's token is none of the voided ones.
LEMMA RecordOutlawed ==
  ASSUME TypeOK, TypeOK', Outlawed, NEW r \in Requests, RecordSession(r)
  PROVE  Outlawed'
<1>1. PICK s \in Sessions : minted' = Append(minted, s)
  BY DEF RecordSession
<1>2. /\ Len(minted) \in Nat /\ Len(minted') = Len(minted) + 1
      /\ \A t \in 1..Len(minted) : minted'[t] = minted[t]
  BY <1>1, Signing, LenProperties DEF RecordSession, TypeOK
<1>3. /\ \A q \in Requests \ {r} : req'[q] = req[q]
      /\ req'[r].at = "installing" /\ req'[r].next = Len(minted) + 1
  BY Handed DEF RecordSession
<1>4. UNCHANGED <<hash, exposed, voided>>
  BY DEF RecordSession, lockVars
<1>5. \A t \in voided : t \in Nat /\ t <= Len(minted)
  BY DEF Outlawed, TypeOK, Tokens
<1>6. ASSUME NEW q \in Requests
      PROVE  /\ Rotating(q)' => req'[q].tok \notin voided
             /\ req'[q].at \in {"rotating", "installing"} => req'[q].next \notin voided
  <2>1. CASE q = r
    BY <1>2, <1>3, <1>5, <2>1 DEF Rotating
  <2>2. CASE q # r
    BY <1>3, <2>2 DEF Outlawed, Rotating
  <2> QED BY <2>1, <2>2
<1>7. \A t \in voided : /\ t <= Len(minted')
                        /\ \A u \in 1..t : minted'[u] = minted'[t] => u \in voided
  BY <1>2, <1>5 DEF Outlawed
<1> QED BY <1>4, <1>6, <1>7 DEF Outlawed

\* A token that is not voided is followed by none that is.
LEMMA CheckOutlawed ==
  ASSUME TypeOK, TypeOK', TokensExist, Outlawed, NEW r \in Requests, CheckSession(r)
  PROVE  Outlawed'
<1> DEFINE s == minted[req[r].tok]
<1>1. /\ UNCHANGED <<hash, exposed, voided>>
      /\ req[r].at = "verified" /\ req[r].tok \in 1..Len(minted) /\ req[r].tok \notin voided
      /\ Len(minted) \in Nat /\ s \in Sessions
  BY LenProperties DEF CheckSession, At, lockVars, TokensExist, Outlawed, Rotating, TypeOK, Request,
                       Tokens, None
<1>2. CASE Goto(r, "leaving") /\ minted' = minted
  BY <1>1, <1>2, Moved, StillOutlawed DEF Rotating, Outlawed
<1>3. ASSUME NEW n, Hand(r, "rotating", n), n \notin voided, Len(minted) <= Len(minted'),
             \A t \in 1..Len(minted) : minted'[t] = minted[t], Len(minted') \in Nat
      PROVE  Outlawed'
  <2>1. /\ \A q \in Requests \ {r} : req'[q] = req[q]
        /\ req'[r].at = "rotating" /\ req'[r].next = n /\ req'[r].tok = req[r].tok
    BY <1>3, Handed
  <2>2. ASSUME NEW q \in Requests
        PROVE  /\ Rotating(q)' => req'[q].tok \notin voided
               /\ req'[q].at \in {"rotating", "installing"} => req'[q].next \notin voided
    <3>1. CASE q = r
      BY <1>1, <1>3, <2>1, <3>1
    <3>2. CASE q # r
      BY <2>1, <3>2 DEF Outlawed, Rotating
    <3> QED BY <3>1, <3>2
  <2>3. \A t \in voided : /\ t <= Len(minted')
                          /\ \A u \in 1..t : minted'[u] = minted'[t] => u \in voided
    BY <1>1, <1>3 DEF Outlawed, TypeOK, Tokens
  <2> QED BY <1>1, <2>2, <2>3 DEF Outlawed
<1>4. CASE /\ Len(minted) < MaxTokens /\ minted' = Append(minted, s)
           /\ Hand(r, "rotating", Len(minted) + 1)
  <2>1. /\ Len(minted') = Len(minted) + 1 /\ \A t \in 1..Len(minted) : minted'[t] = minted[t]
    BY <1>1, <1>4, Signing
  <2>2. Len(minted) + 1 \notin voided
    BY <1>1 DEF Outlawed
  <2> QED BY <1>1, <1>3, <1>4, <2>1, <2>2
<1>5. ASSUME NEW t \in Latest(s), minted' = minted, Hand(r, "rotating", t) PROVE Outlawed'
  <2>1. t \in 1..Len(minted) /\ minted[t] = s /\ req[r].tok <= t
    BY <1>1 DEF Latest
  <2>2. t \notin voided
    BY <1>1, <2>1 DEF Outlawed
  <2> QED BY <1>1, <1>3, <1>5, <2>2
<1> QED BY <1>2, <1>4, <1>5 DEF CheckSession, Issue

\* Every step keeps the voided tokens away from the user row.
LEMMA NextOutlawed ==
  TypeOK /\ TypeOK' /\ LeaseDiscipline /\ TokensExist /\ Custody /\ Outlawed /\ [Next]_vars
    => Outlawed'
<1> SUFFICES ASSUME TypeOK, TypeOK', LeaseDiscipline, TokensExist, Custody, Outlawed, [Next]_vars
             PROVE  Outlawed'
  OBVIOUS
<1> USE DEF At, lockVars
<1>0. ASSUME hash' \in {hash, None}, UNCHANGED <<minted, exposed, voided>>,
             \A q \in Requests :
               /\ Rotating(q)' => Rotating(q) /\ req'[q].tok = req[q].tok
               /\ req'[q].at \in {"rotating", "installing"} =>
                    req'[q].at = req[q].at /\ req'[q].next = req[q].next
      PROVE  Outlawed'
  <2>1. exposed' => voided' = {}
    BY <1>0 DEF Outlawed
  <2>2. Len(minted) \in Nat
    BY LenProperties DEF TypeOK
  <2> QED BY <1>0, <2>1, <2>2, StillOutlawed
<1>1. ASSUME NEW r \in Requests, LoginStep(r) PROVE Outlawed'
  <2>1. CASE Login(r) \/ Restore(r)
    <3>1. PICK l \in {"recording", "restoring"} : Start(r, "login", None, l)
      BY <2>1 DEF Login, Restore
    <3> QED BY <1>0, <2>1, <3>1, Started DEF Login, Restore, Rotating
  <2>2. CASE Reactivate(r)
    BY <1>0, <2>2, Moved DEF Reactivate, Rotating
  <2>3. CASE InstallHash(r)
    BY <2>3, Moved DEF InstallHash, Outlawed, Rotating
  <2> QED BY <1>1, <2>1, <2>2, <2>3, RecordOutlawed DEF LoginStep
<1>2. ASSUME NEW r \in Requests, RefreshStep(r) PROVE Outlawed'
  <2>1. CASE Refresh(r)
    BY <1>0, <2>1, Started DEF Refresh, Rotating
  <2>2. CASE ReadUser(r)
    BY <2>2, Moved DEF ReadUser, Outlawed, Rotating
  <2>3. CASE PurgeSessions(r)
    BY <1>0, <2>3, Moved DEF PurgeSessions, Rotating
  <2>4. CASE StoreHash(r)
    BY <2>4, Moved DEF StoreHash, Outlawed, Rotating
  <2> QED BY <1>2, <2>1, <2>2, <2>3, <2>4, VoidStep, CheckOutlawed DEF RefreshStep
<1>3. ASSUME NEW r \in Requests, ClearStep(r) PROVE Outlawed'
  <2>1. CASE Clearing(r)
    BY <1>0, <2>1, Started DEF Clearing, Rotating
  <2>2. CASE ClearHash(r)
    BY <1>0, <2>2, Moved DEF ClearHash, Rotating
  <2>3. CASE TidySessions(r)
    BY <1>0, <2>3, Ended DEF TidySessions, Rotating, Idle
  <2> QED BY <1>3, <2>1, <2>2, <2>3 DEF ClearStep
<1>4. ASSUME NEW r \in Requests, LockStep(r) PROVE Outlawed'
  <2>1. CASE EnterLocked(r)
    BY <1>0, <2>1, Moved DEF EnterLocked, Rotating
  <2>2. CASE EnterUnlocked(r) \/ Lapse(r)
    BY <2>2 DEF EnterUnlocked, Lapse, Expose, Outlawed
  <2>3. CASE LeaveLock(r)
    BY <1>0, <2>3, Moved, Ended DEF LeaveLock, Rotating, Idle
  <2> QED BY <1>4, <2>1, <2>2, <2>3 DEF LockStep
<1>5. ASSUME NEW r \in Requests, Reply(r) PROVE Outlawed'
  BY <1>0, <1>5, Ended DEF Reply, Rotating, Idle
<1>6. ASSUME NEW r \in Requests, Fail(r) PROVE Outlawed'
  <2>1. UNCHANGED <<hash, minted, exposed, voided>>
    BY <1>6 DEF Fail
  <2> QED BY <1>0, <1>6, <2>1, Failed DEF Rotating, Idle
<1>7. CASE (\E s \in Sessions : RevokeSession(s)) \/ RevokeOthers \/ SetStatus \/ UNCHANGED vars
  BY <1>0, <1>7 DEF RevokeSession, RevokeOthers, SetStatus, vars, Rotating
<1>8. CASE Crash
  BY <1>0, <1>8 DEF Crash, Rotating, Idle
<1> QED BY <1>1, <1>2, <1>3, <1>4, <1>5, <1>6, <1>7, <1>8 DEF Next

LEMMA InitSections == Init => Sections
<1> SUFFICES ASSUME Init PROVE Sections
  OBVIOUS
<1>1. TypeOK
  BY InitTypeOK
<1>2. Len(minted) = 0
  BY EmptySeq DEF Init
<1>3. TokensExist /\ Custody /\ Succession /\ Outlawed
  BY <1>2 DEF Init, TokensExist, Custody, Succession, Outlawed, Rotating, At, Idle, None
<1> QED BY <1>1, <1>3, InitLocking DEF Sections

\* Every step, a failure or a crash included, keeps the inductive invariant.
LEMMA NextSections == Sections /\ [Next]_vars => Sections'
<1> SUFFICES ASSUME Sections, [Next]_vars PROVE Sections'
  OBVIOUS
<1>1. TypeOK'
  BY NextTypeOK DEF Sections
<1>2. TokenInv'
  BY <1>1, NextTokens DEF Sections, TokenInv
<1> QED BY <1>1, <1>2, NextLeaseDiscipline, NextNoRevocation, NextOutlawed DEF Sections, TokenInv

\* In every state the critical sections hold the lease one at a time and the
\* tokens are in the custody the code assumes.
THEOREM SectionsInvariant == Spec => []Sections
<1>1. Init => Sections
  BY InitSections
<1>2. Sections /\ [Next]_vars => Sections'
  BY NextSections
<1> QED BY <1>1, <1>2, PTL DEF Spec

\* As long as the lock has always worked a refresh token is good for one exchange.
THEOREM TokensAreSingleUse == Spec => []SingleUse
<1>1. Sections => SingleUse
  BY DEF Sections, Succession, SingleUse
<1> QED BY <1>1, SectionsInvariant, PTL

\* After a detected reuse no token of that moment is exchanged again, although the
\* handler that detected it may have failed half way.
THEOREM ReuseIsContained == Spec => []ReuseShutsOut
<1>1. Sections => ReuseShutsOut
  BY DEF Sections, Outlawed, ReuseShutsOut, Rotating, At
<1> QED BY <1>1, SectionsInvariant, PTL

\* A hash cleared under the lock comes back by a login only, or by a rotation
\* that lost the lock.
THEOREM RevocationsStand == Spec => NoUnrevocation
<1> DEFINE Rule == leased /\ hash' # None =>
                     \E r \in Requests : At(r, "installing") \/ (At(r, "rotating") /\ r \in unlocked)
<1>1. ASSUME Sections, [Next]_vars PROVE Rule
  <2>1. leased => hash = None
    BY <1>1 DEF Sections, NoRevocationUnderneath
  <2>2. ASSUME NEW r \in Requests, InstallHash(r) PROVE Rule
    BY <2>2 DEF InstallHash
  <2>3. ASSUME NEW r \in Requests, StoreHash(r) PROVE Rule
    <3>1. r \in inside \cup unlocked
      BY <1>1, <2>3 DEF StoreHash, Sections, LeaseDiscipline, Section, At
    <3>2. r \in inside => ~leased
      BY <1>1, <2>3 DEF StoreHash, Sections, NoRevocationUnderneath, Rotating, At
    <3> QED BY <2>3, <3>1, <3>2 DEF StoreHash
  <2>4. CASE hash' \in {hash, None}
    BY <2>1, <2>4
  <2> QED
    BY <1>1, <2>2, <2>3, <2>4
    DEF Next, LoginStep, Login, Restore, Reactivate, RecordSession, RefreshStep, Refresh, ReadUser,
        ClearReplayed, PurgeSessions, CheckSession, ClearStep, Clearing, ClearHash, TidySessions,
        LockStep, EnterLocked, EnterUnlocked, Lapse, LeaveLock, Reply, Fail, RevokeSession,
        RevokeOthers, SetStatus, Crash, vars
<1> QED BY <1>1, SectionsInvariant, PTL DEF Spec, NoUnrevocation

\* A refresh that begins after its session was revoked gets no tokens.
THEOREM RevokedStaysOut == Spec => []RevokedSessionStaysOut
<1>1. Init => RevokedSessionStaysOut
  BY DEF Init, RevokedSessionStaysOut, At, Idle
<1>2. ASSUME Sections, Sections', RevokedSessionStaysOut, [Next]_vars
      PROVE  RevokedSessionStaysOut'
  <2> SUFFICES ASSUME NEW q \in Requests, req'[q].at = "rotating" PROVE ~req'[q].barred
    BY DEF RevokedSessionStaysOut, At
  <2>0. TypeOK
    BY <1>2 DEF Sections
  <2>1. CASE req[q].at = "rotating" /\ req'[q] = req[q]
    BY <1>2, <2>1 DEF RevokedSessionStaysOut, At
  <2>2. ASSUME NEW r \in Requests, CheckSession(r), q = r PROVE ~req'[q].barred
    <3>1. PICK n : Hand(r, "rotating", n) /\ sess[minted[req[r].tok]] = "active"
      BY <2>2, <2>0, Moved DEF CheckSession, Issue
    <3>2. req'[q].barred = req[q].barred /\ req'[q].tok = req[q].tok
      BY <2>0, <2>2, <3>1, Handed
    <3>3. ~req[q].barred
      BY <1>2, <2>2, <3>1 DEF Sections, Custody
    <3> QED BY <3>2, <3>3
  <2>3. ASSUME NEW r \in Requests, CheckSession(r), q # r PROVE req'[q] = req[q]
    <3>1. CASE Goto(r, "leaving")
      BY <2>0, <2>3, <3>1 DEF Goto, TypeOK
    <3>2. CASE Issue(r)
      BY <2>0, <2>3, <3>2, Handed DEF Issue
    <3> QED BY <2>3, <3>1, <3>2 DEF CheckSession
  <2>4. ASSUME NEW r \in Requests, NEW l, l # "rotating", Goto(r, l) PROVE q # r /\ req'[q] = req[q]
    BY <2>0, <2>4 DEF Goto, TypeOK, Request
  <2>5. ASSUME NEW r \in Requests, Done(r) PROVE q # r /\ req'[q] = req[q]
    BY <2>0, <2>5, Ended DEF Idle
  <2>6. ASSUME NEW r \in Requests, NEW o, NEW t, NEW l, l # "rotating", Start(r, o, t, l)
        PROVE  q # r /\ req'[q] = req[q]
    BY <2>0, <2>6, Started
  <2>7. ASSUME NEW r \in Requests, RecordSession(r) PROVE q # r /\ req'[q] = req[q]
    BY <2>0, <2>7, Handed DEF RecordSession
  <2>8. ASSUME NEW r \in Requests, Fail(r) PROVE q # r /\ req'[q] = req[q]
    BY <2>0, <2>8, Failed DEF Idle
  <2>9. ASSUME NEW r \in Requests, LoginStep(r) \/ ClearStep(r) \/ LockStep(r) \/ Reply(r) \/ Fail(r)
        PROVE  req'[q] = req[q]
    BY <2>9, <2>4, <2>5, <2>6, <2>7, <2>8
    DEF LoginStep, Login, Restore, Reactivate, InstallHash, ClearStep, Clearing, ClearHash,
        TidySessions, LockStep, EnterLocked, EnterUnlocked, Lapse, LeaveLock, Reply
  <2>10. ASSUME NEW r \in Requests, RefreshStep(r), ~CheckSession(r) PROVE req'[q] = req[q]
    BY <2>10, <2>4, <2>6 DEF RefreshStep, Refresh, ReadUser, ClearReplayed, PurgeSessions, StoreHash
  <2>11. CASE (\E s \in Sessions : RevokeSession(s)) \/ RevokeOthers \/ SetStatus \/ UNCHANGED vars
    BY <2>11, <2>1 DEF RevokeSession, RevokeOthers, SetStatus, vars
  <2>12. CASE Crash
    BY <2>12 DEF Crash, Idle
  <2>13. ASSUME req'[q] = req[q] PROVE ~req'[q].barred
    BY <2>1, <2>13
  <2> QED BY <1>2, <2>2, <2>3, <2>9, <2>10, <2>11, <2>12, <2>13 DEF Next
<1> QED BY <1>1, <1>2, SectionsInvariant, PTL DEF Spec

-----------------------------------------------------------------------------
\* What a rotation under the lock finds in the user row: the token presented, or
\* that of a login since.
Exchange == \A r \in inside : Rotating(r) /\ ~exposed => hash = req[r].tok \/ FromLogin(hash)

\* The first token of a session stays its first, whatever is signed later.
LEMMA FirstStays ==
  ASSUME TypeOK, TokensExist, hash' = hash, FromLogin(hash),
         \/ minted' = minted
         \/ Len(minted) < MaxTokens /\ \E s \in Sessions : minted' = Append(minted, s)
  PROVE  FromLogin(hash)'
<1>1. hash \in 1..Len(minted) /\ Len(minted) \in Nat
  BY LenProperties DEF TypeOK, TokensExist, FromLogin, Tokens, None
<1>2. CASE minted' = minted
  BY <1>2 DEF FromLogin
<1>3. ASSUME NEW s \in Sessions, Len(minted) < MaxTokens, minted' = Append(minted, s)
      PROVE  FromLogin(hash)'
  <2>1. /\ Len(minted') = Len(minted) + 1 /\ minted'[hash] = minted[hash]
        /\ \A u \in 1..Len(minted) : minted'[u] = minted[u]
    BY <1>1, <1>3, Signing
  <2>2. ASSUME NEW u \in 1..Len(minted'), minted'[u] = minted'[hash] PROVE hash <= u
    <3>1. CASE u \in 1..Len(minted)
      BY <2>1, <2>2, <3>1 DEF FromLogin
    <3>2. CASE u = Len(minted) + 1
      BY <1>1, <3>2
    <3> QED BY <1>1, <2>1, <3>1, <3>2
  <2> QED BY <1>1, <2>2 DEF FromLogin, None
<1> QED BY <1>2, <1>3

\* The user row under a locked rotation changes by logins only.
LEMMA NextExchange == Sections /\ Exchange /\ [Next]_vars => Exchange'
<1> SUFFICES ASSUME Sections, Exchange, [Next]_vars,
                    NEW q \in Requests, q \in inside', Rotating(q)', ~exposed'
             PROVE  hash' = req'[q].tok \/ FromLogin(hash)'
  BY NextSections DEF Exchange, Sections, TypeOK
<1> DEFINE Goal == hash' = req'[q].tok \/ FromLogin(hash)'
<1> USE DEF lockVars, At
<1>1. TypeOK /\ TokensExist /\ LeaseDiscipline
  BY DEF Sections
<1>2. ASSUME hash' = hash, exposed' = exposed, q \in inside, Rotating(q), req'[q].tok = req[q].tok,
             \/ minted' = minted
             \/ Len(minted) < MaxTokens /\ \E s \in Sessions : minted' = Append(minted, s)
      PROVE  Goal
  BY <1>1, <1>2, FirstStays DEF Exchange
<1>3. ASSUME NEW r \in Requests, req[r].at \in Section, exposed' = exposed, inside' = inside
      PROVE  q = r
  BY <1>1, <1>3 DEF LeaseDiscipline
<1>4. ASSUME NEW r \in Requests, LoginStep(r) PROVE Goal
  <2>1. CASE Login(r) \/ Restore(r)
    <3>1. PICK l \in {"recording", "restoring"} : Start(r, "login", None, l)
      BY <2>1 DEF Login, Restore
    <3> QED BY <1>1, <1>2, <2>1, <3>1, Started DEF Login, Restore, Rotating
  <2>2. CASE Reactivate(r)
    BY <1>1, <1>2, <2>2, Moved DEF Reactivate, Rotating
  <2>3. CASE RecordSession(r)
    <3>1. q # r /\ req'[q] = req[q]
      BY <1>1, <2>3, Handed DEF RecordSession, Rotating
    <3>2. Len(minted) < MaxTokens /\ \E s \in Sessions : minted' = Append(minted, s)
      BY <2>3 DEF RecordSession
    <3> QED BY <1>2, <2>3, <3>1, <3>2 DEF RecordSession, Rotating
  <2>4. CASE InstallHash(r)
    <3>1. /\ \A t \in 1..Len(minted) : minted[t] = minted[req[r].next] => t = req[r].next
          /\ req[r].next # None /\ req[r].next \in Nat
      BY <2>4 DEF InstallHash, Sections, Custody, TokensExist, TypeOK, Request, Tokens, None
    <3> QED BY <2>4, <3>1 DEF InstallHash, FromLogin
  <2> QED BY <1>4, <2>1, <2>2, <2>3, <2>4 DEF LoginStep
<1>5. ASSUME NEW r \in Requests, RefreshStep(r) PROVE Goal
  <2>1. CASE Refresh(r)
    BY <1>1, <1>2, <2>1, Started DEF Refresh, Rotating
  <2>2. CASE ReadUser(r)
    <3>1. CASE q = r
      BY <1>1, <2>2, <3>1, Moved DEF ReadUser, Rotating
    <3>2. CASE q # r
      BY <1>1, <1>2, <2>2, <3>2, Moved DEF ReadUser, Rotating
    <3> QED BY <3>1, <3>2
  <2>3. CASE ClearReplayed(r) \/ StoreHash(r)
    BY <1>1, <1>3, <2>3, Moved DEF ClearReplayed, StoreHash, Rotating, Section
  <2>4. CASE PurgeSessions(r)
    BY <1>1, <1>2, <2>4, Moved DEF PurgeSessions, Rotating
  <2>5. CASE CheckSession(r)
    <3>1. minted[req[r].tok] \in Sessions
      BY <1>1, <2>5 DEF CheckSession, TokensExist, Rotating, TypeOK, Request, Tokens, None
    <3>2. CASE Goto(r, "leaving") /\ minted' = minted
      BY <1>1, <1>2, <2>5, <3>2, Moved DEF CheckSession, Rotating
    <3>3. CASE Issue(r)
      <4>1. PICK n : Hand(r, "rotating", n)
        BY <3>3 DEF Issue
      <4>2. Rotating(q) /\ req'[q].tok = req[q].tok
        BY <1>1, <2>5, <4>1, Handed DEF CheckSession, Rotating
      <4>3. \/ minted' = minted
            \/ Len(minted) < MaxTokens /\ \E s \in Sessions : minted' = Append(minted, s)
        BY <3>1, <3>3 DEF Issue
      <4> QED BY <1>2, <2>5, <4>2, <4>3 DEF CheckSession
    <3> QED BY <2>5, <3>2, <3>3 DEF CheckSession
  <2> QED BY <1>5, <2>1, <2>2, <2>3, <2>4, <2>5 DEF RefreshStep
<1>6. ASSUME NEW r \in Requests, ClearStep(r) PROVE Goal
  <2>1. CASE Clearing(r)
    BY <1>1, <1>2, <2>1, Started DEF Clearing, Rotating
  <2>2. CASE ClearHash(r)
    BY <1>1, <1>3, <2>2, Moved DEF ClearHash, Rotating, Section
  <2>3. CASE TidySessions(r)
    BY <1>1, <1>2, <2>3, Ended DEF TidySessions, Rotating, Idle
  <2> QED BY <1>6, <2>1, <2>2, <2>3 DEF ClearStep
<1>7. ASSUME NEW r \in Requests, LockStep(r) PROVE Goal
  <2>1. CASE EnterLocked(r)
    BY <1>1, <1>2, <2>1, Moved DEF EnterLocked, Lease!Enter, Rotating
  <2>2. CASE EnterUnlocked(r) \/ Lapse(r)
    BY <2>2 DEF EnterUnlocked, Lapse, Expose
  <2>3. CASE LeaveLock(r)
    BY <1>1, <1>2, <2>3, Moved, Ended DEF LeaveLock, Rotating, Idle
  <2> QED BY <1>7, <2>1, <2>2, <2>3 DEF LockStep
<1>8. ASSUME NEW r \in Requests, Reply(r) PROVE Goal
  BY <1>1, <1>2, <1>8, Ended DEF Reply, Rotating, Idle
<1>9. ASSUME NEW r \in Requests, Fail(r) PROVE Goal
  <2>1. Rotating(q) /\ req'[q] = req[q]
    BY <1>1, <1>9, Failed DEF Rotating, Idle
  <2> QED BY <1>2, <1>9, <2>1 DEF Fail
<1>10. CASE (\E s \in Sessions : RevokeSession(s)) \/ RevokeOthers \/ SetStatus \/ UNCHANGED vars
  BY <1>2, <1>10 DEF RevokeSession, RevokeOthers, SetStatus, vars, Rotating
<1>11. CASE Crash
  BY <1>11 DEF Crash
<1> QED BY <1>4, <1>5, <1>6, <1>7, <1>8, <1>9, <1>10, <1>11 DEF Next

\* While the lock has always worked, what a rotation overwrites is the token it was
\* given, or the token of a login that came in between.
THEOREM RotationsExchange == Spec => RotationExchanges
<1>1. Init => Exchange
  BY DEF Init, Exchange
<1>2. Exchange =>
        \A r \in inside : At(r, "rotating") /\ req'[r].at = "leaving" /\ hash' # hash /\ ~exposed =>
          hash = req[r].tok \/ FromLogin(hash)
  BY DEF Exchange, Rotating, At
<1> QED BY <1>1, <1>2, NextExchange, SectionsInvariant, PTL DEF Spec, RotationExchanges

=============================================================================
