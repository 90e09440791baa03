-------------------------- MODULE RefreshLockProofs --------------------------
(***************************************************************************)
(* Proofs about RefreshLock for every set of callers: ownership of the key *)
(* is an inductive invariant, it gives mutual exclusion, and the service   *)
(* implements ExclusiveLease.                                              *)
(***************************************************************************)
EXTENDS RefreshLock, TLAPS

USE FreeIsNoCaller

LEMMA InitOwnership == Init => Ownership
BY DEF Init, Ownership, TypeOK, LoopOverOnceHeld, GrantIsOwned, HolderOwnsKey, PCs, Loops

\* Every step of the lock, a crash included, keeps the key with the call that
\* was granted it.
LEMMA NextOwnership == Ownership /\ [Next]_vars => Ownership'
<1> SUFFICES ASSUME Ownership, [Next]_vars PROVE Ownership'
  OBVIOUS
<1> USE DEF Ownership, TypeOK, LoopOverOnceHeld, GrantIsOwned, HolderOwnsKey, PCs, Loops
<1>1. ASSUME NEW c \in Callers, Call(c) PROVE Ownership'
  BY <1>1 DEF Call
<1>2. ASSUME NEW c \in Callers, Acquire(c) PROVE Ownership'
  <2>1. CASE SetNX(c)
    BY <2>1 DEF SetNX, Taken
  <2>2. CASE SetResent(c) \/ SetError(c)
    BY <2>2 DEF SetResent, SetError, Taken
  <2>3. CASE ReplyOK(c)
    BY <2>3 DEF ReplyOK
  <2>4. CASE GiveUp(c)
    BY <2>4 DEF GiveUp
  <2>5. CASE Pause(c)
    BY <2>5 DEF Pause
  <2>6. CASE Poll(c)
    BY <2>6 DEF Poll
  <2> QED BY <1>2, <2>1, <2>2, <2>3, <2>4, <2>5, <2>6 DEF Acquire
<1>3. ASSUME NEW c \in Callers, TimerFires(c) PROVE Ownership'
  BY <1>3 DEF TimerFires
<1>4. ASSUME NEW c \in Callers, FnEnds(c) \/ ReleaseEnds(c) PROVE Ownership'
  <2>1. CASE FinishLocked(c)
    BY <2>1 DEF FinishLocked
  <2>2. CASE FinishUnlocked(c)
    BY <2>2 DEF FinishUnlocked
  <2>3. CASE Release(c)
    BY <2>3 DEF Release
  <2>4. CASE ReleaseError(c)
    BY <2>4 DEF ReleaseError
  <2> QED BY <1>4, <2>1, <2>2, <2>3, <2>4 DEF FnEnds, ReleaseEnds
<1>5. CASE Expire
  BY <1>5 DEF Expire
<1>6. CASE Crash
  BY <1>6 DEF Crash
<1>7. CASE UNCHANGED vars
  BY <1>7 DEF vars
<1> QED BY <1>1, <1>2, <1>3, <1>4, <1>5, <1>6, <1>7 DEF Next

\* Ownership of the Redis key holds in every state of the lock service.
THEOREM OwnershipInvariant == Spec => []Ownership
<1>1. Init => Ownership
  BY InitOwnership
<1>2. Ownership /\ [Next]_vars => Ownership'
  BY NextOwnership
<1> QED BY <1>1, <1>2, PTL DEF Spec

\* Two protected calls both own the key, so they are the same call.
LEMMA OwnershipExcludes == Ownership => MutualExclusion
BY DEF Ownership, HolderOwnsKey, MutualExclusion, Protected

\* At most one critical section runs under a lease that has not expired.
THEOREM Exclusion == Spec => []MutualExclusion
BY OwnershipInvariant, OwnershipExcludes, PTL

\* The key leaves a caller only by that caller's release or by its TTL.
THEOREM OwnerReleases == Spec => OnlyOwnerReleases
<1> DEFINE Rule == \A c \in Callers : lock = c /\ lock' # c => pc[c] = "releasing" \/ c \in lapsed'
<1>1. ASSUME Ownership, [Next]_vars PROVE Rule
  <2>1. ASSUME NEW c \in Callers, Release(c) PROVE Rule
    BY <2>1 DEF Release
  <2>2. ASSUME NEW c \in Callers, SetNX(c) \/ SetResent(c) \/ SetError(c) PROVE Rule
    BY <2>2 DEF SetNX, SetResent, SetError, Taken
  <2>3. CASE Expire
    BY <2>3 DEF Expire
  <2>4. CASE UNCHANGED lock
    BY <2>4
  <2> QED
    BY <1>1, <2>1, <2>2, <2>3, <2>4
    DEF Next, Call, Acquire, ReplyOK, GiveUp, Pause, Poll, TimerFires, FnEnds,
        ReleaseEnds, FinishLocked, FinishUnlocked, ReleaseError, Crash, vars
<1> QED BY <1>1, OwnershipInvariant, PTL DEF Spec, OnlyOwnerReleases

-----------------------------------------------------------------------------
\* The initial states map to the abstract one: nobody is inside.
LEMMA InitRefines == Init => Lease!Init
BY DEF Init, Lease!Init, Protected

\* Every step maps to an Enter, a Leave or a stutter of the exclusive lease.
LEMMA NextRefines == Ownership /\ [Next]_vars => [Lease!Next]_Protected
<1> SUFFICES ASSUME Ownership, [Next]_vars
             PROVE  Lease!Next \/ Protected' = Protected
  OBVIOUS
<1>0. Protected \subseteq {lock}
  BY DEF Ownership, HolderOwnsKey, Protected
<1>1. ASSUME Protected' = {} PROVE Lease!Next \/ Protected' = Protected
  BY <1>1 DEF Lease!Next, Lease!Leave
<1>2. ASSUME UNCHANGED lapsed, \A d \in Callers : pc'[d] = "held" <=> pc[d] = "held"
      PROVE  Protected' = Protected
  BY <1>2 DEF Protected
<1>3. ASSUME NEW c \in Callers, Acquire(c)
      PROVE  Lease!Next \/ Protected' = Protected
  <2>1. CASE ReplyOK(c) /\ pc[c] = "racing" /\ c \notin lapsed
    <3>1. lock = c
      BY <2>1 DEF ReplyOK, Ownership, GrantIsOwned
    <3>2. Protected = {}
      BY <2>1, <3>1, <1>0 DEF Protected
    <3>3. Protected' = {c}
      BY <2>1, <3>2 DEF ReplyOK, Protected, Ownership, TypeOK
    <3> QED BY <3>2, <3>3 DEF Lease!Next, Lease!Enter
  <2>2. CASE ReplyOK(c) /\ (pc[c] # "racing" \/ c \in lapsed)
    <3>1. Protected' = Protected
      BY <2>2 DEF ReplyOK, Protected, Ownership, TypeOK
    <3> QED BY <3>1
  <2>3. CASE GiveUp(c) \/ Pause(c) \/ Poll(c)
    <3>1. \A d \in Callers : pc'[d] = "held" <=> pc[d] = "held"
      BY <2>3 DEF GiveUp, Pause, Poll, Ownership, TypeOK
    <3> QED BY <2>3, <3>1, <1>2 DEF GiveUp, Pause, Poll
  <2>4. CASE SetNX(c) \/ SetResent(c) \/ SetError(c)
    <3>1. pc[c] # "held"
      BY <2>4 DEF SetNX, SetResent, SetError, Ownership, LoopOverOnceHeld
    <3>2. UNCHANGED pc /\ \A d \in Callers \ {c} : d \in lapsed' <=> d \in lapsed
      BY <2>4 DEF SetNX, SetResent, SetError, Taken
    <3>3. Protected' = Protected
      BY <3>1, <3>2 DEF Protected
    <3> QED BY <3>3
  <2> QED BY <1>3, <2>1, <2>2, <2>3, <2>4 DEF Acquire
<1>4. ASSUME NEW c \in Callers, Call(c) \/ TimerFires(c)
      PROVE  Protected' = Protected
  <2>1. \A d \in Callers : pc'[d] = "held" <=> pc[d] = "held"
    BY <1>4 DEF Call, TimerFires, Ownership, TypeOK
  <2> QED BY <1>2, <1>4, <2>1 DEF Call, TimerFires
<1>5. ASSUME NEW c \in Callers, FnEnds(c) \/ ReleaseEnds(c)
      PROVE  Lease!Next \/ Protected' = Protected
  <2>1. CASE FinishLocked(c) /\ c \in Protected
    <3>1. Protected' = {}
      BY <2>1, <1>0 DEF FinishLocked, Protected, Ownership, TypeOK
    <3> QED BY <3>1, <1>1
  <2>2. CASE FinishLocked(c) /\ c \notin Protected
    <3>1. Protected' = Protected
      BY <2>2 DEF FinishLocked, Protected, Ownership, TypeOK
    <3> QED BY <3>1
  <2>3. CASE FinishUnlocked(c) \/ Release(c) \/ ReleaseError(c)
    <3>1. \A d \in Callers : pc'[d] = "held" <=> pc[d] = "held"
      BY <2>3 DEF FinishUnlocked, Release, ReleaseError, Ownership, TypeOK
    <3> QED BY <1>2, <2>3, <3>1 DEF FinishUnlocked, Release, ReleaseError
  <2> QED BY <1>5, <2>1, <2>2, <2>3 DEF FnEnds, ReleaseEnds
<1>6. CASE Expire
  <2>1. Protected' = {}
    BY <1>6, <1>0 DEF Expire, Protected
  <2> QED BY <2>1, <1>1
<1>7. CASE Crash
  <2>1. Protected' = {}
    BY <1>7 DEF Crash, Protected
  <2> QED BY <2>1, <1>1
<1>8. CASE UNCHANGED vars
  BY <1>8 DEF vars, Protected
<1> QED BY <1>3, <1>4, <1>5, <1>6, <1>7, <1>8 DEF Next

\* The Redis lock implements the exclusive lease.
THEOREM ImplementsLease == Spec => LeaseSpec
<1>1. Init => Lease!Init
  BY InitRefines
<1>2. Ownership /\ [Next]_vars => [Lease!Next]_Protected
  BY NextRefines
<1> QED BY <1>1, <1>2, OwnershipInvariant, PTL DEF Spec, LeaseSpec, Lease!Spec

=============================================================================
