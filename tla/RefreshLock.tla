----------------------------- MODULE RefreshLock -----------------------------
(***************************************************************************)
(* RefreshTokenLockService (src/src/auth/refresh-token-lock.service.ts):   *)
(* the per-user mutex kept in one Redis key.  Each caller is one call of   *)
(* withLock, with the random lockValue of its own, so a caller's name      *)
(* stands for that value.  A call is two concurrent activities:            *)
(*   - pc[c], withLock itself: it awaits the race between the acquire loop *)
(*     and a maxWaitMs timer, runs fn, and releases in its finally;        *)
(*   - loop[c], acquireLockWithWait, which goes on alone once the timer    *)
(*     has won the race, because nothing cancels it.                       *)
(* Time is not modelled: the timer may fire, and the key's TTL may run     *)
(* out, at any moment.                                                     *)
(***************************************************************************)
CONSTANTS
  Callers,          \* the calls of withLock for one userId
  Free              \* the Redis key does not exist

ASSUME FreeIsNoCaller == Free \notin Callers

VARIABLES
  lock,             \* the value of the Redis key, or Free
  pc,               \* where each withLock call is
  loop,             \* where each call's acquire loop is
  lapsed            \* history: calls whose key Redis has expired since they set it last

vars == <<lock, pc, loop, lapsed>>

PCs == {"idle", "racing", "held", "unlocked", "releasing", "done"}

(***************************************************************************)
(* "sent": a SET NX is on its way; "granted" and "refused": its answer is; *)
(* "failed": the rejection is; "asleep": the pollIntervalMs pause; "over": *)
(* the loop has returned or was never started.                             *)
(***************************************************************************)
Loops == {"over", "sent", "granted", "refused", "failed", "asleep"}

TypeOK ==
  /\ lock \in Callers \cup {Free}
  /\ pc \in [Callers -> PCs]
  /\ loop \in [Callers -> Loops]
  /\ lapsed \in SUBSET Callers

Init ==
  /\ lock = Free
  /\ pc = [c \in Callers |-> "idle"]
  /\ loop = [c \in Callers |-> "over"]
  /\ lapsed = {}
-----------------------------------------------------------------------------
\* withLock starts: the first SET leaves before the timer is even armed.
Call(c) ==
  /\ pc[c] = "idle"
  /\ pc' = [pc EXCEPT ![c] = "racing"]
  /\ loop' = [loop EXCEPT ![c] = "sent"]
  /\ UNCHANGED <<lock, lapsed>>

\* The mutex without NX: every SET overwrites the key.
SetAlways(c) ==
  /\ loop[c] = "sent"
  /\ lock' = c
  /\ loop' = [loop EXCEPT ![c] = "granted"]
  /\ UNCHANGED <<pc, lapsed>>

\* The key becomes that of call c, with a TTL of its own.
Taken(c) == lock' = c /\ lapsed' = lapsed \ {c}

\* SET key value PX 5000 NX, executed by Redis.
SetNX(c) ==
  /\ loop[c] = "sent"
  /\ IF lock = Free
     THEN Taken(c) /\ loop' = [loop EXCEPT ![c] = "granted"]
     ELSE UNCHANGED <<lock, lapsed>> /\ loop' = [loop EXCEPT ![c] = "refused"]
  /\ UNCHANGED pc

\* The connection breaks between the effect of the SET and its answer, and ioredis
\* sends it again: unless the key has expired by then, the call's own value refuses it.
SetResent(c) ==
  /\ loop[c] = "sent"
  /\ lock = Free /\ Taken(c)
  /\ UNCHANGED <<pc, loop>>

\* The SET rejects: Redis is unreachable, or the connection stays broken so long
\* that ioredis gives the command up, before it ran or after.
SetError(c) ==
  /\ loop[c] = "sent"
  /\ \/ UNCHANGED <<lock, lapsed>>
     \/ lock = Free /\ Taken(c)
  /\ loop' = [loop EXCEPT ![c] = "failed"]
  /\ UNCHANGED pc

\* A loop that takes every answer for success.
AnyReplyIsOK(c) ==
  /\ loop[c] \in {"granted", "refused"}
  /\ loop' = [loop EXCEPT ![c] = "over"]
  /\ pc' = IF pc[c] = "racing" THEN [pc EXCEPT ![c] = "held"] ELSE pc
  /\ UNCHANGED <<lock, lapsed>>

\* The answer OK reaches the loop, which returns true; the call runs fn under
\* the lock if the timer has not already won the race.
ReplyOK(c) ==
  /\ loop[c] = "granted"
  /\ loop' = [loop EXCEPT ![c] = "over"]
  /\ pc' = IF pc[c] = "racing" THEN [pc EXCEPT ![c] = "held"] ELSE pc
  /\ UNCHANGED <<lock, lapsed>>

\* The loop returns false after the deadline, or its SET rejected: the call
\* degrades and runs fn without the lock.
GiveUp(c) ==
  /\ loop[c] \in {"refused", "failed"}
  /\ loop' = [loop EXCEPT ![c] = "over"]
  /\ pc' = IF pc[c] = "racing" THEN [pc EXCEPT ![c] = "unlocked"] ELSE pc
  /\ UNCHANGED <<lock, lapsed>>

\* Refused before the deadline: sleep pollIntervalMs.  The timer is armed with
\* the deadline's own maxWaitMs, so it has not fired yet.
Pause(c) ==
  /\ loop[c] = "refused"
  /\ pc[c] = "racing"
  /\ loop' = [loop EXCEPT ![c] = "asleep"]
  /\ UNCHANGED <<lock, pc, lapsed>>

\* After the pause the loop sends the next SET without looking at the clock.
Poll(c) ==
  /\ loop[c] = "asleep"
  /\ loop' = [loop EXCEPT ![c] = "sent"]
  /\ UNCHANGED <<lock, pc, lapsed>>

\* A budget checked only between two SETs: a SET that Redis never answers is
\* never given up.
TimerBetweenPolls(c) ==
  /\ pc[c] = "racing" /\ loop[c] # "sent"
  /\ pc' = [pc EXCEPT ![c] = "unlocked"]
  /\ UNCHANGED <<lock, loop, lapsed>>

\* The maxWaitMs timer wins Promise.race: fn runs unlocked, the loop goes on.
TimerFires(c) ==
  /\ pc[c] = "racing"
  /\ pc' = [pc EXCEPT ![c] = "unlocked"]
  /\ UNCHANGED <<lock, loop, lapsed>>

\* fn returns or throws: the finally block is next.
FinishLocked(c) ==
  /\ pc[c] = "held"
  /\ pc' = [pc EXCEPT ![c] = "releasing"]
  /\ UNCHANGED <<lock, loop, lapsed>>

\* fn returns or throws in a call that runs without the lock.
FinishUnlocked(c) ==
  /\ pc[c] = "unlocked"
  /\ pc' = [pc EXCEPT ![c] = "done"]
  /\ UNCHANGED <<lock, loop, lapsed>>

\* A release that deletes the key whoever owns it.
ReleaseAny(c) ==
  /\ pc[c] = "releasing"
  /\ lock' = Free
  /\ pc' = [pc EXCEPT ![c] = "done"]
  /\ UNCHANGED <<loop, lapsed>>

\* releaseLock: the script deletes the key only if the value is the caller's.
Release(c) ==
  /\ pc[c] = "releasing"
  /\ lock' = IF lock = c THEN Free ELSE lock
  /\ pc' = [pc EXCEPT ![c] = "done"]
  /\ UNCHANGED <<loop, lapsed>>

\* The script fails and releaseLock swallows the error: the key stays.
ReleaseError(c) ==
  /\ pc[c] = "releasing"
  /\ pc' = [pc EXCEPT ![c] = "done"]
  /\ UNCHANGED <<lock, loop, lapsed>>

\* A SET without PX: the key never goes away by itself.
NeverExpires == FALSE

\* lockTtlMs passes and Redis drops the key.
Expire ==
  /\ lock # Free
  /\ lapsed' = lapsed \cup {lock}
  /\ lock' = Free
  /\ UNCHANGED <<pc, loop>>

\* The server process dies: every call and loop in it ends, the key stays.
Crash ==
  /\ \E c \in Callers : pc[c] \notin {"idle", "done"}
  /\ pc' = [c \in Callers |-> IF pc[c] = "idle" THEN "idle" ELSE "done"]
  /\ loop' = [c \in Callers |-> "over"]
  /\ UNCHANGED <<lock, lapsed>>

Acquire(c) ==
  \/ SetNX(c) \/ SetResent(c) \/ SetError(c)
  \/ ReplyOK(c) \/ GiveUp(c) \/ Pause(c) \/ Poll(c)

FnEnds(c) == FinishLocked(c) \/ FinishUnlocked(c)

\* Redis answers the release, or ioredis gives it up.
ReleaseEnds(c) == Release(c) \/ ReleaseError(c)

Next ==
  \/ \E c \in Callers : Call(c) \/ Acquire(c) \/ TimerFires(c) \/ FnEnds(c) \/ ReleaseEnds(c)
  \/ Expire
  \/ Crash

(***************************************************************************)
(* The timer and the TTL are clocks, so they run out; fn, whose awaits are *)
(* not the lock's, returns.  Nothing is assumed of the acquire loop or of  *)
(* Redis, not even that it answers the release, which the call awaits      *)
(* without a timeout; and calls and crashes need not happen.               *)
(***************************************************************************)
Fairness ==
  /\ \A c \in Callers : WF_vars(TimerFires(c)) /\ WF_vars(FnEnds(c))
  /\ WF_vars(Expire)

Spec == Init /\ [][Next]_vars

FairSpec == Spec /\ Fairness
-----------------------------------------------------------------------------
(* Properties *)

\* The acquire loop is over once its call holds the lock, so that nothing of the
\* call can set the key again.
LoopOverOnceHeld == \A c \in Callers : pc[c] \in {"held", "releasing"} => loop[c] = "over"

\* A granted answer on its way means that the key is the caller's, unless Redis
\* expired it in between.
GrantIsOwned == \A c \in Callers : loop[c] = "granted" /\ c \notin lapsed => lock = c

\* A call that runs fn because it got the lock still owns the key, unless Redis
\* expired it: what withLock's "acquired" stands for.
HolderOwnsKey == \A c \in Callers : pc[c] = "held" /\ c \notin lapsed => lock = c

\* Ownership of the key, from the SET that took it to the release: the inductive
\* invariant behind mutual exclusion.
Ownership == TypeOK /\ LoopOverOnceHeld /\ GrantIsOwned /\ HolderOwnsKey

\* The critical sections that a live lease protects.
Protected == {c \in Callers : pc[c] = "held" /\ c \notin lapsed}

\* The promise of the class comment, "must serialize against each other": at
\* most one critical section runs under a lease that has not expired.
MutualExclusion == \A c, d \in Protected : c = d

\* The whole service, seen as the calls protected by a live lease, implements an
\* exclusive lease: nobody enters while another call is protected.
Lease == INSTANCE ExclusiveLease WITH inside <- Protected

LeaseSpec == Lease!Spec

\* releaseLock's comment: it "avoids releasing a lock acquired by another request
\* after ours expired".  The key leaves a caller only by that caller's own
\* release or by its TTL.
OnlyOwnerReleases ==
  [][\A c \in Callers :
       lock = c /\ lock' # c => pc[c] = "releasing" \/ c \in lapsed']_vars

\* What the budget of withLock is worth: whoever holds the key and whether or not Redis
\* ever answers a SET, a call gets to run fn to its end.  It then ends if Redis answers
\* its release; without that a call that got the lock may wait for ever.
EveryCallEnds ==
  \A c \in Callers :
    /\ pc[c] = "racing" ~> pc[c] \in {"releasing", "done"}
    /\ WF_vars(ReleaseEnds(c)) => (pc[c] = "racing" ~> pc[c] = "done")

\* Whatever happened to its owner (a crash, a failed release, an abandoned loop),
\* the key does not stay with it for ever.
KeyComesFree == \A c \in Callers : lock = c ~> lock # c

\* The comments at refresh-token-lock.service.ts:24-28 and :61-67 say the outer
\* budget rules out the phantom lock: a key set for a call that has already
\* reported failure, which nobody will release before its TTL.
NoPhantomLock ==
  \A c \in Callers : lock = c => pc[c] \in {"racing", "held", "releasing"}

=============================================================================
