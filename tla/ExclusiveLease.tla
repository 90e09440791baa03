--------------------------- MODULE ExclusiveLease ---------------------------
(***************************************************************************)
(* What RefreshTokenLockService promises while its leases last: calls of   *)
(* withLock for one user run their critical sections one at a time.  A     *)
(* call enters when nobody is inside, and the call inside leaves by        *)
(* finishing or by losing its lease; nothing else happens.                 *)
(***************************************************************************)
CONSTANT Callers    \* the calls of withLock for one userId

VARIABLE inside     \* the calls whose critical section a lease protects

Init == inside = {}

Enter(c) == inside = {} /\ inside' = {c}

Leave == inside # {} /\ inside' = {}

Next == Leave \/ \E c \in Callers : Enter(c)

Spec == Init /\ [][Next]_inside

=============================================================================
