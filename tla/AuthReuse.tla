----------------------------- MODULE AuthReuse -----------------------------
(***************************************************************************)
(* AuthSessions with one more history variable: which refresh requests     *)
(* began with the token that was current at that moment, that is, with the *)
(* token the server had handed out last.                                   *)
(***************************************************************************)
EXTENDS AuthSessions

VARIABLE current    \* history: requests that began with the current token

ReuseInit == Init /\ current = {}

ReuseNext ==
  /\ Next
  /\ current' = {r \in Requests :
       IF At(r, "idle") /\ req'[r].op = "refresh" THEN req'[r].tok = hash ELSE r \in current}

ReuseSpec == ReuseInit /\ [][ReuseNext]_<<vars, current>>

\* The comment at auth.service.ts:365-371: thanks to the lock the concurrent callers
\* of a refresh wait "instead of triggering a false reuse-detected", so that a
\* request that began with the current token does not end in the reuse branch, at
\* least as long as the lock has always worked.
NoFalseReuse ==
  \A r \in Requests : At(r, "replayed") /\ ~exposed => r \notin current

=============================================================================
