------------------------------- MODULE EventLog -------------------------------
(***************************************************************************)
(* What visitor tracking promises of an event that a client has sent: it   *)
(* is stored or lost in the end, and what has been decided stays so.       *)
(***************************************************************************)
CONSTANT Events

VARIABLE fate

Fates == {"new", "pending", "stored", "lost"}

Init == fate = [e \in Events |-> "new"]

Move(S, a, b) ==
  /\ \A e \in S : fate[e] = a
  /\ fate' = [e \in Events |-> IF e \in S THEN b ELSE fate[e]]

Accept(S) == Move(S, "new", "pending")
Store(S) == Move(S, "pending", "stored")
Lose(S) == Move(S, "pending", "lost")

Next == \E S \in SUBSET Events : Accept(S) \/ Store(S) \/ Lose(S)

Safe == Init /\ [][Next]_fate

(* No event stays in the queue or in the hands of a worker. *)
Settles == \A e \in Events : fate[e] = "pending" ~> fate[e] # "pending"
=============================================================================
