--------------------------- MODULE VersionRegister ---------------------------
(***************************************************************************)
(* What text processing promises to those who read a text's current        *)
(* version: it has been completed, another one takes its place in one      *)
(* step, and only a deletion of all versions leaves them without one.      *)
(* Who takes the latest version by its number instead, whatever its        *)
(* status, is promised nothing.                                            *)
(***************************************************************************)
CONSTANT Versions

VARIABLES
  current,          \* the current version, as a set: {} if there is none
  stage             \* how far each version is; "complete": it may be current

Init ==
  /\ current = {}
  /\ stage = [v \in Versions |-> "absent"]

Moves(v, from, to) == stage[v] = from /\ stage'[v] = to

Create(v) == Moves(v, "absent", "working")
Finish(v) == Moves(v, "working", "complete") /\ current' = {v}
Abandon(v) == Moves(v, "working", "failed")
GiveUp(v) == Moves(v, "complete", "failed") /\ v \notin current'

\* Versions come on, and the current one stays or gives way to another that is complete.
Progress ==
  /\ \A v \in Versions :
       stage'[v] = stage[v] \/ Create(v) \/ Finish(v) \/ Abandon(v) \/ GiveUp(v)
  /\ current' = current \/ \E v \in Versions : current' = {v} /\ stage'[v] = "complete"

\* All versions are deleted.
Clear ==
  /\ current' = {}
  /\ \A v \in Versions : stage'[v] = IF stage[v] = "absent" THEN "absent" ELSE "gone"

Next == Progress \/ Clear

Spec == Init /\ [][Next]_<<current, stage>>
=============================================================================
