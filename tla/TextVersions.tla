---------------------------- MODULE TextVersions ----------------------------
(***************************************************************************)
(* The processing versions of one text: TokenizerProcessor.processText     *)
(* (src/src/markup-engine/tokenizer/tokenizer.processor.ts), and the       *)
(* handlers of the administration that interfere with it: resetTokens,     *)
(* cancel of a RUNNING job, restoreVersion, deleteText.                    *)
(*                                                                         *)
(* processText is started by the tokenization queue, and directly, without *)
(* a job, when a text is created, saved, imported, approved or processed   *)
(* by hand; nothing keeps two runs of one text apart.  Every awaited       *)
(* database call that matters is a step; tokenization and analysis, which  *)
(* only fill rows of the run's own version, are one state, "working".      *)
(***************************************************************************)
EXTENDS Naturals, Sequences, FiniteSets

CONSTANTS
  Runs,             \* calls of processText that may run at the same time
  Admins,           \* administrators' calls that may run at the same time
  MaxVersions,      \* bound: TextProcessingVersion rows ever created
  MaxFaults         \* bound: deaths of the server, replies of the database that are lost,
                    \* and failures of an error handler or of an administrator's call

ASSUME MaxVersionsAssumption == MaxVersions \in Nat
ASSUME MaxFaultsAssumption == MaxFaults \in Nat

VARIABLES
  text,             \* Text.processingStatus, or "DELETED" once the row is gone
  versions,         \* TextProcessingVersion rows, in the order of their creation
  run,              \* what each call of processText is doing
  admin,            \* what each administrator's call is doing
  orphans,          \* history: what was left RUNNING for nobody (a version, or TheText)
  faults            \* faults so far

vars == <<text, versions, run, admin, orphans, faults>>

None == 0
TheText == 0

TextStates == {"IDLE", "RUNNING", "COMPLETED", "ERROR", "DELETED"}

\* "GONE": the row was deleted.
Version == [number : 1..MaxVersions, current : BOOLEAN,
            status : {"RUNNING", "COMPLETED", "ERROR", "GONE"}]

(***************************************************************************)
(* A run is "started"; has "begun" (status RUNNING is written); has its    *)
(* version number ("numbered"), its version row ("working"); is about to   *)
(* write COMPLETED to the text ("completing"); is in the error handler,    *)
(* about to mark the version ("failing") or the text ("reporting").  The   *)
(* run of a job then ends with the job's status ("settling").              *)
(***************************************************************************)
InFlight == {"begun", "numbered", "working", "completing", "failing", "reporting"}
RunStates == InFlight \cup {"idle", "started", "settling"}

Run == [at : RunStates, number : 0..MaxVersions, version : 0..MaxVersions, job : BOOLEAN]
IdleRun == [at |-> "idle", number |-> None, version |-> None, job |-> FALSE]

Admin == [at : {"idle", "resetting", "cancelling", "restoring"}, version : 0..MaxVersions]
IdleAdmin == [at |-> "idle", version |-> None]

Rows == 1..Len(versions)
Live == {v \in Rows : versions[v].status # "GONE"}
Current == {v \in Rows : versions[v].current}

TypeOK ==
  /\ text \in TextStates
  /\ versions \in Seq(Version) /\ Len(versions) <= MaxVersions
  /\ run \in [Runs -> Run]
  /\ admin \in [Admins -> Admin]
  /\ orphans \subseteq 0..MaxVersions
  /\ faults \in Nat

\* A text that has just been created.
Init ==
  /\ text = "IDLE"
  /\ versions = <<>>
  /\ run = [r \in Runs |-> IdleRun]
  /\ admin = [a \in Admins |-> IdleAdmin]
  /\ orphans = {}
  /\ faults = 0
-----------------------------------------------------------------------------
Goto(r, l) == run' = [run EXCEPT ![r].at = l]

\* processText returns or throws to its caller.
End(r) ==
  run' = [run EXCEPT ![r] = [at |-> IF run[r].job THEN "settling" ELSE "idle",
                             number |-> None, version |-> None, job |-> run[r].job]]

\* Text.update rejects once the row is gone.
WriteText(s) == text # "DELETED" /\ text' = s /\ orphans' = orphans \ {TheText}

\* The rows after the transaction that makes v the current version.
MadeCurrent(v, s) ==
  [i \in Rows |-> [versions[i] EXCEPT !.current = (i = v), !.status = IF i = v THEN s ELSE @]]

AllGone == [i \in Rows |-> [versions[i] EXCEPT !.current = FALSE, !.status = "GONE"]]
-----------------------------------------------------------------------------
(* processText *)

\* A job of the queue, or a direct call.
Start(r) ==
  /\ run[r].at = "idle"
  /\ text # "DELETED"
  /\ \E job \in BOOLEAN : run' = [run EXCEPT ![r] =
       [at |-> "started", number |-> None, version |-> None, job |-> job]]
  /\ UNCHANGED <<text, versions, admin, orphans, faults>>

\* The first update is outside the try block: when it rejects, because the row is gone
\* or for any other reason, the call is over.
Begin(r) ==
  /\ run[r].at = "started"
  /\ \/ WriteText("RUNNING") /\ Goto(r, "begun")
     \/ End(r) /\ UNCHANGED <<text, orphans>>
  /\ UNCHANGED <<versions, admin, faults>>

\* A text without pages that is left as it is.
EmptySilent(r) ==
  /\ run[r].at = "begun"
  /\ End(r)
  /\ UNCHANGED <<text, versions, admin, orphans, faults>>

\* The text has no pages (patchText may have removed them).
Empty(r) ==
  /\ run[r].at = "begun"
  /\ Goto(r, "completing")
  /\ UNCHANGED <<text, versions, admin, orphans, faults>>

\* The latest version is read, and its number incremented.
TakeNumber(r) ==
  /\ run[r].at = "begun"
  /\ \E n \in 0..MaxVersions :
       /\ n = 0 \/ \E v \in Live : versions[v].number = n
       /\ \A v \in Live : versions[v].number <= n
       /\ n < MaxVersions
       /\ run' = [run EXCEPT ![r].at = "numbered", ![r].number = n + 1]
  /\ UNCHANGED <<text, versions, admin, orphans, faults>>

\* Run r's version row is inserted.
Insert(r) ==
  /\ Len(versions) < MaxVersions
  /\ versions' = Append(versions,
       [number |-> run[r].number, current |-> FALSE, status |-> "RUNNING"])

\* A table without its unique index.
CreateUnindexed(r) ==
  /\ run[r].at = "numbered"
  /\ IF text = "DELETED"
     THEN Goto(r, "failing") /\ versions' = versions
     ELSE /\ Insert(r)
          /\ run' = [run EXCEPT ![r].at = "working", ![r].version = Len(versions) + 1]
  /\ UNCHANGED <<text, admin, orphans, faults>>

\* The insert is rejected when the text is gone, or another run has taken the
\* number: @@unique([textId, version]).
Refused(r) == text = "DELETED" \/ \E v \in Live : versions[v].number = run[r].number

CreateVersion(r) ==
  /\ run[r].at = "numbered"
  /\ IF Refused(r)
     THEN run' = [run EXCEPT ![r].at = "failing", ![r].number = None] /\ versions' = versions
     ELSE /\ Insert(r)
          /\ run' = [run EXCEPT ![r].at = "working", ![r].number = None, ![r].version = Len(versions) + 1]
  /\ UNCHANGED <<text, admin, orphans, faults>>

\* The two updates outside a transaction: the second rejects if the row is gone.
SwitchHalfway(r) ==
  /\ run[r].at = "working"
  /\ IF run[r].version \in Live
     THEN versions' = MadeCurrent(run[r].version, "COMPLETED") /\ Goto(r, "completing")
     ELSE versions' = [i \in Rows |-> [versions[i] EXCEPT !.current = FALSE]] /\ Goto(r, "failing")
  /\ UNCHANGED <<text, admin, orphans, faults>>

\* All is analysed: one transaction makes the version the current one, or is rolled
\* back because the row is gone.  It is one step: its first update locks the other
\* versions' rows, so that a second switch waits for it, or deadlocks with it and is
\* rolled back (which is Fail).
Switch(r) ==
  /\ run[r].at = "working"
  /\ IF run[r].version \in Live
     THEN versions' = MadeCurrent(run[r].version, "COMPLETED") /\ Goto(r, "completing")
     ELSE versions' = versions /\ Goto(r, "failing")
  /\ UNCHANGED <<text, admin, orphans, faults>>

\* The text's status follows, in a statement of its own.
Complete(r) ==
  /\ run[r].at = "completing"
  /\ IF text = "DELETED"
     THEN Goto(r, "failing") /\ UNCHANGED <<text, orphans>>
     ELSE WriteText("COMPLETED") /\ End(r)
  /\ UNCHANGED <<versions, admin, faults>>

\* A database call or an analysis rejects, having changed nothing or after the step that
\* it made: on to the error handler.
Fail(r) ==
  /\ run[r].at \in {"begun", "numbered", "working", "completing"}
  /\ run' = [run EXCEPT ![r].at = "failing", ![r].number = None]
  /\ UNCHANGED <<text, versions, admin, orphans, faults>>

\* Run r is going to write the text's status at its end, if its calls go through.
WillReport(r) == run[r].at \in InFlight /\ run[r].version \in {None} \cup Live

\* What run r leaves RUNNING if it ends here, when nothing else is to write it.
LeftBehind(r) ==
  (IF WillReport(r) THEN {TheText} ELSE {}) \cup ({run[r].version} \ {None})

\* The rows once the error handler has written the status of run r's version, if any.
MarkedError(r) ==
  [i \in Rows |->
     IF i = run[r].version THEN [versions[i] EXCEPT !.status = "ERROR"] ELSE versions[i]]

\* The error handler begins with the version's log and status, if it has one;
\* if the row has been deleted, the handler itself throws.
MarkVersion(r) ==
  /\ run[r].at = "failing"
  /\ IF run[r].version \in {None} \cup Live
     THEN versions' = MarkedError(r) /\ Goto(r, "reporting")
     ELSE End(r) /\ UNCHANGED versions
  /\ UNCHANGED <<text, admin, orphans, faults>>

\* The error handler ends with the text's status, and rethrows.
Report(r) ==
  /\ run[r].at = "reporting"
  /\ End(r)
  /\ IF text = "DELETED" THEN UNCHANGED <<text, orphans>> ELSE WriteText("ERROR")
  /\ UNCHANGED <<versions, admin, faults>>

\* A database call of the error handler rejects.
HandlerFails(r) ==
  /\ run[r].at \in {"failing", "reporting"}
  /\ faults < MaxFaults
  /\ faults' = faults + 1
  /\ orphans' = orphans \cup LeftBehind(r)
  /\ End(r)
  /\ UNCHANGED <<text, versions, admin>>

-----------------------------------------------------------------------------
(* The database makes a write, but its reply is lost and the call rejects *)

\* The first update, for a run that does not even begin.
BeginLost(r) ==
  /\ run[r].at = "started" /\ text # "DELETED"
  /\ text' = "RUNNING"
  /\ orphans' = orphans \cup {TheText}
  /\ End(r)
  /\ UNCHANGED <<versions, admin>>

\* The insert: the error handler does not know the version.
CreateLost(r) ==
  /\ run[r].at = "numbered" /\ ~Refused(r)
  /\ Insert(r)
  /\ orphans' = orphans \cup {Len(versions) + 1}
  /\ run' = [run EXCEPT ![r].at = "failing", ![r].number = None]
  /\ UNCHANGED <<text, admin>>

\* The text's COMPLETED: the error handler goes on to undo it.
CompleteLost(r) ==
  /\ run[r].at = "completing"
  /\ WriteText("COMPLETED")
  /\ Goto(r, "failing")
  /\ UNCHANGED <<versions, admin>>

\* The error handler's first write: it never comes to the text.
MarkLost(r) ==
  /\ run[r].at = "failing" /\ run[r].version \in Live
  /\ versions' = MarkedError(r)
  /\ orphans' = orphans \cup {TheText}
  /\ End(r)
  /\ UNCHANGED <<text, admin>>

\* (The switch committed and then reported failed is Switch and then Fail.)
ReplyLost(r) ==
  /\ faults < MaxFaults
  /\ faults' = faults + 1
  /\ BeginLost(r) \/ CreateLost(r) \/ CompleteLost(r) \/ MarkLost(r)
-----------------------------------------------------------------------------
\* The queue writes the status of the job.
Settle(r) ==
  /\ run[r].at = "settling"
  /\ run' = [run EXCEPT ![r] = IdleRun]
  /\ UNCHANGED <<text, versions, admin, orphans, faults>>
-----------------------------------------------------------------------------
(* The administrators' calls *)

\* resetTokens deletes the versions ...
ResetVersions(a) ==
  /\ admin[a].at = "idle" /\ text # "DELETED"
  /\ versions' = AllGone
  /\ admin' = [admin EXCEPT ![a].at = "resetting"]
  /\ UNCHANGED <<text, run, orphans, faults>>

\* ... and then writes the text's status.
ResetText(a) ==
  /\ admin[a].at = "resetting"
  /\ IF text = "DELETED" THEN UNCHANGED <<text, orphans>> ELSE WriteText("IDLE")
  /\ admin' = [admin EXCEPT ![a] = IdleAdmin]
  /\ UNCHANGED <<versions, run, faults>>

\* What administrator a leaves RUNNING if its call ends here: a reset has yet to write
\* the text.
Unfinished(a) == IF admin[a].at = "resetting" THEN {TheText} ELSE {}

\* A database call of an administrator's handler rejects.
AdminFails(a) ==
  /\ admin[a].at # "idle"
  /\ faults < MaxFaults
  /\ faults' = faults + 1
  /\ orphans' = orphans \cup Unfinished(a)
  /\ admin' = [admin EXCEPT ![a] = IdleAdmin]
  /\ UNCHANGED <<text, versions, run>>

\* cancel finds the text's job RUNNING ...
CancelRead(a) ==
  /\ admin[a].at = "idle"
  /\ \E r \in Runs : run[r].at # "idle" /\ run[r].job
  /\ admin' = [admin EXCEPT ![a].at = "cancelling"]
  /\ UNCHANGED <<text, versions, run, orphans, faults>>

\* ... and only marks the text.
CancelText(a) ==
  /\ admin[a].at = "cancelling"
  /\ IF text = "DELETED" THEN UNCHANGED <<text, orphans>> ELSE WriteText("IDLE")
  /\ admin' = [admin EXCEPT ![a] = IdleAdmin]
  /\ UNCHANGED <<versions, run, faults>>

\* A restore of any version that is not the current one.
RestoreReadAny(a) ==
  /\ admin[a].at = "idle"
  /\ \E v \in Live \ Current : admin' = [admin EXCEPT ![a] = [at |-> "restoring", version |-> v]]
  /\ UNCHANGED <<text, versions, run, orphans, faults>>

\* restoreVersion has read a completed version that is not the current one.
RestoreRead(a) ==
  /\ admin[a].at = "idle"
  /\ \E v \in Live \ Current :
       /\ versions[v].status = "COMPLETED"
       /\ admin' = [admin EXCEPT ![a] = [at |-> "restoring", version |-> v]]
  /\ UNCHANGED <<text, versions, run, orphans, faults>>

\* A restore that does not take the flag from the version that has it.
RestoreBeside(a) ==
  /\ admin[a].at = "restoring"
  /\ versions' = [i \in Rows |->
       IF i \in Live /\ i = admin[a].version THEN [versions[i] EXCEPT !.current = TRUE]
                                             ELSE versions[i]]
  /\ admin' = [admin EXCEPT ![a] = IdleAdmin]
  /\ UNCHANGED <<text, run, orphans, faults>>

\* Its transaction makes it the current one, or is rolled back if the row is gone.
RestoreWrite(a) ==
  /\ admin[a].at = "restoring"
  /\ LET v == admin[a].version
     IN  versions' = IF v \in Live THEN MadeCurrent(v, versions[v].status) ELSE versions
  /\ admin' = [admin EXCEPT ![a] = IdleAdmin]
  /\ UNCHANGED <<text, run, orphans, faults>>

\* deleteTextById: one transaction.
DeleteText ==
  /\ text # "DELETED"
  /\ text' = "DELETED"
  /\ versions' = AllGone
  /\ UNCHANGED <<run, admin, orphans, faults>>

\* The server dies.  onModuleInit looks after the jobs, not after texts and versions.
Crash ==
  /\ faults < MaxFaults
  /\ faults' = faults + 1
  /\ orphans' = orphans \cup (UNION {LeftBehind(r) : r \in Runs})
                        \cup (UNION {Unfinished(a) : a \in Admins})
  /\ run' = [r \in Runs |-> IdleRun]
  /\ admin' = [a \in Admins |-> IdleAdmin]
  /\ UNCHANGED <<text, versions>>

Process(r) ==
  \/ Start(r) \/ Begin(r) \/ Empty(r) \/ TakeNumber(r) \/ CreateVersion(r) \/ Switch(r)
  \/ Complete(r) \/ Settle(r)

HandleError(r) == Fail(r) \/ MarkVersion(r) \/ Report(r) \/ HandlerFails(r) \/ ReplyLost(r)

Administer(a) ==
  \/ ResetVersions(a) \/ ResetText(a) \/ CancelRead(a) \/ CancelText(a)
  \/ RestoreRead(a) \/ RestoreWrite(a) \/ AdminFails(a)

Next ==
  \/ \E r \in Runs : Process(r) \/ HandleError(r)
  \/ \E a \in Admins : Administer(a)
  \/ DeleteText
  \/ Crash

Spec == Init /\ [][Next]_vars
-----------------------------------------------------------------------------
(* Properties *)

\* The runs of one text never share a version, and a run's version is not marked
\* COMPLETED or ERROR by anybody else: only its own run, or a deletion, ends it.
OwnVersion ==
  /\ \A r \in Runs :
       /\ run[r].version \in {None} \cup Rows
       /\ run[r].at = "working" =>
            run[r].version # None /\ versions[run[r].version].status \in {"RUNNING", "GONE"}
       /\ run[r].at \in {"completing", "reporting"} /\ run[r].version # None =>
            versions[run[r].version].status # "RUNNING"
       /\ run[r].at \notin InFlight => run[r].version = None
       /\ run[r].at \in {"begun", "numbered"} => run[r].version = None
       /\ run[r].at = "numbered" => run[r].number # None
  /\ \A r, q \in Runs : r # q /\ run[r].version # None => run[r].version # run[q].version

\* The numbers of the versions a text has are distinct, across resets that start
\* them anew and runs that read the same latest one.
DistinctNumbers ==
  \A v, w \in Live : versions[v].number = versions[w].number => v = w

\* getPage (text.service.ts:457-460), the progress services and the administration take
\* the version with isCurrent: there is at most one, it exists, and its processing has
\* once been completed.
OneCurrent ==
  /\ \A v, w \in Current : v = w
  /\ \A v \in Current : versions[v].status \in {"COMPLETED", "ERROR"}

\* What an administrator is about to restore has been completed.
RestoresCompleted ==
  \A a \in Admins : admin[a].at = "restoring" =>
    admin[a].version \in Rows /\ versions[admin[a].version].status # "RUNNING"

\* The inductive invariant of the versions of a text.
VersionState == TypeOK /\ OwnVersion /\ DistinctNumbers /\ OneCurrent /\ RestoresCompleted

\* Somebody is going to write the text's status: a run whose version still exists, or
\* the reset that deleted the versions.
TextAttended == (\E r \in Runs : WillReport(r)) \/ \E a \in Admins : admin[a].at = "resetting"

\* A text or version does not stay RUNNING for nothing, whatever runs, cancels, resets
\* and restores do to each other, unless the server died, the database's reply to a write
\* was lost, or a call failed in an error handler or in the middle of a reset
\* (tokenizer.processor.ts:196-220).
RunningIsReal ==
  /\ text = "RUNNING" => TheText \in orphans \/ TextAttended
  /\ \A v \in Rows : versions[v].status = "RUNNING" =>
       v \in orphans \/ \E r \in Runs : run[r].version = v

\* A text whose pages getPage serves with tokens stays so: no run, failure, restore or
\* crash leaves it without a current version, only a reset or its deletion.
StaysReadable ==
  [][Current # {} => Current' # {} \/ Live' = {}]_vars

\* A version that failed after it was completed may still be current, or become so again.
Kept(v) == versions[v].current \/ \E a \in Admins : admin[a] = [at |-> "restoring", version |-> v]

Stage(v) ==
  IF v > Len(versions) THEN "absent"
  ELSE IF versions[v].status = "ERROR" THEN IF Kept(v) THEN "complete" ELSE "failed"
  ELSE [RUNNING |-> "working", COMPLETED |-> "complete", GONE |-> "gone"][versions[v].status]

Register == INSTANCE VersionRegister WITH
  Versions <- 1..MaxVersions, current <- Current, stage <- [v \in 1..MaxVersions |-> Stage(v)]

\* The version marked isCurrent, which getPage (text.service.ts:457-460), the progress
\* services and the administration read, has been completed once and is exchanged in one
\* step, although runs that fail after the switch, restores on stale reads and deletions
\* meet: the versions of a text implement VersionRegister.
CurrentIsCompleted == Register!Spec

=============================================================================
