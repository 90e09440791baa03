-------------------------- MODULE TokenizationQueue --------------------------
(***************************************************************************)
(* TokenizationQueueService                                                *)
(* (src/src/admin/tokenization/tokenization-queue.service.ts): the queue   *)
(* of texts to tokenize.  TokenizationJob rows are in the database;        *)
(* runningCount and the loops _drain and _runJob live in the one server    *)
(* process.  Every awaited database call is a step, so that calls of       *)
(* enqueue and cancel, drains and runs interleave between them.            *)
(*                                                                         *)
(* A job is its index in "jobs".  queuePosition is left out: a drain may   *)
(* pick any PENDING job, and the loop that renumbers the PENDING jobs only *)
(* takes time.  processText is one step with two outcomes.                 *)
(***************************************************************************)
EXTENDS Naturals, Sequences, FiniteSets, Functions

CONSTANTS
  Texts,            \* Text rows at the start
  Lists,            \* the textIds arrays a call of enqueue may bring
  Clients,          \* calls of enqueue and cancel that may run at the same time
  Drains,           \* bound: calls of _drain that may run at the same time
  MaxConcurrency,   \* MAX_CONCURRENCY
  MaxJobs,          \* bound: TokenizationJob rows ever created
  MaxCrashes        \* bound: deaths of the server from outside

ASSUME ListsAssumption == Lists \subseteq Seq(Texts)
ASSUME DrainsAssumption == IsFiniteSet(Drains)
ASSUME MaxConcurrencyAssumption == MaxConcurrency \in Nat \ {0}
ASSUME MaxJobsAssumption == MaxJobs \in Nat
ASSUME MaxCrashesAssumption == MaxCrashes \in Nat

VARIABLES
  texts,            \* the Text rows that exist
  jobs,             \* TokenizationJob rows: text and status
  count,            \* runningCount
  drain,            \* what each _drain loop is doing
  runs,             \* the calls of _runJob under way, each with the drain that started it
  client,           \* what each call of enqueue or cancel is doing
  up,               \* the server is running
  crashes           \* deaths so far

vars == <<texts, jobs, count, drain, runs, client, up, crashes>>

\* "GONE": the row went with its text (onDelete: Cascade).
Statuses == {"PENDING", "RUNNING", "COMPLETED", "FAILED", "CANCELLED", "GONE"}
Open == {"PENDING", "RUNNING"}

Job == [text : Texts, status : Statuses]

(***************************************************************************)
(* A drain is off, "looking" for a PENDING job, "claiming" the one it      *)
(* found, or "reordering" after the claim, before it starts the run.       *)
(***************************************************************************)
DrainState == [at : {"off", "looking", "claiming", "reordering"}, job : 0..MaxJobs]
Off == [at |-> "off", job |-> 0]
Looking == [at |-> "looking", job |-> 0]

Run == [drain : Drains, job : 1..MaxJobs, at : {"processing", "ended"}]

(***************************************************************************)
(* A client call has "checked" which texts of its list to enqueue, has     *)
(* "created" their jobs, or is "cancelling" a job it read as PENDING.      *)
(***************************************************************************)
ClientState ==
  [at : {"idle", "checked", "created", "cancelling"}, list : Seq(Texts), job : 0..MaxJobs]
Idle == [at |-> "idle", list |-> <<>>, job |-> 0]

TypeOK ==
  /\ texts \subseteq Texts
  /\ jobs \in Seq(Job) /\ Len(jobs) <= MaxJobs
  /\ count \in Nat
  /\ drain \in [Drains -> DrainState]
  /\ runs \subseteq Run
  /\ client \in [Clients -> ClientState]
  /\ up \in BOOLEAN
  /\ crashes \in Nat

Rows == 1..Len(jobs)

\* An empty table, and the server about to run onModuleInit.
Init ==
  /\ texts = Texts
  /\ jobs = <<>>
  /\ count = 0
  /\ drain = [d \in Drains |-> Off]
  /\ runs = {}
  /\ client = [c \in Clients |-> Idle]
  /\ up = FALSE
  /\ crashes = 0
-----------------------------------------------------------------------------
(* What several handlers do *)

\* void this._drain() with n runs counted: the loop condition is tested at once.
Spawn(n) ==
  IF n < MaxConcurrency
  THEN \E d \in Drains : drain[d] = Off /\ drain' = [drain EXCEPT ![d] = Looking]
  ELSE drain' = drain

SetJob(j, s) == jobs' = [jobs EXCEPT ![j].status = s]

Volatile == <<count, drain, runs, client, up>>

\* The process dies, and with it everything that is not in the database.  A
\* rejection that nobody catches kills it too: _drain and _runJob are started
\* with "void", and nothing handles unhandledRejection.
Die ==
  /\ count' = 0
  /\ drain' = [d \in Drains |-> Off]
  /\ runs' = {}
  /\ client' = [c \in Clients |-> Idle]
  /\ up' = FALSE
-----------------------------------------------------------------------------
(* enqueue and cancel *)

\* The texts of the list that no PENDING or RUNNING job has, in any order: the
\* rows of one createMany have one createdAt.
Unqueued(list) ==
  LET Free(t) == \A j \in Rows : jobs[j].text = t => jobs[j].status \notin Open
      kept == {i \in 1..Len(list) : Free(list[i])}
      places == 1..Cardinality(kept)
  IN  {[k \in places |-> list[order[k]]] : order \in Bijection(places, kept)}

\* enqueue reads the open jobs; if every text has one, it returns.
EnqueueCheck(c) ==
  /\ client[c].at = "idle"
  /\ \E list \in Lists : \E rest \in Unqueued(list) :
       /\ rest # <<>>
       /\ client' = [client EXCEPT ![c] = [at |-> "checked", list |-> rest, job |-> 0]]
  /\ UNCHANGED <<texts, jobs, count, drain, runs, up, crashes>>

\* createMany, all or nothing: it rejects if one of the texts is gone.
EnqueueCreate(c) ==
  LET list == client[c].list
      new == [i \in 1..Len(list) |-> [text |-> list[i], status |-> "PENDING"]]
  IN  /\ client[c].at = "checked"
      /\ IF \A i \in 1..Len(list) : list[i] \in texts
         THEN /\ Len(jobs) + Len(list) <= MaxJobs
              /\ jobs' = jobs \o new
              /\ client' = [client EXCEPT ![c] = [at |-> "created", list |-> <<>>, job |-> 0]]
         ELSE jobs' = jobs /\ client' = [client EXCEPT ![c] = Idle]
      /\ UNCHANGED <<texts, count, drain, runs, up, crashes>>

\* enqueue starts a drain and returns.
EnqueueDrain(c) ==
  /\ client[c].at = "created"
  /\ Spawn(count)
  /\ client' = [client EXCEPT ![c] = Idle]
  /\ UNCHANGED <<texts, jobs, count, runs, up, crashes>>

\* cancel reads the latest open job of the text.  For a RUNNING one it only
\* touches the Text row.
CancelRead(c) ==
  /\ client[c].at = "idle"
  /\ \E j \in Rows :
       /\ jobs[j].status = "PENDING"
       /\ \A i \in Rows : i > j /\ jobs[i].text = jobs[j].text => jobs[i].status \notin Open
       /\ client' = [client EXCEPT ![c] = [at |-> "cancelling", list |-> <<>>, job |-> j]]
  /\ UNCHANGED <<texts, jobs, count, drain, runs, up, crashes>>

\* The update to CANCELLED goes by id, whatever became of the job.
CancelWrite(c) ==
  /\ client[c].at = "cancelling"
  /\ IF jobs[client[c].job].status = "GONE"
     THEN jobs' = jobs
     ELSE SetJob(client[c].job, "CANCELLED")
  /\ client' = [client EXCEPT ![c] = Idle]
  /\ UNCHANGED <<texts, count, drain, runs, up, crashes>>

\* An administrator deletes a text, and its jobs with it.
DeleteText(t) ==
  /\ up
  /\ t \in texts
  /\ texts' = texts \ {t}
  /\ jobs' = [j \in Rows |-> IF jobs[j].text = t THEN [jobs[j] EXCEPT !.status = "GONE"] ELSE jobs[j]]
  /\ UNCHANGED <<Volatile, crashes>>
-----------------------------------------------------------------------------
(* _drain and _runJob *)

\* findFirst: some PENDING job, or none and the loop ends.
Look(d) ==
  /\ drain[d].at = "looking"
  /\ \/ \E j \in Rows :
          /\ jobs[j].status = "PENDING"
          /\ drain' = [drain EXCEPT ![d] = [at |-> "claiming", job |-> j]]
     \/ /\ \A j \in Rows : jobs[j].status # "PENDING"
        /\ drain' = [drain EXCEPT ![d] = Off]
  /\ UNCHANGED <<texts, jobs, count, runs, client, up, crashes>>

\* The update to RUNNING goes by id: it rejects only if the row is gone.
Claim(d) ==
  /\ drain[d].at = "claiming"
  /\ IF jobs[drain[d].job].status = "GONE"
     THEN Die /\ jobs' = jobs
     ELSE /\ SetJob(drain[d].job, "RUNNING")
          /\ drain' = [drain EXCEPT ![d].at = "reordering"]
          /\ UNCHANGED <<count, runs, client, up>>
  /\ UNCHANGED <<texts, crashes>>

\* A loop that goes on at the limit too.
StartOneMore(d) ==
  /\ drain[d].at = "reordering"
  /\ count' = count + 1
  /\ runs' = runs \cup {[drain |-> d, job |-> drain[d].job, at |-> "processing"]}
  /\ drain' = [drain EXCEPT ![d] = IF count + 1 <= MaxConcurrency THEN Looking ELSE Off]
  /\ UNCHANGED <<texts, jobs, client, up, crashes>>

\* The run starts, and the loop condition is tested again.
StartRun(d) ==
  /\ drain[d].at = "reordering"
  /\ count' = count + 1
  /\ runs' = runs \cup {[drain |-> d, job |-> drain[d].job, at |-> "processing"]}
  /\ drain' = [drain EXCEPT ![d] = IF count + 1 < MaxConcurrency THEN Looking ELSE Off]
  /\ UNCHANGED <<texts, jobs, client, up, crashes>>

\* A run whose failure is only logged.
EndUnwritten(r) ==
  /\ r \in runs /\ r.at = "processing"
  /\ jobs' \in {jobs, [jobs EXCEPT ![r.job].status = "COMPLETED"]}
  /\ runs' = (runs \ {r}) \cup {[r EXCEPT !.at = "ended"]}
  /\ UNCHANGED <<texts, count, drain, client, up, crashes>>

\* processText has returned or thrown, and the job's status is written.
EndJob(r) ==
  /\ r \in runs /\ r.at = "processing"
  /\ IF jobs[r.job].status = "GONE"
     THEN Die /\ jobs' = jobs
     ELSE /\ \E s \in {"COMPLETED", "FAILED"} : SetJob(r.job, s)
          /\ runs' = (runs \ {r}) \cup {[r EXCEPT !.at = "ended"]}
          /\ UNCHANGED <<count, drain, client, up>>
  /\ UNCHANGED <<texts, crashes>>

\* A finally block that forgets the counter.
FinallyUncounted(r) ==
  /\ r \in runs /\ r.at = "ended"
  /\ runs' = runs \ {r}
  /\ Spawn(count)
  /\ UNCHANGED <<texts, jobs, count, client, up, crashes>>

\* A finally block that leaves the queue to the next enqueue.
FinallyNoDrain(r) ==
  /\ r \in runs /\ r.at = "ended"
  /\ runs' = runs \ {r}
  /\ count' = count - 1
  /\ UNCHANGED <<texts, jobs, drain, client, up, crashes>>

\* The finally block: Math.max(0, runningCount - 1), then a new drain.
Finally(r) ==
  /\ r \in runs /\ r.at = "ended"
  /\ runs' = runs \ {r}
  /\ count' = IF count = 0 THEN 0 ELSE count - 1
  /\ Spawn(count')
  /\ UNCHANGED <<texts, jobs, client, up, crashes>>
-----------------------------------------------------------------------------
(* Deaths and restarts *)

Crash ==
  /\ up
  /\ crashes < MaxCrashes
  /\ crashes' = crashes + 1
  /\ Die
  /\ UNCHANGED <<texts, jobs>>

\* A restart that trusts the table.
BootUnswept ==
  /\ ~up
  /\ up' = TRUE
  /\ Spawn(0)
  /\ UNCHANGED <<texts, jobs, count, runs, client, crashes>>

\* onModuleInit: the RUNNING jobs of the dead process become FAILED, and the
\* queue is drained.
Boot ==
  /\ ~up
  /\ up' = TRUE
  /\ jobs' = [j \in Rows |->
                IF jobs[j].status = "RUNNING" THEN [jobs[j] EXCEPT !.status = "FAILED"] ELSE jobs[j]]
  /\ Spawn(0)
  /\ UNCHANGED <<texts, count, runs, client, crashes>>

Call(c) == up /\ (EnqueueCheck(c) \/ CancelRead(c))

Proceed(c) == EnqueueCreate(c) \/ EnqueueDrain(c) \/ CancelWrite(c)

DrainStep(d) == Look(d) \/ Claim(d) \/ StartRun(d)

RunStep(r) == EndJob(r) \/ Finally(r)

Next ==
  \/ \E c \in Clients : Call(c) \/ Proceed(c)
  \/ \E t \in Texts : DeleteText(t)
  \/ \E d \in Drains : DrainStep(d)
  \/ \E r \in runs : RunStep(r)
  \/ Crash
  \/ Boot

Spec == Init /\ [][Next]_vars

(***************************************************************************)
(* What is awaited goes on: every call under way, some drain as long as    *)
(* one is in its loop, some run as long as there is one (processText is    *)
(* taken to return), and the container restarts a dead server ("restart:   *)
(* unless-stopped").  Nothing makes clients call, texts vanish or the      *)
(* server die.                                                             *)
(***************************************************************************)
Fairness ==
  /\ \A c \in Clients : WF_vars(Proceed(c))
  /\ WF_vars(\E d \in Drains : DrainStep(d))
  /\ WF_vars(\E r \in runs : RunStep(r))
  /\ WF_vars(Boot)

FairSpec == Spec /\ Fairness
-----------------------------------------------------------------------------
(* Properties *)

\* A dead server does nothing.
DownIsIdle ==
  ~up => /\ runs = {} /\ count = 0
         /\ \A d \in Drains : drain[d] = Off
         /\ \A c \in Clients : client[c] = Idle

\* Drains and runs hold jobs that are no longer PENDING; a drain that looks
\* or is off holds none.
Claimed ==
  /\ \A d \in Drains :
       /\ drain[d].at \in {"claiming", "reordering"} => drain[d].job \in Rows
       /\ drain[d].at = "reordering" => jobs[drain[d].job].status # "PENDING"
       /\ drain[d].at = "looking" => drain[d] = Looking
       /\ drain[d].at = "off" => drain[d] = Off
  /\ \A r \in runs : r.job \in Rows /\ jobs[r.job].status # "PENDING"
  /\ \A c \in Clients : client[c].at = "cancelling" => client[c].job \in Rows

\* A drain starts a job once: what it is about to start is not running for it.
StartedOnce ==
  /\ \A r \in runs : drain[r.drain].at \in {"claiming", "reordering"} => drain[r.drain].job # r.job
  /\ \A r, q \in runs : r.drain = q.drain /\ r.job = q.job => r = q

\* runningCount is the number of runs under way: it neither leaks nor drops below
\* what runs, so that Math.max(0, ...) in the finally block is never needed.
CountIsRuns == IsFiniteSet(runs) /\ count = Cardinality(runs)

\* The inductive invariant: the counter and what it counts.
QueueState == TypeOK /\ DownIsIdle /\ Claimed /\ StartedOnce /\ CountIsRuns

\* No lost wake-up: while the server is up and a job is PENDING, somebody is there
\* to take it - a drain, a run (whose finally drains) or an enqueue about to drain.
NoStrandedJob ==
  up /\ (\E j \in Rows : jobs[j].status = "PENDING") =>
    \/ \E d \in Drains : drain[d] # Off
    \/ runs # {}
    \/ \E c \in Clients : client[c].at = "created"

\* A job shown as RUNNING is worked on: after a restart, a stale claim, a double
\* run or a late cancel, no job stays RUNNING with nobody to end it.
RunningIsWorked ==
  up => \A j \in Rows : jobs[j].status = "RUNNING" =>
          \/ \E d \in Drains : drain[d].at = "reordering" /\ drain[d].job = j
          \/ \E r \in runs : r.job = j /\ r.at = "processing"

\* MAX_CONCURRENCY is tested before findFirst and update are awaited and counted after
\* them (tokenization-queue.service.ts:128-168), so that drains alive at the same time
\* exceed it: by one run less than there are of them, never by more.
RunsBounded == Cardinality(runs) <= MaxConcurrency - 1 + Cardinality(Drains)

\* Every job that enters the queue settles for good, across crashes, cancels and
\* deletions.
EveryJobSettles ==
  \A j \in 1..MaxJobs :
    Len(jobs) >= j ~> [](Len(jobs) >= j /\ jobs[j].status \notin Open)

\* The comment in enqueue (tokenization-queue.service.ts:48): no second PENDING or
\* RUNNING job for a text.
NoDuplicateJob ==
  \A i, j \in Rows :
    jobs[i].text = jobs[j].text /\ jobs[i].status \in Open /\ jobs[j].status \in Open => i = j

=============================================================================
