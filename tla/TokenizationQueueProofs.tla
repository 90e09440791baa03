----------------------- MODULE TokenizationQueueProofs -----------------------
(***************************************************************************)
(* The tokenization queue, for any texts, clients, drains and bounds: the  *)
(* inductive invariant QueueState, by which runningCount is the number of  *)
(* runs under way, and on top of it that no PENDING job is stranded and    *)
(* that every RUNNING job is worked on.                                    *)
(***************************************************************************)
EXTENDS TokenizationQueue, FiniteSetTheorems, SequenceTheorems, TLAPS

(***************************************************************************)
(* What the updates of the job table do.                                   *)
(***************************************************************************)

\* The update of one job's status by id.
LEMMA OneJobSet ==
  ASSUME jobs \in Seq(Job), NEW j \in Rows, NEW s \in Statuses, SetJob(j, s)
  PROVE  /\ jobs' \in Seq(Job) /\ Len(jobs') = Len(jobs)
         /\ \A i \in Rows : jobs'[i].text = jobs[i].text
         /\ \A i \in Rows : i # j => jobs'[i].status = jobs[i].status
         /\ jobs'[j].status = s
<1>1. \A i \in Rows : jobs[i] \in Job
  BY DEF Rows
<1>2. jobs' = [i \in Rows |-> IF i = j THEN [jobs[j] EXCEPT !.status = s] ELSE jobs[i]]
  <2>1. jobs = [i \in Rows |-> jobs[i]]
    BY LenProperties DEF Rows
  <2> QED BY <2>1 DEF SetJob
<1>3. [jobs[j] EXCEPT !.status = s] \in Job
  BY <1>1 DEF Job
<1>4. jobs' \in [1..Len(jobs) -> Job] /\ Len(jobs) \in Nat
  BY <1>1, <1>2, <1>3 DEF Rows
<1>5. jobs' \in Seq(Job) /\ Len(jobs') = Len(jobs)
  BY <1>2, <1>4 DEF Rows
<1>6. /\ \A i \in Rows : jobs'[i].text = jobs[i].text
      /\ \A i \in Rows : i # j => jobs'[i].status = jobs[i].status
      /\ jobs'[j].status = s
  BY <1>1, <1>2 DEF Job
<1> QED BY <1>5, <1>6

\* A deleted text takes its jobs along.
LEMMA JobsGone ==
  ASSUME jobs \in Seq(Job), NEW t,
         jobs' = [j \in Rows |->
                    IF jobs[j].text = t THEN [jobs[j] EXCEPT !.status = "GONE"] ELSE jobs[j]]
  PROVE  /\ jobs' \in Seq(Job) /\ Len(jobs') = Len(jobs)
         /\ \A i \in Rows : jobs'[i].status = jobs[i].status \/ jobs'[i].status = "GONE"
<1>1. \A j \in Rows : jobs[j] \in Job
  BY DEF Rows
<1>2. \A j \in Rows : jobs'[j] \in Job
  BY <1>1 DEF Job, Statuses
<1>3. jobs' \in [1..Len(jobs) -> Job] /\ Len(jobs) \in Nat
  BY <1>2 DEF Rows
<1>4. jobs' \in Seq(Job) /\ Len(jobs') = Len(jobs)
  BY <1>3
<1>5. \A i \in Rows : jobs'[i].status = jobs[i].status \/ jobs'[i].status = "GONE"
  BY <1>1 DEF Job
<1> QED BY <1>4, <1>5

\* The sweep of onModuleInit leaves no job RUNNING.
LEMMA JobsSwept ==
  ASSUME jobs \in Seq(Job),
         jobs' = [j \in Rows |->
                    IF jobs[j].status = "RUNNING" THEN [jobs[j] EXCEPT !.status = "FAILED"]
                    ELSE jobs[j]]
  PROVE  /\ jobs' \in Seq(Job) /\ Len(jobs') = Len(jobs)
         /\ \A i \in Rows : jobs'[i].status # "RUNNING"
<1>1. \A j \in Rows : jobs[j] \in Job
  BY DEF Rows
<1>2. \A j \in Rows : jobs'[j] \in Job
  BY <1>1 DEF Job, Statuses
<1>3. jobs' \in [1..Len(jobs) -> Job] /\ Len(jobs) \in Nat
  BY <1>2 DEF Rows
<1>4. jobs' \in Seq(Job) /\ Len(jobs') = Len(jobs)
  BY <1>3
<1>5. \A i \in Rows : jobs'[i].status # "RUNNING"
  BY <1>1 DEF Job
<1> QED BY <1>4, <1>5

\* What is left of a list once the queued texts are taken out is again a list.
LEMMA UnqueuedIsList ==
  ASSUME NEW list \in Seq(Texts), NEW rest \in Unqueued(list)
  PROVE  rest \in Seq(Texts)
<1> DEFINE Free(t) == \A j \in Rows : jobs[j].text = t => jobs[j].status \notin Open
           kept == {i \in 1..Len(list) : Free(list[i])}
           n == Cardinality(kept)
<1>1. IsFiniteSet(kept)
  <2>1. IsFiniteSet(1..Len(list))
    BY FS_Interval
  <2> QED BY <2>1, FS_Subset
<1>2. n \in Nat
  BY <1>1, FS_CardinalityType
<1>3. PICK order \in [1..n -> kept] : rest = [k \in 1..n |-> list[order[k]]]
  BY DEF Unqueued, Bijection, Injection, Surjection
<1>4. \A k \in 1..n : list[order[k]] \in Texts
  BY <1>3
<1>5. rest \in [1..n -> Texts]
  BY <1>3, <1>4
<1> HIDE DEF n
<1> QED BY <1>2, <1>5, IsASeq

\* The rows that createMany adds come after the others and are PENDING.
LEMMA JobsCreated ==
  ASSUME jobs \in Seq(Job), NEW list \in Seq(Texts),
         jobs' = jobs \o [i \in 1..Len(list) |-> [text |-> list[i], status |-> "PENDING"]]
  PROVE  /\ jobs' \in Seq(Job) /\ Len(jobs') = Len(jobs) + Len(list)
         /\ \A i \in Rows : jobs'[i] = jobs[i]
         /\ \A i \in 1..Len(jobs') : i \notin Rows => jobs'[i].status = "PENDING"
<1> DEFINE new == [i \in 1..Len(list) |-> [text |-> list[i], status |-> "PENDING"]]
<1>1. \A i \in 1..Len(list) : new[i] \in Job
  BY DEF Job, Statuses
<1>2. new \in Seq(Job) /\ Len(new) = Len(list)
  BY <1>1
<1>3. Len(jobs) \in Nat /\ Len(list) \in Nat
  OBVIOUS
<1>4. /\ jobs' \in Seq(Job) /\ Len(jobs') = Len(jobs) + Len(list)
      /\ \A i \in 1..Len(jobs) + Len(list) :
           jobs'[i] = IF i <= Len(jobs) THEN jobs[i] ELSE new[i - Len(jobs)]
  BY <1>2, ConcatProperties
<1>5. \A i \in Rows : jobs'[i] = jobs[i]
  BY <1>3, <1>4 DEF Rows
<1>6. \A i \in 1..Len(jobs') : i \notin Rows => jobs'[i].status = "PENDING"
  BY <1>3, <1>4 DEF Rows
<1> QED BY <1>4, <1>5, <1>6

(***************************************************************************)
(* What the updates of the loops do.                                       *)
(***************************************************************************)

\* Starting a drain: below the limit one more drain looks for jobs, at the limit
\* nothing changes.
LEMMA Spawned ==
  ASSUME drain \in [Drains -> DrainState], NEW n \in Nat, Spawn(n)
  PROVE  /\ drain' \in [Drains -> DrainState]
         /\ \A d \in Drains : drain'[d] = drain[d] \/ (drain[d] = Off /\ drain'[d] = Looking)
         /\ n < MaxConcurrency => \E d \in Drains : drain'[d] # Off
<1>1. Looking \in DrainState /\ Looking # Off
  BY MaxJobsAssumption DEF Looking, Off, DrainState
<1>2. CASE n < MaxConcurrency
  BY <1>1, <1>2 DEF Spawn
<1>3. CASE ~(n < MaxConcurrency)
  BY <1>3 DEF Spawn
<1> QED BY <1>2, <1>3

\* A move of one drain.
LEMMA DrainMoved ==
  ASSUME drain \in [Drains -> DrainState], NEW d \in Drains, NEW v \in DrainState,
         drain' = [drain EXCEPT ![d] = v]
  PROVE  /\ drain' \in [Drains -> DrainState] /\ drain'[d] = v
         /\ \A e \in Drains : e # d => drain'[e] = drain[e]
  OBVIOUS

\* A move of one client call.
LEMMA ClientMoved ==
  ASSUME client \in [Clients -> ClientState], NEW c \in Clients, NEW v \in ClientState,
         client' = [client EXCEPT ![c] = v]
  PROVE  /\ client' \in [Clients -> ClientState] /\ client'[c] = v
         /\ \A b \in Clients : b # c => client'[b] = client[b]
  OBVIOUS

\* A counted run that is left is one that exists.
LEMMA CountedRuns ==
  ASSUME CountIsRuns
  PROVE  count \in Nat /\ (count = 0 <=> runs = {})
  BY FS_CardinalityType, FS_EmptySet DEF CountIsRuns

(***************************************************************************)
(* The invariant that carries the three theorems.                          *)
(***************************************************************************)
Inv == QueueState /\ NoStrandedJob /\ RunningIsWorked

\* A loop that is off and a client with no call.
LEMMA RestIsTyped == Off \in DrainState /\ Looking \in DrainState /\ Idle \in ClientState
  BY MaxJobsAssumption, EmptySeq DEF Off, Looking, DrainState, Idle, ClientState

\* The initial state.
LEMMA InvInit ==
  ASSUME Init
  PROVE  Inv
<1>1. TypeOK
  <2>1. <<>> \in Seq(Job) /\ Len(<<>>) <= MaxJobs
    BY MaxJobsAssumption, EmptySeq
  <2> QED BY <2>1, RestIsTyped DEF Init, TypeOK
<1>2. DownIsIdle /\ StartedOnce
  BY DEF Init, DownIsIdle, StartedOnce
<1>3. Claimed
  BY DEF Init, Claimed, Off, Idle
<1>4. CountIsRuns
  BY FS_EmptySet DEF Init, CountIsRuns
<1>5. NoStrandedJob /\ RunningIsWorked
  BY DEF Init, NoStrandedJob, RunningIsWorked
<1> QED BY <1>1, <1>2, <1>3, <1>4, <1>5 DEF Inv, QueueState

\* The death of the process.
LEMMA InvDie ==
  ASSUME Inv, Die, jobs' = jobs, texts' = texts, crashes' \in Nat
  PROVE  Inv'
<1> USE DEF Die
<1>1. TypeOK'
  BY RestIsTyped DEF Inv, QueueState, TypeOK
<1>2. DownIsIdle' /\ StartedOnce'
  BY DEF DownIsIdle, StartedOnce
<1>3. Claimed'
  BY DEF Claimed, Off, Idle
<1>4. CountIsRuns'
  BY FS_EmptySet DEF CountIsRuns
<1>5. NoStrandedJob' /\ RunningIsWorked'
  BY DEF NoStrandedJob, RunningIsWorked
<1> QED BY <1>1, <1>2, <1>3, <1>4, <1>5 DEF Inv, QueueState

\* enqueue's check.
LEMMA InvEnqueueCheck ==
  ASSUME Inv, NEW c \in Clients, up, EnqueueCheck(c)
  PROVE  Inv'
<1>0. PICK list \in Lists : \E rest \in Unqueued(list) :
        client' = [client EXCEPT ![c] = [at |-> "checked", list |-> rest, job |-> 0]]
  BY DEF EnqueueCheck
<1>1. PICK rest \in Unqueued(list) :
        client' = [client EXCEPT ![c] = [at |-> "checked", list |-> rest, job |-> 0]]
  BY <1>0
<1>2. rest \in Seq(Texts)
  BY UnqueuedIsList, ListsAssumption
<1> DEFINE v == [at |-> "checked", list |-> rest, job |-> 0]
<1>3. v \in ClientState
  BY <1>2, MaxJobsAssumption DEF ClientState
<1>4. /\ client' \in [Clients -> ClientState] /\ client'[c] = v
      /\ \A b \in Clients : b # c => client'[b] = client[b]
  BY <1>1, <1>3, ClientMoved DEF Inv, QueueState, TypeOK
<1> USE DEF EnqueueCheck
<1>5. TypeOK'
  BY <1>4 DEF Inv, QueueState, TypeOK
<1>6. DownIsIdle' /\ StartedOnce' /\ CountIsRuns'
  BY DEF Inv, QueueState, DownIsIdle, StartedOnce, CountIsRuns
<1>7. Claimed'
  BY <1>4 DEF Inv, QueueState, Claimed, Rows
<1>8. NoStrandedJob' /\ RunningIsWorked'
  BY <1>4 DEF Inv, NoStrandedJob, RunningIsWorked, Rows
<1> QED BY <1>5, <1>6, <1>7, <1>8 DEF Inv, QueueState

\* enqueue's createMany.
LEMMA InvEnqueueCreate ==
  ASSUME Inv, NEW c \in Clients, EnqueueCreate(c)
  PROVE  Inv'
<1> DEFINE list == client[c].list
<1>1. list \in Seq(Texts) /\ client[c].at = "checked" /\ jobs \in Seq(Job)
  BY DEF Inv, QueueState, TypeOK, ClientState, EnqueueCreate
<1>2. up
  BY <1>1 DEF Inv, QueueState, DownIsIdle, Idle
<1> USE DEF EnqueueCreate
<1>3. CASE \A i \in 1..Len(list) : list[i] \in texts
  <2> DEFINE v == [at |-> "created", list |-> <<>>, job |-> 0]
  <2>1. v \in ClientState
    BY MaxJobsAssumption, EmptySeq DEF ClientState
  <2>2. /\ client' \in [Clients -> ClientState] /\ client'[c] = v
        /\ \A b \in Clients : b # c => client'[b] = client[b]
    BY <1>3, <2>1, ClientMoved DEF Inv, QueueState, TypeOK
  <2>3. /\ jobs' \in Seq(Job) /\ Len(jobs') = Len(jobs) + Len(list)
        /\ \A i \in Rows : jobs'[i] = jobs[i]
        /\ \A i \in 1..Len(jobs') : i \notin Rows => jobs'[i].status = "PENDING"
    BY <1>1, <1>3, JobsCreated
  <2>4. Len(jobs) \in Nat /\ Len(list) \in Nat /\ Rows \subseteq Rows'
    BY <1>1, <2>3 DEF Rows
  <2>5. TypeOK'
    BY <1>3, <2>2, <2>3 DEF Inv, QueueState, TypeOK
  <2>6. DownIsIdle' /\ StartedOnce' /\ CountIsRuns'
    BY <1>2 DEF Inv, QueueState, DownIsIdle, StartedOnce, CountIsRuns
  <2>7. Claimed'
    <3>1. UNCHANGED <<drain, runs>>
      BY <1>3
    <3>2. \A i \in Rows : i \in Rows' /\ jobs'[i] = jobs[i]
      BY <2>3, <2>4
    <3>3. \A b \in Clients : client'[b].at = "cancelling" => client'[b].job \in Rows'
      <4>1. \A b \in Clients : client'[b].at = "cancelling" => client[b].at = "cancelling" /\ client'[b] = client[b]
        BY <2>2
      <4> QED BY <3>2, <4>1 DEF Inv, QueueState, Claimed
    <3> QED BY <3>1, <3>2, <3>3 DEF Inv, QueueState, Claimed
  <2>8. NoStrandedJob'
    BY <2>2 DEF NoStrandedJob
  <2>9. RunningIsWorked'
    BY <1>2, <2>3 DEF Inv, RunningIsWorked, Rows
  <2> QED BY <2>5, <2>6, <2>7, <2>8, <2>9 DEF Inv, QueueState
<1>4. CASE ~(\A i \in 1..Len(list) : list[i] \in texts)
  <2>1. jobs' = jobs /\ client' = [client EXCEPT ![c] = Idle]
    BY <1>4
  <2>2. /\ client' \in [Clients -> ClientState] /\ client'[c] = Idle
        /\ \A b \in Clients : b # c => client'[b] = client[b]
    BY <2>1, RestIsTyped, ClientMoved DEF Inv, QueueState, TypeOK
  <2>3. TypeOK'
    BY <2>1, <2>2 DEF Inv, QueueState, TypeOK
  <2>4. DownIsIdle' /\ StartedOnce' /\ CountIsRuns'
    BY <1>2 DEF Inv, QueueState, DownIsIdle, StartedOnce, CountIsRuns
  <2>5. Claimed'
    BY <2>1, <2>2 DEF Inv, QueueState, Claimed, Rows, Idle
  <2>6. NoStrandedJob' /\ RunningIsWorked'
    BY <1>1, <2>1, <2>2 DEF Inv, NoStrandedJob, RunningIsWorked, Rows
  <2> QED BY <2>3, <2>4, <2>5, <2>6 DEF Inv, QueueState
<1> QED BY <1>3, <1>4

\* enqueue starts a drain: at the limit there is a run to drain later.
LEMMA InvEnqueueDrain ==
  ASSUME Inv, NEW c \in Clients, EnqueueDrain(c)
  PROVE  Inv'
<1>1. up /\ count \in Nat /\ (count = 0 <=> runs = {})
  BY CountedRuns DEF Inv, QueueState, DownIsIdle, Idle, EnqueueDrain
<1>2. /\ drain' \in [Drains -> DrainState]
      /\ \A d \in Drains : drain'[d] = drain[d] \/ (drain[d] = Off /\ drain'[d] = Looking)
      /\ count < MaxConcurrency => \E d \in Drains : drain'[d] # Off
  BY <1>1, Spawned DEF Inv, QueueState, TypeOK, EnqueueDrain
<1>3. /\ client' \in [Clients -> ClientState] /\ client'[c] = Idle
      /\ \A b \in Clients : b # c => client'[b] = client[b]
  BY RestIsTyped, ClientMoved DEF Inv, QueueState, TypeOK, EnqueueDrain
<1> USE DEF EnqueueDrain
<1>4. TypeOK'
  BY <1>2, <1>3 DEF Inv, QueueState, TypeOK
<1>5. DownIsIdle' /\ CountIsRuns'
  BY <1>1 DEF Inv, QueueState, DownIsIdle, CountIsRuns
<1>6. StartedOnce'
  BY <1>2 DEF Inv, QueueState, TypeOK, Run, StartedOnce, Off, Looking
<1>7. Claimed'
  BY <1>2, <1>3 DEF Inv, QueueState, Claimed, Rows, Off, Looking, Idle
<1>8. NoStrandedJob'
  BY <1>1, <1>2, MaxConcurrencyAssumption DEF NoStrandedJob
<1>9. RunningIsWorked'
  BY <1>1, <1>2 DEF Inv, RunningIsWorked, Rows, Off, Looking
<1> QED BY <1>4, <1>5, <1>6, <1>7, <1>8, <1>9 DEF Inv, QueueState

\* cancel reads a PENDING job.
LEMMA InvCancelRead ==
  ASSUME Inv, NEW c \in Clients, up, CancelRead(c)
  PROVE  Inv'
<1>1. PICK j \in Rows :
        client' = [client EXCEPT ![c] = [at |-> "cancelling", list |-> <<>>, job |-> j]]
  BY DEF CancelRead
<1> DEFINE v == [at |-> "cancelling", list |-> <<>>, job |-> j]
<1>2. v \in ClientState
  BY MaxJobsAssumption, EmptySeq DEF ClientState, Rows, Inv, QueueState, TypeOK
<1>3. /\ client' \in [Clients -> ClientState] /\ client'[c] = v
      /\ \A b \in Clients : b # c => client'[b] = client[b]
  BY <1>1, <1>2, ClientMoved DEF Inv, QueueState, TypeOK
<1> USE DEF CancelRead
<1>4. TypeOK'
  BY <1>3 DEF Inv, QueueState, TypeOK
<1>5. DownIsIdle' /\ StartedOnce' /\ CountIsRuns'
  BY DEF Inv, QueueState, DownIsIdle, StartedOnce, CountIsRuns
<1>6. Claimed'
  BY <1>3 DEF Inv, QueueState, Claimed, Rows
<1>7. NoStrandedJob' /\ RunningIsWorked'
  BY <1>3 DEF Inv, NoStrandedJob, RunningIsWorked, Rows
<1> QED BY <1>4, <1>5, <1>6, <1>7 DEF Inv, QueueState

\* cancel writes CANCELLED over whatever status the job has now.
LEMMA InvCancelWrite ==
  ASSUME Inv, NEW c \in Clients, CancelWrite(c)
  PROVE  Inv'
<1> DEFINE j == client[c].job
<1>1. j \in Rows /\ jobs \in Seq(Job) /\ up
  BY DEF Inv, QueueState, TypeOK, Claimed, DownIsIdle, Idle, CancelWrite
<1>2. /\ client' \in [Clients -> ClientState] /\ client'[c] = Idle
      /\ \A b \in Clients : b # c => client'[b] = client[b]
  BY RestIsTyped, ClientMoved DEF Inv, QueueState, TypeOK, CancelWrite
<1>3. /\ jobs' \in Seq(Job) /\ Len(jobs') = Len(jobs)
      /\ \A i \in Rows : jobs'[i].status = jobs[i].status \/ jobs'[i].status = "CANCELLED"
  BY <1>1, OneJobSet DEF CancelWrite, Statuses
<1>4. Rows' = Rows
  BY <1>3 DEF Rows
<1> USE DEF CancelWrite
<1>5. TypeOK'
  BY <1>2, <1>3 DEF Inv, QueueState, TypeOK
<1>6. DownIsIdle' /\ StartedOnce' /\ CountIsRuns'
  BY <1>1 DEF Inv, QueueState, DownIsIdle, StartedOnce, CountIsRuns
<1>7. Claimed'
  BY <1>2, <1>3, <1>4 DEF Inv, QueueState, Claimed, Idle
<1>8. NoStrandedJob' /\ RunningIsWorked'
  BY <1>2, <1>3, <1>4 DEF Inv, NoStrandedJob, RunningIsWorked
<1> QED BY <1>5, <1>6, <1>7, <1>8 DEF Inv, QueueState

\* A text is deleted, and its jobs with it.
LEMMA InvDeleteText ==
  ASSUME Inv, NEW t \in Texts, DeleteText(t)
  PROVE  Inv'
<1>1. /\ jobs' \in Seq(Job) /\ Len(jobs') = Len(jobs)
      /\ \A i \in Rows : jobs'[i].status = jobs[i].status \/ jobs'[i].status = "GONE"
  BY JobsGone DEF Inv, QueueState, TypeOK, DeleteText
<1>2. Rows' = Rows
  BY <1>1 DEF Rows
<1> USE DEF DeleteText, Volatile
<1>3. TypeOK'
  BY <1>1 DEF Inv, QueueState, TypeOK
<1>4. DownIsIdle' /\ StartedOnce' /\ CountIsRuns'
  BY DEF Inv, QueueState, DownIsIdle, StartedOnce, CountIsRuns
<1>6. UNCHANGED <<up, drain, runs, client>>
  OBVIOUS
<1>5. Claimed'
  <2>1. \A i \in Rows : i \in Rows' /\ (jobs[i].status # "PENDING" => jobs'[i].status # "PENDING")
    BY <1>1, <1>2
  <2> QED BY <1>6, <2>1 DEF Inv, QueueState, Claimed
<1>7. NoStrandedJob'
  BY <1>1, <1>2, <1>6 DEF Inv, NoStrandedJob
<1>8. RunningIsWorked'
  <2>1. \A i \in Rows' : jobs'[i].status = "RUNNING" => i \in Rows /\ jobs[i].status = "RUNNING"
    BY <1>1, <1>2
  <2> QED BY <1>6, <2>1 DEF Inv, RunningIsWorked
<1> QED BY <1>3, <1>4, <1>5, <1>7, <1>8 DEF Inv, QueueState

\* A drain finds a PENDING job, which none of its runs can have, or stops because
\* there is none.
LEMMA InvLook ==
  ASSUME Inv, NEW d \in Drains, Look(d)
  PROVE  Inv'
<1>0. up /\ drain[d].at = "looking"
  BY DEF Inv, QueueState, DownIsIdle, Off, Look
<1>1. CASE \E j \in Rows :
             /\ jobs[j].status = "PENDING"
             /\ drain' = [drain EXCEPT ![d] = [at |-> "claiming", job |-> j]]
  <2>1. PICK j \in Rows :
          /\ jobs[j].status = "PENDING"
          /\ drain' = [drain EXCEPT ![d] = [at |-> "claiming", job |-> j]]
    BY <1>1
  <2> DEFINE v == [at |-> "claiming", job |-> j]
  <2>2. v \in DrainState
    BY MaxJobsAssumption DEF DrainState, Rows, Inv, QueueState, TypeOK
  <2>3. /\ drain' \in [Drains -> DrainState] /\ drain'[d] = v
        /\ \A e \in Drains : e # d => drain'[e] = drain[e]
    BY <2>1, <2>2, DrainMoved DEF Inv, QueueState, TypeOK
  <2> USE DEF Look
  <2>4. TypeOK'
    BY <2>3 DEF Inv, QueueState, TypeOK
  <2>5. DownIsIdle' /\ CountIsRuns'
    BY <1>0 DEF Inv, QueueState, DownIsIdle, CountIsRuns
  <2>6. Claimed'
    BY <2>1, <2>3 DEF Inv, QueueState, Claimed, Rows
  <2>7. StartedOnce'
    BY <2>1, <2>3 DEF Inv, QueueState, TypeOK, Run, Claimed, StartedOnce
  <2>8. NoStrandedJob'
    BY <2>3 DEF NoStrandedJob, Off
  <2>9. RunningIsWorked'
    BY <1>0, <2>3 DEF Inv, RunningIsWorked, Rows
  <2> QED BY <2>4, <2>5, <2>6, <2>7, <2>8, <2>9 DEF Inv, QueueState
<1>2. CASE /\ \A j \in Rows : jobs[j].status # "PENDING"
           /\ drain' = [drain EXCEPT ![d] = Off]
  <2>1. /\ drain' \in [Drains -> DrainState] /\ drain'[d] = Off
        /\ \A e \in Drains : e # d => drain'[e] = drain[e]
    BY <1>2, RestIsTyped, DrainMoved DEF Inv, QueueState, TypeOK
  <2> USE DEF Look
  <2>2. TypeOK'
    BY <2>1 DEF Inv, QueueState, TypeOK
  <2>3. DownIsIdle' /\ CountIsRuns'
    BY <1>0 DEF Inv, QueueState, DownIsIdle, CountIsRuns
  <2>4. Claimed'
    BY <2>1 DEF Inv, QueueState, Claimed, Rows, Off
  <2>5. StartedOnce'
    BY <2>1 DEF Inv, QueueState, TypeOK, Run, StartedOnce, Off
  <2>6. NoStrandedJob'
    BY <1>2 DEF NoStrandedJob, Rows
  <2>7. RunningIsWorked'
    BY <1>0, <2>1 DEF Inv, RunningIsWorked, Rows
  <2> QED BY <2>2, <2>3, <2>4, <2>5, <2>6, <2>7 DEF Inv, QueueState
<1> QED BY <1>1, <1>2 DEF Look

\* A drain claims the job it found, whatever became of it since.
LEMMA InvClaim ==
  ASSUME Inv, NEW d \in Drains, Claim(d)
  PROVE  Inv'
<1> DEFINE j == drain[d].job
<1>0. up /\ drain[d].at = "claiming" /\ j \in Rows /\ jobs \in Seq(Job)
  BY DEF Inv, QueueState, TypeOK, DownIsIdle, Claimed, Off, Claim
<1>1. CASE jobs[j].status = "GONE"
  BY <1>1, InvDie DEF Claim, Inv, QueueState, TypeOK
<1>2. CASE jobs[j].status # "GONE"
  <2>1. /\ jobs' \in Seq(Job) /\ Len(jobs') = Len(jobs)
        /\ \A i \in Rows : i # j => jobs'[i].status = jobs[i].status
        /\ jobs'[j].status = "RUNNING"
    BY <1>0, <1>2, OneJobSet DEF Claim, Statuses
  <2>2. Rows' = Rows
    BY <2>1 DEF Rows
  <2> DEFINE v == [drain[d] EXCEPT !.at = "reordering"]
  <2>3. v \in DrainState /\ v.at = "reordering" /\ v.job = j
    BY DEF Inv, QueueState, TypeOK, DrainState
  <2>4. drain' = [drain EXCEPT ![d] = v]
    BY <1>2 DEF Claim
  <2>5. /\ drain' \in [Drains -> DrainState] /\ drain'[d] = v
        /\ \A e \in Drains : e # d => drain'[e] = drain[e]
    BY <2>3, <2>4, DrainMoved DEF Inv, QueueState, TypeOK
  <2>6. UNCHANGED <<texts, count, runs, client, up, crashes>>
    BY <1>2 DEF Claim
  <2> HIDE DEF v
  <2>7. TypeOK'
    BY <2>1, <2>5, <2>6 DEF Inv, QueueState, TypeOK
  <2>8. DownIsIdle' /\ CountIsRuns'
    BY <1>0, <2>6 DEF Inv, QueueState, DownIsIdle, CountIsRuns
  <2>9. Claimed'
    BY <1>0, <2>1, <2>2, <2>3, <2>5, <2>6 DEF Inv, QueueState, Claimed
  <2>10. StartedOnce'
    BY <1>0, <2>3, <2>5, <2>6 DEF Inv, QueueState, TypeOK, Run, StartedOnce
  <2>11. NoStrandedJob'
    BY <2>3, <2>5 DEF NoStrandedJob, Off
  <2>12. RunningIsWorked'
    <3> SUFFICES ASSUME up', NEW i \in Rows', jobs'[i].status = "RUNNING"
                 PROVE  \/ \E e \in Drains : drain'[e].at = "reordering" /\ drain'[e].job = i
                        \/ \E r \in runs' : r.job = i /\ r.at = "processing"
      BY DEF RunningIsWorked
    <3>1. CASE i = j
      BY <2>3, <2>5, <3>1
    <3>2. CASE i # j
      <4>1. up /\ i \in Rows /\ jobs[i].status = "RUNNING"
        BY <2>1, <2>2, <2>6, <3>2
      <4>2. ASSUME NEW e \in Drains, drain[e].at = "reordering", drain[e].job = i  PROVE drain'[e] = drain[e]
        BY <1>0, <2>5, <3>2, <4>2
      <4> QED BY <2>6, <4>1, <4>2 DEF Inv, RunningIsWorked
    <3> QED BY <3>1, <3>2
  <2> QED BY <2>7, <2>8, <2>9, <2>10, <2>11, <2>12 DEF Inv, QueueState
<1> QED BY <1>1, <1>2

\* A run starts: it is new, and it is counted.
LEMMA InvStartRun ==
  ASSUME Inv, NEW d \in Drains, StartRun(d)
  PROVE  Inv'
<1> DEFINE j == drain[d].job
           r == [drain |-> d, job |-> j, at |-> "processing"]
           v == IF count + 1 < MaxConcurrency THEN Looking ELSE Off
<1>1. /\ up /\ j \in Rows /\ jobs[j].status # "PENDING" /\ Rows \subseteq 1..MaxJobs
      /\ drain[d].at = "reordering"
  BY MaxJobsAssumption DEF Inv, QueueState, TypeOK, DownIsIdle, Claimed, Off, StartRun, Rows
<1>2. r \in Run /\ r.drain = d /\ r.job = j /\ r.at = "processing"
  BY <1>1 DEF Run
<1>3. \A q \in runs : ~(q.drain = d /\ q.job = j)
  BY <1>1 DEF Inv, QueueState, StartedOnce
<1>4. v \in DrainState /\ v \in {Looking, Off}
  BY RestIsTyped
<1>5. /\ drain' \in [Drains -> DrainState] /\ drain'[d] = v
      /\ \A e \in Drains : e # d => drain'[e] = drain[e]
  BY <1>4, DrainMoved DEF Inv, QueueState, TypeOK, StartRun
<1>6. runs' = runs \cup {r} /\ count' = count + 1
  BY DEF StartRun
<1>7. UNCHANGED <<texts, jobs, client, up, crashes>>
  BY DEF StartRun
<1> HIDE DEF v, r, j
<1>8. TypeOK'
  BY <1>2, <1>5, <1>6, <1>7 DEF Inv, QueueState, TypeOK
<1>9. DownIsIdle'
  BY <1>1, <1>7 DEF DownIsIdle
<1>10. CountIsRuns'
  BY <1>2, <1>3, <1>6, FS_AddElement DEF Inv, QueueState, CountIsRuns
<1>11. Claimed'
  BY <1>1, <1>2, <1>4, <1>5, <1>6, <1>7 DEF Inv, QueueState, Claimed, Rows, Off, Looking
<1>12. StartedOnce'
  <2>1. \A q \in runs' : drain'[q.drain].at \in {"claiming", "reordering"} =>
                           drain'[q.drain].job # q.job
    BY <1>2, <1>4, <1>5, <1>6 DEF Inv, QueueState, TypeOK, Run, StartedOnce, Off, Looking
  <2>2. \A p, q \in runs' : p.drain = q.drain /\ p.job = q.job => p = q
    BY <1>2, <1>3, <1>6 DEF Inv, QueueState, StartedOnce
  <2> QED BY <2>1, <2>2 DEF StartedOnce
<1>13. NoStrandedJob'
  BY <1>6 DEF NoStrandedJob
<1>14. RunningIsWorked'
  BY <1>1, <1>2, <1>5, <1>6, <1>7 DEF Inv, RunningIsWorked, Rows, j
<1> QED BY <1>8, <1>9, <1>10, <1>11, <1>12, <1>13, <1>14 DEF Inv, QueueState

\* A run writes its job's status; it stays counted until its finally block.
LEMMA InvEndJob ==
  ASSUME Inv, NEW r \in runs, EndJob(r)
  PROVE  Inv'
<1>0. /\ up /\ r.at = "processing" /\ r.job \in Rows /\ jobs \in Seq(Job)
      /\ r \in Run
  BY DEF Inv, QueueState, TypeOK, DownIsIdle, Claimed, EndJob
<1>1. CASE jobs[r.job].status = "GONE"
  BY <1>1, InvDie DEF EndJob, Inv, QueueState, TypeOK
<1>2. CASE jobs[r.job].status # "GONE"
  <2> DEFINE e == [r EXCEPT !.at = "ended"]
  <2>1. e \in Run /\ e.drain = r.drain /\ e.job = r.job /\ e.at = "ended"
    BY <1>0 DEF Run
  <2>2. /\ runs' = (runs \ {r}) \cup {e}
        /\ UNCHANGED <<texts, count, drain, client, up, crashes>>
    BY <1>2 DEF EndJob
  <2> HIDE DEF e
  <2>3. PICK s \in {"COMPLETED", "FAILED"} : SetJob(r.job, s)
    BY <1>2 DEF EndJob
  <2>4. /\ jobs' \in Seq(Job) /\ Len(jobs') = Len(jobs)
        /\ \A i \in Rows : i # r.job => jobs'[i].status = jobs[i].status
        /\ jobs'[r.job].status = s
    BY <1>0, <2>3, OneJobSet DEF Statuses
  <2>5. Rows' = Rows
    BY <2>4 DEF Rows
  <2>6. e \notin runs
    BY <1>0, <2>1 DEF Inv, QueueState, StartedOnce
  <2>7. TypeOK'
    BY <2>1, <2>2, <2>4 DEF Inv, QueueState, TypeOK
  <2>8. DownIsIdle'
    BY <1>0, <2>2 DEF DownIsIdle
  <2>9. CountIsRuns'
    <3>1. IsFiniteSet(runs \ {r}) /\ Cardinality(runs \ {r}) = Cardinality(runs) - 1
      BY FS_RemoveElement DEF Inv, QueueState, CountIsRuns
    <3>2. /\ IsFiniteSet((runs \ {r}) \cup {e})
          /\ Cardinality((runs \ {r}) \cup {e}) = Cardinality(runs) - 1 + 1
      BY <2>6, <3>1, FS_AddElement
    <3>3. Cardinality(runs) \in Nat
      BY FS_CardinalityType DEF Inv, QueueState, CountIsRuns
    <3> QED BY <2>2, <3>2, <3>3 DEF Inv, QueueState, CountIsRuns
  <2>10. Claimed'
    BY <1>0, <2>1, <2>2, <2>4, <2>5 DEF Inv, QueueState, Claimed
  <2>11. StartedOnce'
    BY <1>0, <2>1, <2>2 DEF Inv, QueueState, StartedOnce
  <2>12. NoStrandedJob'
    BY <2>2 DEF NoStrandedJob
  <2>13. RunningIsWorked'
    BY <1>0, <2>2, <2>4, <2>5 DEF Inv, RunningIsWorked
  <2> QED BY <2>7, <2>8, <2>9, <2>10, <2>11, <2>12, <2>13 DEF Inv, QueueState
<1> QED BY <1>1, <1>2

\* The finally block of a run: one counted run less, and a drain unless as many as
\* the limit still run.
LEMMA InvFinally ==
  ASSUME Inv, NEW r \in runs, Finally(r)
  PROVE  Inv'
<1>1. up /\ r.at = "ended" /\ count \in Nat /\ count # 0
  BY CountedRuns DEF Inv, QueueState, DownIsIdle, Finally
<1>2. count' = count - 1 /\ count' \in Nat
  BY <1>1 DEF Finally
<1>3. runs' = runs \ {r} /\ UNCHANGED <<texts, jobs, client, up, crashes>>
  BY DEF Finally
<1>4. /\ drain' \in [Drains -> DrainState]
      /\ \A d \in Drains : drain'[d] = drain[d] \/ (drain[d] = Off /\ drain'[d] = Looking)
      /\ count' < MaxConcurrency => \E d \in Drains : drain'[d] # Off
  BY <1>2, Spawned DEF Inv, QueueState, TypeOK, Finally
<1>5. TypeOK'
  BY <1>2, <1>3, <1>4 DEF Inv, QueueState, TypeOK
<1>6. DownIsIdle'
  BY <1>1, <1>3 DEF DownIsIdle
<1>7. CountIsRuns'
  BY <1>2, <1>3, FS_RemoveElement DEF Inv, QueueState, CountIsRuns
<1>8. Claimed'
  BY <1>3, <1>4 DEF Inv, QueueState, Claimed, Rows, Off, Looking
<1>9. StartedOnce'
  BY <1>3, <1>4 DEF Inv, QueueState, TypeOK, Run, StartedOnce, Off, Looking
<1>10. NoStrandedJob'
  <2>1. CASE count' < MaxConcurrency
    BY <1>4, <2>1 DEF NoStrandedJob
  <2>2. CASE ~(count' < MaxConcurrency)
    <3>1. count' # 0
      BY <1>2, <2>2, MaxConcurrencyAssumption
    <3>2. runs' # {}
      BY <1>7, <3>1, FS_EmptySet DEF CountIsRuns
    <3> QED BY <3>2 DEF NoStrandedJob
  <2> QED BY <2>1, <2>2
<1>11. RunningIsWorked'
  BY <1>1, <1>3, <1>4 DEF Inv, RunningIsWorked, Rows, Off, Looking
<1> QED BY <1>5, <1>6, <1>7, <1>8, <1>9, <1>10, <1>11 DEF Inv, QueueState

\* onModuleInit: no job is RUNNING any more, and a drain looks for the PENDING ones.
LEMMA InvBoot ==
  ASSUME Inv, Boot
  PROVE  Inv'
<1>1. /\ jobs' \in Seq(Job) /\ Len(jobs') = Len(jobs)
      /\ \A i \in Rows : jobs'[i].status # "RUNNING"
  BY JobsSwept DEF Inv, QueueState, TypeOK, Boot
<1>2. Rows' = Rows
  BY <1>1 DEF Rows
<1>3. /\ drain' \in [Drains -> DrainState]
      /\ \A d \in Drains : drain'[d] = drain[d] \/ (drain[d] = Off /\ drain'[d] = Looking)
      /\ \E d \in Drains : drain'[d] # Off
  BY Spawned, MaxConcurrencyAssumption DEF Inv, QueueState, TypeOK, Boot
<1>4. /\ runs = {} /\ count = 0 /\ up'
      /\ \A d \in Drains : drain'[d] \in {Off, Looking}
      /\ \A c \in Clients : client[c] = Idle
  BY <1>3 DEF Inv, QueueState, DownIsIdle, Boot
<1>5. UNCHANGED <<texts, count, runs, client, crashes>>
  BY DEF Boot
<1>6. TypeOK'
  BY <1>1, <1>3, <1>4, <1>5 DEF Inv, QueueState, TypeOK
<1>7. DownIsIdle' /\ CountIsRuns' /\ StartedOnce'
  BY <1>4, <1>5 DEF Inv, QueueState, DownIsIdle, CountIsRuns, StartedOnce
<1>8. Claimed'
  BY <1>4, <1>5 DEF Claimed, Off, Looking, Idle
<1>9. NoStrandedJob' /\ RunningIsWorked'
  BY <1>1, <1>2, <1>3 DEF NoStrandedJob, RunningIsWorked
<1> QED BY <1>6, <1>7, <1>8, <1>9 DEF Inv, QueueState

\* Every step preserves the invariant.
LEMMA InvNext ==
  ASSUME Inv, [Next]_vars
  PROVE  Inv'
<1>1. CASE \E c \in Clients : Call(c) \/ Proceed(c)
  BY <1>1, InvEnqueueCheck, InvCancelRead, InvEnqueueCreate, InvEnqueueDrain, InvCancelWrite
     DEF Call, Proceed
<1>2. CASE \E t \in Texts : DeleteText(t)
  BY <1>2, InvDeleteText
<1>3. CASE \E d \in Drains : DrainStep(d)
  BY <1>3, InvLook, InvClaim, InvStartRun DEF DrainStep
<1>4. CASE \E r \in runs : RunStep(r)
  BY <1>4, InvEndJob, InvFinally DEF RunStep
<1>5. CASE Crash
  BY <1>5, InvDie DEF Crash, Inv, QueueState, TypeOK
<1>6. CASE Boot
  BY <1>6, InvBoot
<1>7. CASE UNCHANGED vars
  BY <1>7 DEF vars, Inv, QueueState, TypeOK, DownIsIdle, Claimed, StartedOnce, CountIsRuns,
              NoStrandedJob, RunningIsWorked, Rows
<1> QED BY <1>1, <1>2, <1>3, <1>4, <1>5, <1>6, <1>7 DEF Next

\* The invariant holds in every reachable state.
LEMMA InvAlways == Spec => []Inv
<1>1. Init => Inv
  BY InvInit
<1>2. Inv /\ [Next]_vars => Inv'
  BY InvNext
<1> QED BY <1>1, <1>2, PTL DEF Spec

\* runningCount is the number of runs under way in every reachable state, and the
\* loops hold jobs they may hold (_drain and _runJob).
THEOREM QueueInvariant == Spec => []QueueState
<1>1. Inv => QueueState
  BY DEF Inv
<1> QED BY <1>1, InvAlways, PTL

\* No lost wake-up between enqueue, _drain and the finally block of _runJob.
THEOREM NoJobStranded == Spec => []NoStrandedJob
<1>1. Inv => NoStrandedJob
  BY DEF Inv
<1> QED BY <1>1, InvAlways, PTL

\* No job stays RUNNING without a run, whatever was cancelled, deleted or restarted.
THEOREM RunningJobsWorked == Spec => []RunningIsWorked
<1>1. Inv => RunningIsWorked
  BY DEF Inv
<1> QED BY <1>1, InvAlways, PTL

(***************************************************************************)
(* How far MAX_CONCURRENCY may be exceeded.  A drain that is in its loop   *)
(* may start one more run without another test of the limit, so it is the  *)
(* runs and these drains together that are bounded.                        *)
(***************************************************************************)
Active == {d \in Drains : drain[d] # Off}
Bounded == count + Cardinality(Active) <= MaxConcurrency - 1 + Cardinality(Drains)

\* There are no more drains in their loops than there are drains.
LEMMA ActiveDrains ==
  /\ IsFiniteSet(Active) /\ Cardinality(Active) \in Nat /\ Cardinality(Drains) \in Nat
  /\ Cardinality(Active) <= Cardinality(Drains)
<1>1. Active \subseteq Drains
  BY DEF Active
<1>2. IsFiniteSet(Active) /\ Cardinality(Active) <= Cardinality(Drains)
  BY <1>1, DrainsAssumption, FS_Subset
<1> QED BY <1>2, DrainsAssumption, FS_CardinalityType

\* A step after which the counter is below the limit.
LEMMA BelowLimit ==
  ASSUME count' \in Nat, count' < MaxConcurrency
  PROVE  Bounded'
<1>1. Cardinality(Active') <= Cardinality(Drains) /\ Cardinality(Active') \in Nat
      /\ Cardinality(Drains) \in Nat
  <2>1. Active' \subseteq Drains
    BY DEF Active
  <2>2. IsFiniteSet(Active') /\ Cardinality(Active') <= Cardinality(Drains)
    BY <2>1, DrainsAssumption, FS_Subset
  <2> QED BY <2>2, DrainsAssumption, FS_CardinalityType
<1> HIDE DEF Active
<1> QED BY <1>1, MaxConcurrencyAssumption DEF Bounded

\* A step that starts no run and no drain.
LEMMA NothingStarted ==
  ASSUME Bounded, count \in Nat, count' \in Nat, count' <= count,
         \A d \in Drains : drain'[d] # Off => drain[d] # Off
  PROVE  Bounded'
<1>1. Active' \subseteq Active
  BY DEF Active
<1>2. Cardinality(Active') <= Cardinality(Active) /\ Cardinality(Active') \in Nat
  BY <1>1, ActiveDrains, FS_Subset, FS_CardinalityType
<1> QED BY <1>2, ActiveDrains, MaxConcurrencyAssumption DEF Bounded

\* void this._drain(): below the limit the sum may grow up to the bound, at the limit
\* no drain starts.
LEMMA SpawnBounded ==
  ASSUME Bounded, count \in Nat, count' \in Nat, count' <= count, Spawn(count')
  PROVE  Bounded'
<1>1. CASE count' < MaxConcurrency
  BY <1>1, BelowLimit
<1>2. CASE ~(count' < MaxConcurrency)
  <2>1. drain' = drain
    BY <1>2 DEF Spawn
  <2> QED BY <2>1, NothingStarted
<1> QED BY <1>1, <1>2

\* A drain that starts the run by which the limit is reached ends.
LEMMA LastOfDrain ==
  ASSUME Inv, Bounded, NEW d \in Drains, StartRun(d), ~(count + 1 < MaxConcurrency)
  PROVE  Bounded'
<1>1. drain[d] # Off /\ drain' = [drain EXCEPT ![d] = Off] /\ count' = count + 1
  BY DEF StartRun, Off
<1>2. d \in Active /\ Active' = Active \ {d}
  BY <1>1 DEF Active, Inv, QueueState, TypeOK
<1>3. Cardinality(Active') = Cardinality(Active) - 1
  BY <1>2, ActiveDrains, FS_RemoveElement
<1>4. count \in Nat
  BY DEF Inv, QueueState, TypeOK
<1> HIDE DEF Active
<1> QED BY <1>1, <1>3, <1>4, ActiveDrains, MaxConcurrencyAssumption DEF Bounded

\* Every step keeps runs and drains together within the bound.
LEMMA BoundedNext ==
  ASSUME Inv, Inv', Bounded, [Next]_vars
  PROVE  Bounded'
<1>1. count \in Nat /\ count' \in Nat /\ drain \in [Drains -> DrainState]
  BY DEF Inv, QueueState, TypeOK
<1>2. CASE Die
  BY <1>1, <1>2, BelowLimit, MaxConcurrencyAssumption DEF Die
<1>3. CASE UNCHANGED <<count, drain>>
  BY <1>1, <1>3, NothingStarted
<1>4. ASSUME NEW c \in Clients, Call(c) \/ Proceed(c)
      PROVE  Bounded'
  <2>1. CASE EnqueueDrain(c)
    <3>1. count' = count /\ Spawn(count')
      BY <2>1 DEF EnqueueDrain
    <3> QED BY <1>1, <3>1, SpawnBounded
  <2>2. CASE ~EnqueueDrain(c)
    BY <1>3, <1>4, <2>2
       DEF Call, Proceed, EnqueueCheck, CancelRead, EnqueueCreate, CancelWrite
  <2> QED BY <2>1, <2>2
<1>5. ASSUME NEW d \in Drains, DrainStep(d)
      PROVE  Bounded'
  <2>1. CASE Look(d)
    <3>1. count' = count /\ drain[d] # Off
          /\ \A e \in Drains : e # d => drain'[e] = drain[e]
      BY <1>1, <2>1 DEF Look, Off
    <3> QED BY <1>1, <3>1, NothingStarted
  <2>2. CASE Claim(d)
    <3>1. CASE ~Die
      <4>1. count' = count /\ drain[d] # Off
            /\ \A e \in Drains : e # d => drain'[e] = drain[e]
        BY <1>1, <2>2, <3>1 DEF Claim, Off
      <4> QED BY <1>1, <4>1, NothingStarted
    <3> QED BY <1>2, <3>1
  <2>3. CASE StartRun(d)
    <3>1. CASE count + 1 < MaxConcurrency
      BY <1>1, <2>3, <3>1, BelowLimit DEF StartRun
    <3> QED BY <2>3, <3>1, LastOfDrain
  <2> QED BY <1>5, <2>1, <2>2, <2>3 DEF DrainStep
<1>6. ASSUME NEW r \in runs, RunStep(r)
      PROVE  Bounded'
  <2>1. CASE EndJob(r)
    BY <1>2, <1>3, <2>1 DEF EndJob
  <2>2. CASE Finally(r)
    <3>1. count' <= count /\ Spawn(count')
      BY <1>1, <2>2 DEF Finally
    <3> QED BY <1>1, <3>1, SpawnBounded
  <2> QED BY <1>6, <2>1, <2>2 DEF RunStep
<1>7. CASE Boot
  <2>1. count' = 0
    BY <1>7 DEF Boot, Inv, QueueState, DownIsIdle
  <2> QED BY <1>1, <2>1, BelowLimit, MaxConcurrencyAssumption
<1>8. CASE \E t \in Texts : DeleteText(t)
  BY <1>3, <1>8 DEF DeleteText, Volatile
<1>9. CASE Crash
  BY <1>2, <1>9 DEF Crash
<1>10. CASE UNCHANGED vars
  BY <1>3, <1>10 DEF vars
<1> QED BY <1>4, <1>5, <1>6, <1>7, <1>8, <1>9, <1>10 DEF Next

\* MAX_CONCURRENCY is exceeded by less than the drains that may be alive at the same time
\* (tokenization-queue.service.ts:128-168), for any limit and any number of them.
THEOREM ConcurrencyBounded == Spec => []RunsBounded
<1>1. Init => Inv /\ Bounded
  <2> SUFFICES ASSUME Init  PROVE Inv /\ Bounded
    OBVIOUS
  <2>1. count + Cardinality(Active) <= MaxConcurrency - 1 + Cardinality(Drains)
    BY ActiveDrains, MaxConcurrencyAssumption DEF Init
  <2> QED BY <2>1, InvInit DEF Bounded
<1>2. (Inv /\ Bounded) /\ [Next]_vars => (Inv /\ Bounded)'
  BY InvNext, BoundedNext
<1>3. Inv /\ Bounded => RunsBounded
  BY ActiveDrains, MaxConcurrencyAssumption
     DEF Bounded, RunsBounded, Inv, QueueState, TypeOK, CountIsRuns
<1> QED BY <1>1, <1>2, <1>3, PTL DEF Spec

=============================================================================
