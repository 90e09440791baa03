------------------------------- MODULE Tracking -------------------------------
(***************************************************************************)
(* The queue of tracked events and its worker: TrackingService             *)
(* (src/src/tracking/tracking.service.ts) and TrackingQueueWorker          *)
(* (src/src/tracking/tracking-queue.worker.ts).                            *)
(*                                                                         *)
(* A server pushes an event on a Redis list and, every ten seconds, pops   *)
(* batches from the other end and inserts them.  Redis and the connection  *)
(* to it fail as ioredis handles it: a command whose reply is lost with    *)
(* the connection is sent again once there is one.                         *)
(*                                                                         *)
(* Left out: what an event says, visitor and session identifiers, the      *)
(* realtime set; onModuleDestroy, which nothing calls when the server is   *)
(* stopped, for main.ts does not enable shutdown hooks.                    *)
(***************************************************************************)
EXTENDS Naturals, Sequences, FiniteSets

CONSTANTS
  Events,
  Servers,
  QueueMaxLen,      \* QUEUE_MAX_LEN
  BatchSize,        \* BATCH_SIZE
  MaxFaults         \* bound: lost replies, failed commands and crashes

ASSUME EventsAssumption == IsFiniteSet(Events)
ASSUME SizesAssumption == QueueMaxLen \in Nat \ {0} /\ BatchSize \in Nat \ {0} /\ MaxFaults \in Nat
ASSUME ServersAssumption == Servers \cap {"new", "adrift", "done"} = {}

VARIABLES
  track,            \* the call of track for each event: "new", the server it is on, "done",
                    \* or "adrift" when that server died with the pipeline on the wire
  sends,            \* how often the pipeline of each event has been executed
  queue,            \* the Redis list, the newest entry first
  trims,            \* ltrims whose lpush has been executed and that have not been, or never will
  worker,           \* the queue worker of each server
  stored,           \* the rows that each entry has become
  faults

vars == <<track, sends, queue, trims, worker, stored, faults>>

\* An entry of the list: the event and which execution of its pipeline has pushed it.
Entries == Events \X (1..MaxFaults + 1)

\* flushOnce waits for drainQueue ("draining") or for createMany ("inserting").
Worker == [at : {"down", "idle", "draining", "inserting"}, flushing : BOOLEAN, batch : Seq(Entries)]
Idle == [at |-> "idle", flushing |-> FALSE, batch |-> <<>>]
Down == [at |-> "down", flushing |-> FALSE, batch |-> <<>>]

Init ==
  /\ track = [e \in Events |-> "new"]
  /\ sends = [e \in Events |-> 0]
  /\ queue = <<>>
  /\ trims = 0
  /\ worker = [s \in Servers |-> Idle]
  /\ stored = [c \in Entries |-> 0]
  /\ faults = 0

Up(s) == worker[s].at # "down"

\* Something goes wrong.
Fault == faults < MaxFaults /\ faults' = faults + 1
-----------------------------------------------------------------------------
(* track *)

Track(e, s) ==
  /\ track[e] = "new" /\ Up(s)
  /\ track' = [track EXCEPT ![e] = s]
  /\ UNCHANGED <<sends, queue, trims, worker, stored, faults>>

\* A pipeline that Redis may execute: a dead server sends it no more, but may have sent it.
Sending(e) == track[e] \in Servers \cup {"adrift"}

\* Redis fails, and the event is dropped with a warning.
Drop(e) ==
  /\ Sending(e)
  /\ track' = [track EXCEPT ![e] = "done"]
  /\ UNCHANGED <<sends, queue, trims, worker, stored, faults>>

\* The pipeline that is sent without waiting for it.
PushedLate(e) ==
  /\ track[e] # "new"
  /\ sends' = [sends EXCEPT ![e] = @ + 1]
  /\ queue' = << <<e, sends[e] + 1>> >> \o queue
  /\ trims' = trims + 1
  /\ UNCHANGED <<worker, stored>>

\* lpush; ltrim is executed in its turn, for a pipeline is no transaction.
Pushed(e) ==
  /\ Sending(e)
  /\ sends' = [sends EXCEPT ![e] = @ + 1]
  /\ queue' = << <<e, sends[e] + 1>> >> \o queue
  /\ trims' = trims + 1
  /\ UNCHANGED <<worker, stored>>

\* ltrim drops the oldest entries.
Trimmed(q) == IF Len(q) > QueueMaxLen THEN SubSeq(q, 1, QueueMaxLen) ELSE q

\* An ltrim is lost if this never happens.
Trim ==
  /\ trims > 0
  /\ trims' = trims - 1
  /\ queue' = Trimmed(queue)
  /\ UNCHANGED <<track, sends, worker, stored, faults>>

Push(e) ==
  /\ Pushed(e)
  /\ track' = [track EXCEPT ![e] = "done"]
  /\ UNCHANGED faults

\* The reply is lost; the pipeline will be sent again.
PushUnanswered(e) ==
  /\ Pushed(e) /\ track[e] \in Servers
  /\ Fault
  /\ UNCHANGED track
-----------------------------------------------------------------------------
(* The worker *)

Goto(s, w) == worker' = [worker EXCEPT ![s] = w]
Flush(at, batch) == [at |-> at, flushing |-> TRUE, batch |-> batch]

\* flushing keeps a second flush away.
Interval(s) ==
  /\ Up(s) /\ ~worker[s].flushing
  /\ Goto(s, Flush("draining", <<>>))
  /\ UNCHANGED <<track, sends, queue, trims, stored, faults>>

Kept == IF Len(queue) > BatchSize THEN Len(queue) - BatchSize ELSE 0
Popped == SubSeq(queue, Kept + 1, Len(queue))

\* RPOP with a count; an empty batch ends the flush.
Drain(s) ==
  /\ worker[s].at = "draining"
  /\ queue' = SubSeq(queue, 1, Kept)
  /\ Goto(s, IF queue = <<>> THEN Idle ELSE Flush("inserting", Popped))
  /\ UNCHANGED <<track, sends, trims, stored, faults>>

\* What an RPOP takes whose reply is lost is gone; it is sent again.
DrainUnanswered(s) ==
  /\ worker[s].at = "draining"
  /\ queue' = SubSeq(queue, 1, Kept)
  /\ Fault
  /\ UNCHANGED <<track, sends, trims, worker, stored>>

\* The flush that an error ends without its finally.
DrainStops(s) ==
  /\ worker[s].at = "draining"
  /\ Fault
  /\ Goto(s, [Idle EXCEPT !.flushing = TRUE])
  /\ UNCHANGED <<track, sends, queue, trims, stored>>

\* RPOP and the pipeline to fall back on fail: no events.
DrainFails(s) ==
  /\ worker[s].at = "draining"
  /\ Fault
  /\ Goto(s, Idle)
  /\ UNCHANGED <<track, sends, queue, trims, stored>>

With(batch) ==
  [c \in Entries |-> IF \E i \in 1..Len(batch) : batch[i] = c THEN stored[c] + 1 ELSE stored[c]]

\* The flush goes on after a full batch.
After(s) == IF Len(worker[s].batch) < BatchSize THEN Idle ELSE Flush("draining", <<>>)

\* The worker that tries a failed insert again.
InsertAgain(s) ==
  /\ worker[s].at = "inserting"
  /\ \/ /\ stored' = With(worker[s].batch)
        /\ Goto(s, After(s))
        /\ UNCHANGED faults
     \/ Fault /\ stored' \in {stored, With(worker[s].batch)} /\ UNCHANGED worker
  /\ UNCHANGED <<track, sends, queue, trims>>

\* createMany inserts all or nothing; after an error, which does not tell, the batch is
\* given up.
Insert(s) ==
  /\ worker[s].at = "inserting"
  /\ stored' \in {stored, With(worker[s].batch)}
  /\ Goto(s, After(s))
  /\ UNCHANGED <<track, sends, queue, trims, faults>>
-----------------------------------------------------------------------------
\* The process is gone; what its worker has on the wire is executed before this or never.
Crash(s) ==
  /\ Up(s)
  /\ Fault
  /\ Goto(s, Down)
  /\ track' = [e \in Events |-> IF track[e] = s THEN "adrift" ELSE track[e]]
  /\ UNCHANGED <<sends, queue, trims, stored>>

Restart(s) ==
  /\ ~Up(s)
  /\ Goto(s, Idle)
  /\ UNCHANGED <<track, sends, queue, trims, stored, faults>>

Send(e) == Drop(e) \/ Push(e)
Work(s) == Interval(s) \/ Drain(s) \/ Insert(s) \/ Restart(s)

Arrival == \E e \in Events, s \in Servers : Track(e, s)

\* Every step but an arrival and a crash.
Step ==
  \/ \E e \in Events : Send(e) \/ PushUnanswered(e)
  \/ Trim
  \/ \E s \in Servers : Work(s) \/ DrainUnanswered(s) \/ DrainFails(s)

Next == Arrival \/ Step \/ \E s \in Servers : Crash(s)

\* Redis answers, the timer of a server fires and its container restarts.
Fairness == (\A e \in Events : WF_vars(Send(e))) /\ \A s \in Servers : WF_vars(Work(s))

Spec == Init /\ [][Next]_vars /\ Fairness
-----------------------------------------------------------------------------
TypeOK ==
  /\ track \in [Events -> {"new", "adrift", "done"} \cup Servers]
  /\ sends \in [Events -> 0..MaxFaults + 1]
  /\ queue \in Seq(Entries)
  /\ trims \in Nat
  /\ worker \in [Servers -> Worker]
  /\ stored \in [Entries -> Nat]
  /\ faults \in 0..MaxFaults

(* What drainQueue has popped is inserted at most once: a push becomes one row or none,
   with inserts that fail after they took effect and workers of several servers.  And the
   list is longer than QUEUE_MAX_LEN by no more than the pushes not yet trimmed. *)
RowPerPush == TypeOK /\ Len(queue) <= QueueMaxLen + trims /\ \A c \in Entries : stored[c] <= 1

\* The events in a sequence of entries, and those that are still under way.
In(e, q) == \E i \in 1..Len(q) : q[i][1] = e
Pending(e) == Sending(e) \/ In(e, queue) \/ \E s \in Servers : In(e, worker[s].batch)

Log == INSTANCE EventLog WITH fate <-
  [e \in Events |->
     IF track[e] = "new" THEN "new"
     ELSE IF \E n \in 1..MaxFaults + 1 : stored[<<e, n>>] # 0 THEN "stored"
     ELSE IF Pending(e) THEN "pending" ELSE "lost"]

(* An event is stored or lost once and for all: what a crash, a failed insert or a lost
   reply has lost does not come back, and a row stays. *)
DecidedOnce == Log!Safe

(* Every event that a client has sent leaves the queue and the workers in the end, while
   replies are lost, inserts fail and servers crash a bounded number of times. *)
EventsSettle == Log!Settles
=============================================================================
