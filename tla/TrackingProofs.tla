---------------------------- MODULE TrackingProofs ----------------------------
(***************************************************************************)
(* Safety of Tracking and TrackingStats for any events, servers and sizes  *)
(* of the queue and the batches.                                           *)
(***************************************************************************)
EXTENDS TrackingStats, FiniteSetTheorems, SequenceTheorems, TLAPS

\* A pipeline that is executed again costs a fault each time.
SendsOK ==
  \A e \in Events : /\ track[e] = "new" => sends[e] = 0
                    /\ Sending(e) => sends[e] <= faults

\* An entry that has been pushed is in one place.
At(c, q) == \E i \in 1..Len(q) : q[i] = c
Sent(c) == c[2] <= sends[c[1]]
Held(c, s) == At(c, worker[s].batch)
Distinct(q) == \A i, j \in 1..Len(q) : q[i] = q[j] => i = j

Placed(c) ==
  /\ At(c, queue) => Sent(c) /\ stored[c] = 0 /\ \A s \in Servers : ~Held(c, s)
  /\ \A s \in Servers : Held(c, s) =>
       Sent(c) /\ stored[c] = 0 /\ \A t \in Servers : t # s => ~Held(c, t)
  /\ stored[c] <= 1
  /\ stored[c] # 0 => Sent(c)
Unique == Distinct(queue) /\ \A c \in Entries : Placed(c)

Inv == TypeOK /\ Len(queue) <= QueueMaxLen + trims /\ SendsOK /\ Unique
-----------------------------------------------------------------------------
(* The queue and the workers *)

LEMMA Entry ==
  ASSUME NEW c \in Entries
  PROVE  c[1] \in Events /\ c[2] \in 1..MaxFaults + 1 /\ c = <<c[1], c[2]>>
BY DEF Entries

\* Only the worker that goes on changes.
LEMMA Gone ==
  ASSUME TypeOK, NEW s \in Servers, NEW w \in Worker, Goto(s, w)
  PROVE  /\ worker' \in [Servers -> Worker] /\ worker'[s] = w
         /\ \A t \in Servers : t # s => worker'[t] = worker[t]
BY DEF Goto, TypeOK

LEMMA Batches ==
  ASSUME TypeOK, NEW s \in Servers
  PROVE  worker[s].batch \in Seq(Entries) /\ worker[s] \in Worker
<1>1. worker[s] \in Worker
  BY DEF TypeOK
<1> QED BY <1>1 DEF Worker

LEMMA Empty ==
  /\ <<>> \in Seq(Entries) /\ Idle \in Worker /\ Down \in Worker
  /\ Flush("draining", <<>>) \in Worker
  /\ Idle.batch = <<>> /\ Down.batch = <<>> /\ Flush("draining", <<>>).batch = <<>>
  /\ \A c : ~At(c, <<>>)
<1>1. <<>> \in Seq(Entries) /\ Len(<<>>) = 0
  BY EmptySeq
<1>2. Idle \in Worker /\ Idle.batch = <<>>
  BY <1>1 DEF Idle, Worker
<1>4. Down \in Worker /\ Down.batch = <<>>
  BY <1>1 DEF Down, Worker
<1>5. Flush("draining", <<>>) \in Worker /\ Flush("draining", <<>>).batch = <<>>
  BY <1>1 DEF Flush, Worker
<1>6. \A c : ~At(c, <<>>)
  BY <1>1 DEF At
<1> QED BY <1>1, <1>2, <1>4, <1>5, <1>6

\* An lpush puts the entry in front of the queue.
LEMMA Pushes ==
  ASSUME Inv, NEW e \in Events, Pushed(e)
  PROVE  LET c == <<e, sends[e] + 1>>
         IN  /\ c \in Entries /\ Sending(e) /\ trims' = trims + 1
             /\ sends' \in [Events -> 0..MaxFaults + 1] /\ sends'[e] = sends[e] + 1
             /\ \A d \in Events : d # e => sends'[d] = sends[d]
             /\ queue' \in Seq(Entries) /\ Len(queue') = Len(queue) + 1
             /\ \A i \in 1..Len(queue') : queue'[i] = IF i = 1 THEN c ELSE queue[i - 1]
<1> DEFINE c == <<e, sends[e] + 1>>
           q == <<c>> \o queue
<1>1. sends[e] \in Nat /\ sends[e] <= MaxFaults
  BY SizesAssumption DEF Pushed, Inv, SendsOK, TypeOK
<1>2. c \in Entries
  BY <1>1, SizesAssumption DEF Entries
<1>3. <<c>> \in Seq(Entries) /\ Len(<<c>>) = 1 /\ <<c>>[1] = c /\ queue \in Seq(Entries) /\ Len(queue) \in Nat
  BY <1>2 DEF Inv, TypeOK
<1>4. /\ q \in Seq(Entries) /\ Len(q) = Len(queue) + 1
      /\ \A i \in 1..Len(q) : q[i] = IF i = 1 THEN c ELSE queue[i - 1]
  <2> HIDE DEF c
  <2>1. /\ q \in Seq(Entries) /\ Len(q) = 1 + Len(queue)
        /\ \A i \in 1..1 + Len(queue) : q[i] = IF i <= 1 THEN <<c>>[i] ELSE queue[i - 1]
    BY <1>3, ConcatProperties, Zenon
  <2> QED BY <1>3, <2>1
<1>5. queue' = q /\ trims' = trims + 1
  BY DEF Pushed
<1> HIDE DEF c, q
<1>7. sends' \in [Events -> 0..MaxFaults + 1] /\ sends'[e] = sends[e] + 1
      /\ \A d \in Events : d # e => sends'[d] = sends[d]
  BY <1>1, SizesAssumption DEF Pushed, Inv, TypeOK
<1>8. Sending(e)
  BY DEF Pushed
<1>9. \A i \in 1..Len(queue') : queue'[i] = IF i = 1 THEN c ELSE queue[i - 1]
  BY <1>4, <1>5
<1>10. queue' \in Seq(Entries) /\ Len(queue') = Len(queue) + 1
  BY <1>4, <1>5
<1> QED BY <1>2, <1>5, <1>7, <1>8, <1>9, <1>10 DEF c

\* ltrim leaves the newest entries.
LEMMA Trims ==
  ASSUME TypeOK
  PROVE  LET q == Trimmed(queue)
         IN  /\ q \in Seq(Entries) /\ Len(q) <= QueueMaxLen /\ Len(q) <= Len(queue)
             /\ \A i \in 1..Len(q) : q[i] = queue[i]
<1>1. queue \in Seq(Entries) /\ Len(queue) \in Nat /\ QueueMaxLen \in Nat \ {0}
  BY SizesAssumption DEF TypeOK
<1>2. CASE Len(queue) <= QueueMaxLen
  BY <1>1, <1>2 DEF Trimmed
<1>3. CASE Len(queue) > QueueMaxLen
  <2>1. \A i \in 1..QueueMaxLen : queue[i] \in Entries
    BY <1>1, <1>3
  <2>2. /\ SubSeq(queue, 1, QueueMaxLen) \in Seq(Entries)
        /\ Len(SubSeq(queue, 1, QueueMaxLen)) = QueueMaxLen
        /\ \A i \in 1..QueueMaxLen : SubSeq(queue, 1, QueueMaxLen)[i] = queue[i]
    BY <1>1, <2>1, SubSeqProperties
  <2> QED BY <1>1, <1>3, <2>2 DEF Trimmed
<1> QED BY <1>1, <1>2, <1>3

\* RPOP splits the queue.
LEMMA Pops ==
  ASSUME TypeOK
  PROVE  LET q == SubSeq(queue, 1, Kept)
         IN  /\ q \in Seq(Entries) /\ Len(q) = Kept /\ Kept \in 0..Len(queue)
             /\ \A i \in 1..Kept : q[i] = queue[i]
             /\ Popped \in Seq(Entries) /\ Len(Popped) = Len(queue) - Kept
             /\ \A i \in 1..Len(queue) - Kept : Popped[i] = queue[Kept + i]
<1>1. queue \in Seq(Entries) /\ Len(queue) \in Nat /\ Kept \in 0..Len(queue)
  BY SizesAssumption DEF TypeOK, Kept
<1>2. \A i \in 1..Len(queue) : queue[i] \in Entries
  BY <1>1
<1> DEFINE k == Kept
<1> HIDE DEF k
<1>3. k \in Int /\ k \in 0..Len(queue) /\ k + 1 \in Int /\ Len(queue) \in Int
  BY <1>1 DEF k
<1>4. /\ SubSeq(queue, 1, k) \in Seq(Entries) /\ Len(SubSeq(queue, 1, k)) = k
      /\ \A i \in 1..k : SubSeq(queue, 1, k)[i] = queue[i]
  <2>1. \A i \in 1..k : queue[i] \in Entries
    BY <1>2, <1>3
  <2>2. /\ SubSeq(queue, 1, k) \in Seq(Entries)
        /\ Len(SubSeq(queue, 1, k)) = IF 1 <= k THEN k - 1 + 1 ELSE 0
        /\ \A i \in 1..k - 1 + 1 : SubSeq(queue, 1, k)[i] = queue[1 + i - 1]
    BY <1>3, <2>1, SubSeqProperties
  <2> QED BY <1>3, <2>2
<1>5. /\ SubSeq(queue, k + 1, Len(queue)) \in Seq(Entries)
      /\ Len(SubSeq(queue, k + 1, Len(queue))) = Len(queue) - k
      /\ \A i \in 1..Len(queue) - k : SubSeq(queue, k + 1, Len(queue))[i] = queue[k + i]
  <2>1. \A i \in k + 1..Len(queue) : queue[i] \in Entries
    BY <1>2, <1>3
  <2>2. /\ SubSeq(queue, k + 1, Len(queue)) \in Seq(Entries)
        /\ Len(SubSeq(queue, k + 1, Len(queue))) =
             IF k + 1 <= Len(queue) THEN Len(queue) - (k + 1) + 1 ELSE 0
        /\ \A i \in 1..Len(queue) - (k + 1) + 1 :
             SubSeq(queue, k + 1, Len(queue))[i] = queue[(k + 1) + i - 1]
    BY <1>3, <2>1, SubSeqProperties
  <2> QED BY <1>3, <2>2
<1> QED BY <1>1, <1>4, <1>5 DEF k, Popped
-----------------------------------------------------------------------------
(* Types, and how often a pipeline has been executed *)

LEMMA TypeStep ==
  ASSUME Inv, Next
  PROVE  TypeOK' /\ Len(queue') <= QueueMaxLen + trims' /\ SendsOK'
<1> DEFINE Good == TypeOK' /\ Len(queue') <= QueueMaxLen + trims' /\ SendsOK'
<1>0. /\ track \in [Events -> {"new", "adrift", "done"} \cup Servers] /\ sends \in [Events -> 0..MaxFaults + 1]
      /\ queue \in Seq(Entries) /\ Len(queue) \in Nat /\ Len(queue) <= QueueMaxLen + trims
      /\ trims \in Nat
      /\ worker \in [Servers -> Worker] /\ stored \in [Entries -> Nat] /\ faults \in Nat
      /\ faults <= MaxFaults /\ QueueMaxLen \in Nat /\ MaxFaults \in Nat
  BY SizesAssumption DEF Inv, TypeOK
<1>1. ASSUME NEW e \in Events, NEW s \in Servers, Track(e, s)  PROVE Good
  <2>1. track' \in [Events -> {"new", "adrift", "done"} \cup Servers]
    BY <1>0, <1>1 DEF Track
  <2>2. SendsOK'
    BY <1>0, <1>1, ServersAssumption DEF Track, Inv, SendsOK, Sending
  <2> QED BY <1>0, <1>1, <2>1, <2>2 DEF Track, Inv, TypeOK
<1>2. ASSUME NEW e \in Events, Drop(e)  PROVE Good
  <2>1. track' \in [Events -> {"new", "adrift", "done"} \cup Servers]
    BY <1>0, <1>2 DEF Drop
  <2>2. SendsOK'
    BY <1>0, <1>2, ServersAssumption DEF Drop, Inv, SendsOK, Sending
  <2> QED BY <1>0, <1>2, <2>1, <2>2 DEF Drop, Inv, TypeOK
<1>3. ASSUME NEW e \in Events, Push(e)  PROVE Good
  <2>1. track' \in [Events -> {"new", "adrift", "done"} \cup Servers] /\ track' = [track EXCEPT ![e] = "done"]
    BY <1>0, <1>3 DEF Push
  <2>2. Pushed(e) /\ faults' = faults
    BY <1>3 DEF Push
  <2>4. /\ sends' \in [Events -> 0..MaxFaults + 1] /\ \A d \in Events : d # e => sends'[d] = sends[d]
        /\ queue' \in Seq(Entries) /\ Len(queue') = Len(queue) + 1 /\ trims' = trims + 1
    BY <2>2, Pushes
  <2>8. Len(queue') <= QueueMaxLen + trims' /\ trims' \in Nat
    BY <1>0, <2>4
  <2>5. UNCHANGED <<worker, stored>>
    BY <2>2 DEF Pushed
  <2>3. SendsOK'
    <3>1. ASSUME NEW d \in Events, d # e
          PROVE  (track'[d] = "new" => sends'[d] = 0) /\ (Sending(d)' => sends'[d] <= faults')
      BY <1>0, <2>1, <2>2, <2>4, <3>1 DEF Inv, SendsOK, Sending
    <3>2. track'[e] # "new" /\ ~Sending(e)'
      BY <1>0, <2>1, ServersAssumption DEF Sending
    <3> QED BY <3>1, <3>2 DEF SendsOK
  <2>6. faults' \in 0..MaxFaults
    BY <1>0, <2>2
  <2>7. TypeOK'
    BY <1>0, <2>1, <2>4, <2>5, <2>6, <2>8 DEF TypeOK
  <2> QED BY <2>3, <2>7, <2>8
<1>4. ASSUME NEW e \in Events, PushUnanswered(e)  PROVE Good
  <2>1. Pushed(e) /\ faults' = faults + 1 /\ faults < MaxFaults /\ track' = track
    BY <1>4 DEF PushUnanswered, Fault
  <2>4. /\ sends' \in [Events -> 0..MaxFaults + 1] /\ \A d \in Events : d # e => sends'[d] = sends[d]
        /\ queue' \in Seq(Entries) /\ Len(queue') = Len(queue) + 1 /\ trims' = trims + 1
        /\ sends'[e] = sends[e] + 1 /\ Sending(e)
    BY <2>1, Pushes
  <2>6. Len(queue') <= QueueMaxLen + trims' /\ trims' \in Nat
    BY <1>0, <2>4
  <2>5. UNCHANGED <<worker, stored>>
    BY <2>1 DEF Pushed
  <2>2. SendsOK'
    <3>1. ASSUME NEW d \in Events
          PROVE  (track'[d] = "new" => sends'[d] = 0) /\ (Sending(d)' => sends'[d] <= faults')
      <4>1. CASE d = e
        BY <1>0, <2>1, <2>4, <4>1, ServersAssumption DEF Inv, SendsOK, Sending
      <4>2. CASE d # e
        BY <1>0, <2>1, <2>4, <4>2 DEF Inv, SendsOK, Sending
      <4> QED BY <4>1, <4>2
    <3> QED BY <3>1 DEF SendsOK
  <2>3. faults' \in 0..MaxFaults
    BY <1>0, <2>1
  <2> QED BY <1>0, <2>1, <2>2, <2>3, <2>4, <2>5, <2>6 DEF TypeOK
<1>5. ASSUME NEW s \in Servers, NEW w \in Worker, Goto(s, w), UNCHANGED <<track, sends, trims>>,
             queue' \in {queue, SubSeq(queue, 1, Kept)}, faults' \in {faults, faults + 1}, faults' <= MaxFaults,
             stored' \in [Entries -> Nat]
      PROVE  Good
  <2>1. worker' \in [Servers -> Worker]
    BY <1>5, Gone DEF Inv
  <2>2. queue' \in Seq(Entries) /\ Len(queue') <= QueueMaxLen + trims'
    <3>1. TypeOK
      BY DEF Inv
    <3>2. SubSeq(queue, 1, Kept) \in Seq(Entries) /\ Len(SubSeq(queue, 1, Kept)) <= Len(queue)
      BY <1>0, <3>1, Pops
    <3>3. CASE queue' = queue
      BY <1>0, <1>5, <3>3
    <3>4. CASE queue' = SubSeq(queue, 1, Kept)
      <4> DEFINE q == SubSeq(queue, 1, Kept)
      <4>1. Len(q) \in Nat
        BY <3>2
      <4> HIDE DEF q
      <4>2. q \in Seq(Entries) /\ Len(q) <= QueueMaxLen + trims
        BY <1>0, <3>2, <4>1 DEF q
      <4> QED BY <1>5, <3>4, <4>2 DEF q
    <3> QED BY <1>5, <3>3, <3>4
  <2>3. SendsOK' /\ faults' \in 0..MaxFaults
    BY <1>0, <1>5 DEF Inv, SendsOK, Sending
  <2> QED BY <1>0, <1>5, <2>1, <2>2, <2>3 DEF TypeOK
<1>6. ASSUME NEW s \in Servers, Interval(s) \/ DrainFails(s) \/ Restart(s)  PROVE Good
  <2>1. PICK w \in Worker : Goto(s, w)
    BY <1>6, Empty DEF Interval, DrainFails, Restart
  <2>2. UNCHANGED <<track, sends, queue, trims, stored>> /\ faults' \in {faults, faults + 1} /\ faults' <= MaxFaults
    BY <1>0, <1>6 DEF Interval, DrainFails, Restart, Fault
  <2> QED BY <1>0, <1>5, <2>1, <2>2
<1>7. ASSUME NEW s \in Servers, Drain(s)  PROVE Good
  <2> DEFINE w == IF queue = <<>> THEN Idle ELSE Flush("inserting", Popped)
  <2>1. w \in Worker
    BY <1>0, Empty, Pops DEF Flush, Worker, Inv
  <2> QED BY <1>0, <1>5, <1>7, <2>1 DEF Drain
<1>8. ASSUME NEW s \in Servers, DrainUnanswered(s)  PROVE Good
  <2>1. queue' \in Seq(Entries) /\ Len(queue') <= QueueMaxLen + trims'
    BY <1>0, <1>8, Pops DEF Inv, DrainUnanswered
  <2>2. SendsOK' /\ faults' \in 0..MaxFaults
    BY <1>0, <1>8 DEF Inv, SendsOK, Sending, DrainUnanswered, Fault
  <2> QED BY <1>0, <1>8, <2>1, <2>2 DEF DrainUnanswered, TypeOK
<1>9. ASSUME NEW s \in Servers, Insert(s)  PROVE Good
  <2>1. After(s) \in Worker
    BY Empty DEF After
  <2>2. With(worker[s].batch) \in [Entries -> Nat]
    BY <1>0 DEF With
  <2>3. stored' \in [Entries -> Nat]
    BY <1>0, <1>9, <2>2 DEF Insert
  <2> QED BY <1>0, <1>5, <1>9, <2>1, <2>3 DEF Insert
<1>10. ASSUME NEW s \in Servers, Crash(s)  PROVE Good
  <2>1. worker' \in [Servers -> Worker] /\ faults' \in 0..MaxFaults /\ UNCHANGED <<sends, queue, trims, stored>>
    BY <1>0, <1>10, Gone, Empty DEF Crash, Fault, Inv
  <2>2. track' \in [Events -> {"new", "adrift", "done"} \cup Servers]
    BY <1>0, <1>10 DEF Crash
  <2>3. SendsOK'
    BY <1>0, <1>10, ServersAssumption DEF Crash, Fault, Inv, SendsOK, Sending
  <2> QED BY <1>0, <2>1, <2>2, <2>3 DEF TypeOK
<1>11. ASSUME Trim  PROVE Good
  <2>1. queue' = Trimmed(queue) /\ trims' = trims - 1 /\ trims' \in Nat
        /\ UNCHANGED <<track, sends, worker, stored, faults>>
    BY <1>0, <1>11 DEF Trim
  <2>2. queue' \in Seq(Entries) /\ Len(queue') <= QueueMaxLen
    BY <2>1, Trims DEF Inv
  <2>3. Len(queue') <= QueueMaxLen + trims'
    BY <1>0, <2>1, <2>2
  <2>4. SendsOK'
    BY <2>1 DEF Inv, SendsOK, Sending
  <2> QED BY <2>1, <2>2, <2>3, <2>4 DEF Inv, TypeOK
<1> QED
  BY <1>1, <1>2, <1>3, <1>4, <1>6, <1>7, <1>8, <1>9, <1>10, <1>11
  DEF Next, Arrival, Step, Send, Work
-----------------------------------------------------------------------------
(* One place for an entry *)

\* What a step leaves of the queue and the batches.
LEMMA PopKeeps ==
  ASSUME TypeOK
  PROVE  LET q == SubSeq(queue, 1, Kept)
         IN  /\ \A c : At(c, q) => At(c, queue)
             /\ \A c : At(c, Popped) => At(c, queue)
             /\ Distinct(queue) => Distinct(q) /\ \A c : ~(At(c, q) /\ At(c, Popped))
<1> DEFINE q == SubSeq(queue, 1, Kept)
           k == Kept
           p == Popped
           n == Len(queue)
<1>1. /\ Len(q) = k /\ k \in 0..n /\ n \in Nat /\ Len(p) = n - k
      /\ \A i \in 1..k : q[i] = queue[i]
      /\ \A i \in 1..n - k : p[i] = queue[k + i]
  <2>1. Len(queue) \in Nat
    BY DEF TypeOK
  <2> QED BY <2>1, Pops
<1> HIDE DEF q, k, p, n
<1>2. ASSUME NEW i \in 1..Len(q)  PROVE i \in 1..n /\ q[i] = queue[i] /\ i \in 1..k
  BY <1>1, <1>2
<1>3. ASSUME NEW i \in 1..Len(p)  PROVE k + i \in 1..n /\ p[i] = queue[k + i] /\ k + i \notin 1..k
  BY <1>1, <1>3
<1>4. \A c : At(c, q) => At(c, queue)
  BY <1>2 DEF At, n
<1>5. \A c : At(c, p) => At(c, queue)
  BY <1>3 DEF At, n
<1>6. Distinct(queue) => Distinct(q)
  BY <1>2 DEF Distinct, n
<1>7. ASSUME Distinct(queue), NEW c, At(c, q), At(c, p)  PROVE FALSE
  <2>1. PICK i \in 1..Len(q) : q[i] = c
    BY <1>7 DEF At
  <2>2. PICK j \in 1..Len(p) : p[j] = c
    BY <1>7 DEF At
  <2>3. i \in 1..n /\ k + j \in 1..n /\ queue[i] = queue[k + j] /\ i \in 1..k /\ k + j \notin 1..k
    BY <1>2, <1>3, <2>1, <2>2
  <2> QED BY <1>7, <2>3 DEF Distinct, n
<1> QED BY <1>4, <1>5, <1>6, <1>7 DEF q, p

LEMMA TrimKeeps ==
  ASSUME TypeOK
  PROVE  LET q == Trimmed(queue)
         IN  (\A c : At(c, q) => At(c, queue)) /\ (Distinct(queue) => Distinct(q))
<1> DEFINE q == Trimmed(queue)
<1>1. q \in Seq(Entries) /\ Len(q) <= Len(queue) /\ \A i \in 1..Len(q) : q[i] = queue[i]
  BY Trims
<1> HIDE DEF q
<1>2. Len(q) \in Nat /\ Len(queue) \in Nat
  BY <1>1 DEF TypeOK
<1>3. \A i \in 1..Len(q) : i \in 1..Len(queue) /\ q[i] = queue[i]
  BY <1>1, <1>2
<1> QED BY <1>3 DEF At, Distinct, q

\* Steps that add nothing to the queue, to a batch or to what is stored.
LEMMA Shrinks ==
  ASSUME Unique, UNCHANGED <<stored, sends>>, Distinct(queue'),
         \A c \in Entries : At(c, queue') => At(c, queue),
         \A c \in Entries, s \in Servers : Held(c, s)' => Held(c, s)
  PROVE  Unique'
<1> SUFFICES ASSUME NEW c \in Entries  PROVE Placed(c)'
  BY DEF Unique
<1>1. Placed(c)
  BY DEF Unique
<1>2. Sent(c)' = Sent(c)
  BY DEF Sent
<1> QED BY <1>1, <1>2 DEF Placed

LEMMA Emptied ==
  ASSUME TypeOK, NEW s \in Servers, NEW w \in Worker, w.batch = <<>>, Goto(s, w)
  PROVE  /\ \A c \in Entries, t \in Servers : Held(c, t)' => Held(c, t) /\ t # s
         /\ \A c \in Entries, t \in Servers : Held(c, t) /\ t # s => Held(c, t)'
<1>1. worker'[s].batch = <<>> /\ \A t \in Servers : t # s => worker'[t] = worker[t]
  BY Gone
<1>2. \A c : ~At(c, <<>>)
  BY Empty
<1> QED BY <1>1, <1>2 DEF Held

LEMMA PushPlaces ==
  ASSUME Inv, NEW e \in Events, Pushed(e)
  PROVE  Unique'
<1>0. PICK c : c = <<e, sends[e] + 1>>
  OBVIOUS
<1>1. /\ c \in Entries /\ sends'[e] = sends[e] + 1 /\ sends[e] \in Nat
      /\ \A d \in Events : d # e => sends'[d] = sends[d]
      /\ Len(queue') \in Nat /\ Len(queue) \in Nat /\ Len(queue') <= Len(queue) + 1
      /\ \A i \in 1..Len(queue') : queue'[i] = IF i = 1 THEN c ELSE queue[i - 1]
  <2>1. queue' \in Seq(Entries)
    BY Pushes
  <2>2. Len(queue') \in Nat /\ Len(queue) \in Nat /\ sends[e] \in Nat
    BY <2>1 DEF Inv, TypeOK
  <2> QED BY <1>0, <2>2, Pushes
<1>2. c[1] = e /\ c[2] = sends[e] + 1
  BY <1>0
<1>3. Distinct(queue) /\ \A d \in Entries : Placed(d)
  BY DEF Inv, Unique
<1>4. ~Sent(c)
  BY <1>1, <1>2 DEF Sent
<1>5. ASSUME NEW d \in Entries, Sent(d)  PROVE Sent(d)' /\ d # c
  <2>1. d[1] \in Events /\ d[2] \in Nat
    BY SizesAssumption DEF Entries
  <2>2. d # c
    BY <1>4, <1>5
  <2>3. CASE d[1] = e
    BY <1>1, <1>2, <1>5, <2>1, <2>2, <2>3 DEF Sent
  <2>4. CASE d[1] # e
    BY <1>1, <1>5, <2>1, <2>2, <2>4 DEF Sent
  <2> QED BY <2>2, <2>3, <2>4
<1>6. Sent(c)'
  BY <1>1, <1>2 DEF Sent
<1>7. ASSUME NEW i \in 1..Len(queue')
      PROVE  (i = 1 /\ queue'[i] = c) \/ (i - 1 \in 1..Len(queue) /\ queue'[i] = queue[i - 1])
  BY <1>1, <1>7
<1>8. \A d : At(d, queue') => d = c \/ At(d, queue)
  BY <1>7 DEF At
<1>9. ~At(c, queue)
  BY <1>1, <1>3, <1>4 DEF Placed
<1>10. Distinct(queue')
  <2> SUFFICES ASSUME NEW i \in 1..Len(queue'), NEW j \in 1..Len(queue'), queue'[i] = queue'[j]
               PROVE  i = j
    BY DEF Distinct
  <2>1. i \in Nat /\ j \in Nat
    OBVIOUS
  <2>2. CASE i = 1 /\ j = 1
    BY <2>2
  <2>3. CASE i = 1 /\ j # 1
    BY <1>7, <1>9, <2>3 DEF At
  <2>4. CASE i # 1 /\ j = 1
    BY <1>7, <1>9, <2>4 DEF At
  <2>5. CASE i # 1 /\ j # 1
    <3>1. i - 1 \in 1..Len(queue) /\ j - 1 \in 1..Len(queue) /\ queue[i - 1] = queue[j - 1]
      BY <1>7, <2>5
    <3>2. i - 1 = j - 1
      BY <1>3, <3>1 DEF Distinct
    <3> QED BY <2>1, <3>2
  <2> QED BY <2>2, <2>3, <2>4, <2>5
<1>11. UNCHANGED <<worker, stored>>
  BY DEF Pushed
<1>12. \A d \in Entries, s \in Servers : Held(d, s)' = Held(d, s)
  BY <1>11 DEF Held
<1>13. ASSUME NEW d \in Entries  PROVE Placed(d)'
  <2>1. CASE d = c
    <3>1. stored[c] = 0 /\ \A s \in Servers : ~Held(c, s)
      BY <1>1, <1>3, <1>4 DEF Placed
    <3> QED BY <1>6, <1>11, <1>12, <2>1, <3>1 DEF Placed
  <2>2. CASE d # c
    BY <1>3, <1>5, <1>8, <1>11, <1>12, <2>2 DEF Placed
  <2> QED BY <2>1, <2>2
<1> QED BY <1>10, <1>13 DEF Unique

LEMMA DrainPlaces ==
  ASSUME Inv, NEW s \in Servers, Drain(s)
  PROVE  Unique'
<1> DEFINE q == SubSeq(queue, 1, Kept)
           w == IF queue = <<>> THEN Idle ELSE Flush("inserting", Popped)
<1>0. TypeOK
  BY DEF Inv
<1>1. /\ \A c : At(c, q) => At(c, queue)
      /\ \A c : At(c, Popped) => At(c, queue)
      /\ Distinct(q) /\ \A c : ~(At(c, q) /\ At(c, Popped))
  BY <1>0, PopKeeps DEF Inv, Unique
<1>2. Popped \in Seq(Entries)
  BY <1>0, Pops
<1>3. w \in Worker /\ (w.batch = Popped \/ w.batch = <<>>)
  BY <1>2, Empty DEF Flush, Worker
<1>4. Goto(s, w) /\ queue' = q /\ UNCHANGED <<sends, stored>>
  BY DEF Drain
<1> HIDE DEF q, w
<1>5. worker'[s] = w /\ \A t \in Servers : t # s => worker'[t] = worker[t]
  BY <1>0, <1>3, <1>4, Gone
<1>6. \A c \in Entries : Held(c, s)' => At(c, Popped)
  BY <1>3, <1>5, Empty DEF Held
<1>7. \A c \in Entries, t \in Servers : t # s => Held(c, t)' = Held(c, t)
  BY <1>5 DEF Held
<1>8. ASSUME NEW c \in Entries  PROVE Placed(c)'
  <2>1. Placed(c)
    BY DEF Inv, Unique
  <2>2. Sent(c)' = Sent(c) /\ stored' = stored
    BY <1>4 DEF Sent
  <2>3. At(c, queue') => Sent(c) /\ stored[c] = 0 /\ \A t \in Servers : ~Held(c, t)'
    BY <1>1, <1>4, <1>6, <1>7, <2>1 DEF Placed
  <2>4. ASSUME NEW t \in Servers, Held(c, t)'
        PROVE  Sent(c) /\ stored[c] = 0 /\ \A u \in Servers : u # t => ~Held(c, u)'
    <3>1. CASE t = s
      BY <1>1, <1>6, <1>7, <2>1, <2>4, <3>1 DEF Placed
    <3>2. CASE t # s
      BY <1>1, <1>6, <1>7, <2>1, <2>4, <3>2 DEF Placed
    <3> QED BY <3>1, <3>2
  <2> QED BY <2>1, <2>2, <2>3, <2>4 DEF Placed
<1> QED BY <1>1, <1>4, <1>8 DEF Unique

LEMMA InsertPlaces ==
  ASSUME Inv, NEW s \in Servers, Insert(s)
  PROVE  Unique'
<1>0. TypeOK /\ Unique
  BY DEF Inv
<1>1. After(s) \in Worker /\ After(s).batch = <<>> /\ Goto(s, After(s)) /\ UNCHANGED <<queue, sends>>
  BY Empty DEF After, Insert
<1>2. \A c \in Entries, t \in Servers : Held(c, t)' => Held(c, t) /\ t # s
  BY <1>0, <1>1, Emptied
<1>3. CASE stored' = stored
  BY <1>0, <1>1, <1>2, <1>3, Shrinks DEF Unique
<1>4. CASE stored' = With(worker[s].batch)
  <2>1. ASSUME NEW c \in Entries  PROVE Placed(c)'
    <3>1. Placed(c) /\ stored[c] \in Nat
      BY <1>0 DEF Unique, TypeOK
    <3>2. stored'[c] = IF Held(c, s) THEN stored[c] + 1 ELSE stored[c]
      BY <1>4 DEF With, Held, At
    <3>3. Sent(c)' = Sent(c) /\ (At(c, queue') <=> At(c, queue))
      BY <1>1 DEF Sent
    <3>4. CASE Held(c, s)
      <4>1. ~At(c, queue) /\ Sent(c) /\ stored[c] = 0 /\ \A t \in Servers : ~Held(c, t)'
        BY <1>2, <3>1, <3>4 DEF Placed
      <4> QED BY <3>2, <3>3, <3>4, <4>1 DEF Placed
    <3>5. CASE ~Held(c, s)
      BY <1>2, <3>1, <3>2, <3>3, <3>5 DEF Placed
    <3> QED BY <3>4, <3>5
  <2> QED BY <1>0, <1>1, <2>1 DEF Unique, Distinct
<1> QED BY <1>3, <1>4 DEF Insert

LEMMA UniqueStep ==
  ASSUME Inv, Next
  PROVE  Unique'
<1>0. TypeOK /\ Unique
  BY DEF Inv
<1>1. ASSUME UNCHANGED <<sends, queue, worker, stored>>  PROVE Unique'
  BY <1>0, <1>1, Shrinks DEF Unique, Held
<1>2. ASSUME NEW s \in Servers, NEW w \in Worker, w.batch = <<>>, Goto(s, w), UNCHANGED <<sends, queue, stored>>
      PROVE  Unique'
  <2>1. \A c \in Entries, t \in Servers : Held(c, t)' => Held(c, t)
    BY <1>0, <1>2, Emptied
  <2> QED BY <1>0, <1>2, <2>1, Shrinks DEF Unique
<1>3. ASSUME NEW s \in Servers, DrainUnanswered(s)  PROVE Unique'
  <2>1. queue' = SubSeq(queue, 1, Kept) /\ UNCHANGED <<sends, worker, stored>>
    BY <1>3 DEF DrainUnanswered
  <2>2. Distinct(queue') /\ \A c : At(c, queue') => At(c, queue)
    BY <1>0, <2>1, PopKeeps DEF Unique
  <2>3. \A c \in Entries, t \in Servers : Held(c, t)' => Held(c, t)
    BY <2>1 DEF Held
  <2> QED BY <1>0, <2>1, <2>2, <2>3, Shrinks
<1>4. ASSUME NEW s \in Servers, Interval(s) \/ DrainFails(s) \/ Crash(s) \/ Restart(s)  PROVE Unique'
  BY <1>2, <1>4, Empty DEF Interval, DrainFails, Crash, Restart
<1>5. ASSUME Arrival \/ \E e \in Events : Drop(e)  PROVE Unique'
  BY <1>1, <1>5 DEF Arrival, Track, Drop
<1>6. ASSUME NEW e \in Events, Push(e) \/ PushUnanswered(e)  PROVE Unique'
  BY <1>6, PushPlaces DEF Push, PushUnanswered
<1>7. ASSUME Trim  PROVE Unique'
  <2>1. queue' = Trimmed(queue) /\ UNCHANGED <<sends, worker, stored>>
    BY <1>7 DEF Trim
  <2>2. Distinct(queue') /\ \A c : At(c, queue') => At(c, queue)
    BY <1>0, <2>1, TrimKeeps DEF Unique
  <2>3. \A c \in Entries, t \in Servers : Held(c, t)' => Held(c, t)
    BY <2>1 DEF Held
  <2> QED BY <1>0, <2>1, <2>2, <2>3, Shrinks
<1> QED BY <1>3, <1>4, <1>5, <1>6, <1>7, DrainPlaces, InsertPlaces DEF Next, Step, Send, Work
-----------------------------------------------------------------------------
(* The invariant *)

LEMMA InvInit == Init => Inv
<1> SUFFICES ASSUME Init  PROVE Inv
  OBVIOUS
<1>1. TypeOK
  BY Empty, SizesAssumption DEF Init, TypeOK
<1>2. Len(queue) = 0
  BY DEF Init
<1>3. SendsOK
  BY <1>1, SizesAssumption DEF Init, SendsOK, TypeOK
<1>4. \A s \in Servers : worker[s].batch = <<>>
  BY Empty DEF Init
<1>5. \A c \in Entries : Placed(c)
  BY <1>4, Empty DEF Init, Placed, Held
<1>6. Distinct(queue)
  BY <1>2 DEF Distinct
<1>7. Len(queue) <= QueueMaxLen + trims
  BY <1>2, SizesAssumption DEF Init
<1> QED BY <1>1, <1>3, <1>5, <1>6, <1>7 DEF Inv, Unique

LEMMA InvNext == Inv /\ [Next]_vars => Inv'
<1>1. ASSUME Inv, UNCHANGED vars  PROVE Inv'
  <2>1. TypeOK' /\ Len(queue') <= QueueMaxLen + trims' /\ SendsOK'
    BY <1>1 DEF vars, Inv, TypeOK, SendsOK, Sending
  <2>2. Unique'
    BY <1>1, Shrinks DEF vars, Inv, Unique, Held
  <2> QED BY <2>1, <2>2 DEF Inv
<1>2. ASSUME Inv, Next  PROVE Inv'
  BY <1>2, TypeStep, UniqueStep DEF Inv
<1> QED BY <1>1, <1>2

LEMMA InvRows == Inv => RowPerPush
BY DEF Inv, Unique, Placed, RowPerPush

(* Whatever fails, and whichever server inserts it: a push becomes at most one row. *)
THEOREM PushesBecomeOneRow == Spec => []RowPerPush
<1>1. Spec => []Inv
  BY InvInit, InvNext, PTL DEF Spec
<1> QED BY <1>1, InvRows, PTL
-----------------------------------------------------------------------------
(* The fate of an event *)

Stored(e) == \E n \in 1..MaxFaults + 1 : stored[<<e, n>>] # 0
Fate(e) == IF track[e] = "new" THEN "new"
           ELSE IF Stored(e) THEN "stored"
           ELSE IF Pending(e) THEN "pending" ELSE "lost"
Fated == [e \in Events |-> Fate(e)]

\* All that changes changes alike.
LEMMA Moves ==
  ASSUME NEW a, NEW b, <<a, b>> \in {<<"new", "pending">>, <<"pending", "stored">>, <<"pending", "lost">>},
         \A e \in Events : Fate(e)' = Fate(e) \/ (Fate(e) = a /\ Fate(e)' = b)
  PROVE  Log!Next
<1> DEFINE S == {e \in Events : Fate(e)' # Fate(e)}
<1>1. S \in SUBSET Events /\ \A e \in S : Fated[e] = a
  BY DEF Fated
<1>2. Fated' = [e \in Events |-> IF e \in S THEN b ELSE Fated[e]]
  BY DEF Fated
<1>3. Log!Move(S, a, b)
  BY <1>1, <1>2 DEF Log!Move, Fated, Fate, Stored
<1> QED BY <1>1, <1>3 DEF Log!Next, Log!Accept, Log!Store, Log!Lose

LEMMA InAt == \A e, q : In(e, q) <=> \E c : At(c, q) /\ c[1] = e
BY DEF In, At

LEMMA Loses ==
  ASSUME stored' = stored, \A e \in Events : (track'[e] = "new") = (track[e] = "new"),
         \A e \in Events : Pending(e)' => Pending(e)
  PROVE  Log!Next
<1>1. ASSUME NEW e \in Events
      PROVE  Fate(e)' = Fate(e) \/ (Fate(e) = "pending" /\ Fate(e)' = "lost")
  <2>1. Stored(e)' = Stored(e)
    BY DEF Stored
  <2> QED BY <2>1 DEF Fate
<1> QED BY <1>1, Moves

\* Nothing enters the queue or a batch that was not in one of them.
LEMMA StaysPending ==
  ASSUME \A e \in Events : track'[e] = track[e] \/ (Sending(e) /\ track'[e] \in {"adrift", "done"}),
         \A c : At(c, queue') => At(c, queue) \/ \E s \in Servers : Held(c, s),
         \A c : \A s \in Servers : Held(c, s)' => At(c, queue) \/ Held(c, s)
  PROVE  \A e \in Events : Pending(e)' => Pending(e)
<1> SUFFICES ASSUME NEW e \in Events, Pending(e)'  PROVE Pending(e)
  OBVIOUS
<1>1. CASE Sending(e)'
  BY <1>1, ServersAssumption DEF Pending, Sending
<1>2. CASE In(e, queue')
  <2>1. PICK c : At(c, queue') /\ c[1] = e
    BY <1>2, InAt
  <2> QED BY <2>1, InAt DEF Pending, Sending, Held
<1>3. CASE \E s \in Servers : In(e, worker'[s].batch)
  <2>1. PICK s \in Servers : In(e, worker'[s].batch)
    BY <1>3
  <2>2. PICK c : At(c, worker'[s].batch) /\ c[1] = e
    BY <2>1, InAt
  <2>3. Held(c, s)'
    BY <2>2 DEF Held
  <2>4. At(c, queue) \/ Held(c, s)
    BY <2>3
  <2> QED BY <2>2, <2>4, InAt DEF Pending, Sending, Held
<1> QED BY <1>1, <1>2, <1>3 DEF Pending, Sending

LEMMA PushFate ==
  ASSUME Inv, NEW e \in Events, Pushed(e), track' = track \/ track' = [track EXCEPT ![e] = "done"]
  PROVE  Log!Next
<1>1. TypeOK /\ Sending(e) /\ UNCHANGED <<worker, stored>>
  BY DEF Inv, Pushed
<1>2. \A d \in Events : track'[d] = track[d] \/ (Sending(d) /\ track'[d] = "done")
  BY <1>1 DEF TypeOK
<1>3. \A d \in Events : (track'[d] = "new") = (track[d] = "new")
  BY <1>1, <1>2, ServersAssumption DEF Sending
<1>4. PICK c : c = <<e, sends[e] + 1>>
  OBVIOUS
<1>5. \A i \in 1..Len(queue') : queue'[i] = IF i = 1 THEN c ELSE queue[i - 1]
  BY <1>4, Pushes
<1>6. Len(queue') \in Nat /\ Len(queue) \in Nat /\ Len(queue') <= Len(queue) + 1
  <2>1. queue' \in Seq(Entries)
    BY Pushes
  <2>2. Len(queue') \in Nat /\ Len(queue) \in Nat
    BY <1>1, <2>1 DEF TypeOK
  <2>3. Len(queue') = Len(queue) + 1
    BY Pushes
  <2> QED BY <2>2, <2>3
<1>7. ASSUME NEW d \in Events, d # e, In(d, queue')  PROVE In(d, queue)
  <2>1. PICK i \in 1..Len(queue') : queue'[i][1] = d
    BY <1>7 DEF In
  <2>2. i # 1
    BY <1>4, <1>5, <1>7, <2>1
  <2>3. i - 1 \in 1..Len(queue) /\ queue[i - 1][1] = d
    BY <1>5, <1>6, <2>1, <2>2
  <2> QED BY <2>3 DEF In
<1>8. ASSUME NEW d \in Events, Pending(d)'  PROVE Pending(d)
  <2>1. CASE d = e
    BY <1>1, <2>1 DEF Pending, Sending
  <2>2. CASE d # e
    BY <1>1, <1>2, <1>7, <1>8, <2>2, ServersAssumption DEF Pending, Sending
  <2> QED BY <2>1, <2>2
<1> QED BY <1>1, <1>3, <1>8, Loses

\* Nothing of an event that is not yet tracked is anywhere.
LEMMA NewIsNowhere ==
  ASSUME Inv, NEW e \in Events, track[e] = "new"
  PROVE  ~Stored(e) /\ ~Pending(e)
<1>1. sends[e] = 0
  BY DEF Inv, SendsOK
<1>2. ASSUME NEW c \in Entries, c[1] = e  PROVE ~Sent(c)
  <2>1. c[2] >= 1 /\ c[2] \in Nat
    BY SizesAssumption DEF Entries
  <2> QED BY <1>1, <1>2, <2>1 DEF Sent
<1>3. \A c \in Entries : Placed(c)
  BY DEF Inv, Unique
<1>4. ~Stored(e)
  <2> SUFFICES ASSUME NEW n \in 1..MaxFaults + 1  PROVE stored[<<e, n>>] = 0
    BY DEF Stored
  <2>1. <<e, n>> \in Entries /\ <<e, n>>[1] = e
    BY DEF Entries
  <2> QED BY <1>2, <1>3, <2>1 DEF Placed
<1>5. ASSUME NEW q \in Seq(Entries), In(e, q)  PROVE \E c \in Entries : At(c, q) /\ c[1] = e
  BY <1>5 DEF In, At
<1>6. queue \in Seq(Entries) /\ \A s \in Servers : worker[s].batch \in Seq(Entries)
  BY Batches DEF Inv, TypeOK
<1>7. ~In(e, queue)
  BY <1>2, <1>3, <1>5, <1>6 DEF Placed
<1>8. ASSUME NEW s \in Servers  PROVE ~In(e, worker[s].batch)
  BY <1>2, <1>3, <1>5, <1>6 DEF Placed, Held
<1> QED BY <1>4, <1>7, <1>8, ServersAssumption DEF Pending, Sending

LEMMA ArrivalFate ==
  ASSUME Inv, Arrival
  PROVE  Log!Next
<1>1. PICK e \in Events, s \in Servers : Track(e, s)
  BY DEF Arrival
<1>2. TypeOK
  BY DEF Inv
<1>3. track[e] = "new" /\ track'[e] = s /\ \A d \in Events : d # e => track'[d] = track[d]
  BY <1>1, <1>2 DEF Track, TypeOK
<1>4. UNCHANGED <<queue, worker, stored>>
  BY <1>1 DEF Track
<1>5. \A d \in Events : Stored(d)' = Stored(d)
  BY <1>4 DEF Stored
<1>6. Fate(e) = "new" /\ Fate(e)' = "pending"
  <2>1. ~Stored(e)' /\ s # "new"
    BY <1>3, <1>5, NewIsNowhere, ServersAssumption
  <2>2. Pending(e)'
    BY <1>3 DEF Pending, Sending
  <2> QED BY <1>3, <2>1, <2>2 DEF Fate
<1>7. ASSUME NEW d \in Events, d # e  PROVE Fate(d)' = Fate(d)
  <2>1. Pending(d)' = Pending(d)
    BY <1>3, <1>4, <1>7 DEF Pending, Sending
  <2> QED BY <1>3, <1>5, <1>7, <2>1 DEF Fate
<1> QED BY <1>6, <1>7, Moves

LEMMA InsertFate ==
  ASSUME Inv, NEW s \in Servers, Insert(s)
  PROVE  Log!Next
<1>0. TypeOK
  BY DEF Inv
<1>1. After(s) \in Worker /\ After(s).batch = <<>> /\ Goto(s, After(s)) /\ UNCHANGED <<track, queue>>
  BY Empty DEF After, Insert
<1>2. worker'[s].batch = <<>> /\ \A t \in Servers : t # s => worker'[t] = worker[t]
  BY <1>0, <1>1, Gone
<1>3. ASSUME NEW e \in Events  PROVE Pending(e)' => Pending(e)
  BY <1>1, <1>2, Empty, InAt DEF Pending, Sending
<1>4. ASSUME NEW e \in Events, ~In(e, worker[s].batch)  PROVE Pending(e)' = Pending(e)
  <2>1. ASSUME Pending(e)  PROVE Pending(e)'
    BY <1>1, <1>2, <1>4, <2>1 DEF Pending, Sending
  <2> QED BY <1>3, <2>1 DEF Pending, Sending
<1>5. CASE stored' = stored
  BY <1>1, <1>3, <1>5, Loses
<1>6. CASE stored' = With(worker[s].batch)
  <2>1. \A c \in Entries : stored[c] \in Nat /\ stored'[c] = IF Held(c, s) THEN stored[c] + 1 ELSE stored[c]
    BY <1>0, <1>6 DEF With, Held, At, TypeOK
  <2>2. \A e \in Events, n \in 1..MaxFaults + 1 : <<e, n>> \in Entries
    BY DEF Entries
  <2>3. ASSUME NEW e \in Events, Stored(e)  PROVE Stored(e)'
    BY <2>1, <2>2, <2>3 DEF Stored
  <2>4. ASSUME NEW e \in Events, In(e, worker[s].batch)  PROVE Stored(e)' /\ Pending(e)
    <3>1. PICK i \in 1..Len(worker[s].batch) : worker[s].batch[i][1] = e
      BY <2>4 DEF In
    <3>2. worker[s].batch[i] \in Entries
      BY <1>0, Batches
    <3>3. PICK c \in Entries : c = worker[s].batch[i]
      BY <3>2
    <3>4. Held(c, s) /\ c = <<e, c[2]>> /\ c[2] \in 1..MaxFaults + 1
      BY <3>1, <3>3, Entry DEF Held, At
    <3>5. stored'[<<e, c[2]>>] # 0
      BY <2>1, <3>4
    <3>6. Stored(e)'
      BY <3>4, <3>5 DEF Stored
    <3> QED BY <2>4, <3>6 DEF Pending, Sending
  <2>5. ASSUME NEW e \in Events, ~In(e, worker[s].batch)  PROVE Stored(e)' = Stored(e)
    <3>1. ASSUME NEW n \in 1..MaxFaults + 1  PROVE stored'[<<e, n>>] = stored[<<e, n>>]
      <4>1. ~Held(<<e, n>>, s)
        BY <2>5 DEF Held, At, In
      <4> QED BY <2>1, <2>2, <4>1
    <3> QED BY <3>1 DEF Stored
  <2>6. ASSUME NEW e \in Events
        PROVE  Fate(e)' = Fate(e) \/ (Fate(e) = "pending" /\ Fate(e)' = "stored")
    <3>1. CASE In(e, worker[s].batch)
      <4>1. Stored(e)' /\ Pending(e) /\ track[e] # "new"
        BY <2>4, <3>1, NewIsNowhere
      <4> QED BY <1>1, <4>1 DEF Fate
    <3>2. CASE ~In(e, worker[s].batch)
      BY <1>1, <1>4, <2>5, <3>2 DEF Fate
    <3> QED BY <3>1, <3>2
  <2> QED BY <2>6, Moves
<1> QED BY <1>5, <1>6 DEF Insert

LEMMA NextFate ==
  ASSUME Inv, Next
  PROVE  Log!Next
<1>0. TypeOK
  BY DEF Inv
<1>1. ASSUME UNCHANGED stored, UNCHANGED track \/ \E s \in Servers : track' = [e \in Events |-> IF track[e] = s THEN "adrift" ELSE track[e]],
             \A c : At(c, queue') => At(c, queue) \/ \E s \in Servers : Held(c, s),
             \A c : \A s \in Servers : Held(c, s)' => At(c, queue) \/ Held(c, s)
      PROVE  Log!Next
  <2>1. \A e \in Events : track'[e] = track[e] \/ (Sending(e) /\ track'[e] = "adrift")
    BY <1>1 DEF Sending
  <2>2. \A e \in Events : (track'[e] = "new") = (track[e] = "new")
    BY <2>1, ServersAssumption DEF Sending
  <2> QED BY <1>1, <2>1, <2>2, StaysPending, Loses
<1>2. ASSUME NEW e \in Events, Drop(e)  PROVE Log!Next
  <2>1. UNCHANGED <<stored, queue, worker>>
    BY <1>2 DEF Drop
  <2>2. \A d \in Events : track'[d] = track[d] \/ (Sending(d) /\ track'[d] = "done")
    BY <1>0, <1>2 DEF Drop, TypeOK, Sending
  <2>3. \A d \in Events : (track'[d] = "new") = (track[d] = "new")
    BY <2>2, ServersAssumption DEF Sending
  <2>4. \A c : \A s \in Servers : Held(c, s)' = Held(c, s)
    BY <2>1 DEF Held
  <2> QED BY <2>1, <2>2, <2>3, <2>4, StaysPending, Loses
<1>3. ASSUME NEW s \in Servers, NEW w \in Worker, w.batch = <<>>, Goto(s, w)
      PROVE  \A c : \A t \in Servers : Held(c, t)' => Held(c, t)
  <2>1. worker'[s].batch = <<>> /\ \A t \in Servers : t # s => worker'[t] = worker[t]
    BY <1>0, <1>3, Gone
  <2> QED BY <2>1, Empty DEF Held
<1>4. ASSUME NEW s \in Servers, Interval(s) \/ DrainFails(s) \/ Restart(s) \/ Crash(s)  PROVE Log!Next
  <2>1. PICK w \in Worker : w.batch = <<>> /\ Goto(s, w)
    BY <1>4, Empty DEF Interval, DrainFails, Restart, Crash
  <2>2. \A c : \A t \in Servers : Held(c, t)' => Held(c, t)
    BY <1>3, <2>1
  <2>3. UNCHANGED <<stored, queue>>
    BY <1>4 DEF Interval, DrainFails, Restart, Crash
  <2>4. UNCHANGED track \/ track' = [e \in Events |-> IF track[e] = s THEN "adrift" ELSE track[e]]
    BY <1>4 DEF Interval, DrainFails, Restart, Crash
  <2> QED BY <1>1, <2>2, <2>3, <2>4
<1>5. ASSUME NEW s \in Servers, Drain(s)  PROVE Log!Next
  <2> DEFINE w == IF queue = <<>> THEN Idle ELSE Flush("inserting", Popped)
  <2>1. w \in Worker /\ (w.batch = Popped \/ w.batch = <<>>)
    BY <1>0, Empty, Pops DEF Flush, Worker
  <2>2. Goto(s, w) /\ queue' = SubSeq(queue, 1, Kept) /\ UNCHANGED <<stored, track>>
    BY <1>5 DEF Drain
  <2> HIDE DEF w
  <2>3. worker'[s] = w /\ \A t \in Servers : t # s => worker'[t] = worker[t]
    BY <1>0, <2>1, <2>2, Gone
  <2>4. \A c : At(c, queue') => At(c, queue)
    BY <1>0, <2>2, PopKeeps
  <2>5. \A c : \A t \in Servers : Held(c, t)' => At(c, queue) \/ Held(c, t)
    BY <1>0, <2>1, <2>3, PopKeeps, Empty DEF Held
  <2> QED BY <1>1, <2>2, <2>4, <2>5
<1>6. ASSUME NEW s \in Servers, DrainUnanswered(s)  PROVE Log!Next
  <2>1. queue' = SubSeq(queue, 1, Kept) /\ UNCHANGED <<stored, track, worker>>
    BY <1>6 DEF DrainUnanswered
  <2>2. \A c : At(c, queue') => At(c, queue)
    BY <1>0, <2>1, PopKeeps
  <2>3. \A c : \A t \in Servers : Held(c, t)' => Held(c, t)
    BY <2>1 DEF Held
  <2> QED BY <1>1, <2>1, <2>2, <2>3
<1>7. ASSUME NEW e \in Events, Push(e) \/ PushUnanswered(e)  PROVE Log!Next
  BY <1>7, PushFate DEF Push, PushUnanswered
<1>8. ASSUME Trim  PROVE Log!Next
  <2>1. queue' = Trimmed(queue) /\ UNCHANGED <<stored, track, worker>>
    BY <1>8 DEF Trim
  <2>2. \A c : At(c, queue') => At(c, queue)
    BY <1>0, <2>1, TrimKeeps
  <2>3. \A c : \A t \in Servers : Held(c, t)' => Held(c, t)
    BY <2>1 DEF Held
  <2> QED BY <1>1, <2>1, <2>2, <2>3
<1> QED BY <1>2, <1>4, <1>5, <1>6, <1>7, <1>8, ArrivalFate, InsertFate DEF Next, Step, Send, Work

\* Fates depend on nothing but where the pushes of an event are.
LEMMA FatesStay == UNCHANGED <<track, queue, worker, stored>> => UNCHANGED Fated
<1> SUFFICES ASSUME UNCHANGED <<track, queue, worker, stored>>  PROVE UNCHANGED Fated
  OBVIOUS
<1>1. ASSUME NEW e \in Events  PROVE Fate(e)' = Fate(e)
  <2>1. Stored(e)' = Stored(e) /\ Pending(e)' = Pending(e) /\ track' = track
    BY DEF Stored, Pending, Sending
  <2> QED BY <2>1 DEF Fate
<1> QED BY <1>1 DEF Fated

LEMMA FatesMove == Inv /\ [Next]_vars => [Log!Next]_Fated
<1>1. UNCHANGED vars => UNCHANGED Fated
  BY FatesStay DEF vars
<1> QED BY <1>1, NextFate

(* Tracking implements the log of events: what is stored or lost stays so. *)
THEOREM FatesAreFinal == Spec => DecidedOnce
<1>1. Spec => []Inv
  BY InvInit, InvNext, PTL DEF Spec
<1>2. Init => Log!Init
  BY DEF Init, Log!Init
<1> QED BY <1>1, <1>2, FatesMove, PTL DEF Spec, DecidedOnce, Log!Safe, Fated, Fate, Stored
-----------------------------------------------------------------------------
(* The statistics of a day *)

\* What a call has counted is there, and was before what it has grouped.
Counted(c) ==
  /\ agg[c].at \in {"grouping", "writing"} => 0 < agg[c].total /\ agg[c].total <= Rows
  /\ agg[c].at = "writing" => agg[c].total <= agg[c].grouped /\ agg[c].grouped <= Rows
StatsInv == StatsAreOfRows /\ \A c \in Calls : Counted(c)

LEMMA EntriesFinite == IsFiniteSet(Entries)
<1>1. IsFiniteSet(1..MaxFaults + 1)
  BY FS_Interval, SizesAssumption
<1> QED BY <1>1, FS_Product, EventsAssumption DEF Entries

LEMMA RowsNat == Rows \in Nat
<1>1. {c \in Entries : stored[c] # 0} \subseteq Entries
  OBVIOUS
<1> QED BY <1>1, EntriesFinite, FS_Subset, FS_CardinalityType DEF Rows

\* Rows are only added.
LEMMA RowsGrow ==
  ASSUME TypeOK, \A c \in Entries : stored'[c] \in Nat /\ stored[c] <= stored'[c]
  PROVE  Rows \in Nat /\ Rows' \in Nat /\ Rows <= Rows'
<1> DEFINE R == {c \in Entries : stored[c] # 0}
           Q == {c \in Entries : stored'[c] # 0}
<1>1. IsFiniteSet(Entries)
  BY EntriesFinite
<1>2. Q \subseteq Entries /\ R \subseteq Q
  BY DEF TypeOK
<1>3. IsFiniteSet(Q)
  BY <1>1, <1>2, FS_Subset
<1>4. IsFiniteSet(R) /\ Cardinality(R) <= Cardinality(Q)
  BY <1>2, <1>3, FS_Subset
<1> QED BY <1>3, <1>4, FS_CardinalityType DEF Rows

LEMMA NextGrows ==
  ASSUME Inv, [Next]_vars
  PROVE  \A c \in Entries : stored'[c] \in Nat /\ stored[c] <= stored'[c]
<1>1. \A c \in Entries : stored[c] \in Nat
  BY DEF Inv, TypeOK
<1>2. CASE UNCHANGED stored
  BY <1>1, <1>2
<1>3. CASE \E s \in Servers : Insert(s)
  BY <1>1, <1>3 DEF Insert, With
<1>4. UNCHANGED stored \/ \E s \in Servers : Insert(s)
  BY DEF Next, vars, Step, Send, Work, Arrival, Track, Drop, Push, PushUnanswered, Pushed,
         Interval, Drain, DrainUnanswered, DrainFails, Restart, Crash, Trim
<1> QED BY <1>2, <1>3, <1>4

\* A failed query is the only step besides those of Tracking that touches one of its variables.
LEMMA AggSteps == [AggNext]_allVars => [Next]_vars \/ \E c \in Calls : Fail(c)
<1>1. TrackingStep => Next
  BY DEF TrackingStep, Next
<1>2. \A s \in Servers : AggCrash(s) => Next
  BY DEF AggCrash, Next
<1>3. \A s \in Servers : AggregateRecent(s) \/ AggregateDay(s) => UNCHANGED vars
  BY DEF AggregateRecent, AggregateDay
<1>4. \A c \in Calls : Query(c) => UNCHANGED vars
  BY DEF Query, Count, Delete, Group, Upsert
<1>5. Tick \/ UNCHANGED allVars => UNCHANGED vars
  BY DEF Tick, allVars
<1> QED BY <1>1, <1>2, <1>3, <1>4, <1>5 DEF AggNext

LEMMA AggInvNext == Inv /\ [AggNext]_allVars => Inv'
<1>1. ASSUME Inv, NEW c \in Calls, Fail(c)  PROVE Inv'
  <2>1. faults \in Nat /\ faults' = faults + 1 /\ faults' \in 0..MaxFaults
        /\ UNCHANGED <<track, sends, queue, trims, worker, stored>>
    BY <1>1, SizesAssumption DEF Fail, Fault, Inv, TypeOK
  <2>2. \A e \in Events : sends[e] \in Nat
    BY <1>1, SizesAssumption DEF Inv, TypeOK
  <2>3. TypeOK' /\ Len(queue') <= QueueMaxLen + trims'
    BY <1>1, <2>1 DEF Inv, TypeOK
  <2>4. SendsOK'
    BY <1>1, <2>1, <2>2 DEF Inv, SendsOK, Sending
  <2>5. Unique'
    BY <1>1, <2>1, Shrinks DEF Inv, Unique, Held
  <2> QED BY <2>3, <2>4, <2>5 DEF Inv
<1> QED BY <1>1, AggSteps, InvNext

LEMMA RowsStep ==
  ASSUME Inv, [AggNext]_allVars
  PROVE  Rows \in Nat /\ Rows' \in Nat /\ Rows <= Rows'
<1>1. CASE [Next]_vars
  BY <1>1, NextGrows, RowsGrow DEF Inv
<1>2. CASE \E c \in Calls : Fail(c)
  <2>1. stored' = stored
    BY <1>2 DEF Fail
  <2>2. \A c \in Entries : stored[c] \in Nat
    BY DEF Inv, TypeOK
  <2> QED BY <2>1, <2>2, RowsGrow DEF Inv
<1> QED BY <1>1, <1>2, AggSteps

LEMMA StatsInit == AggInit => StatsInv
<1> SUFFICES ASSUME AggInit  PROVE StatsInv
  OBVIOUS
<1>1. AggTypeOK
  BY DEF AggInit, AggTypeOK, Call, NoCall, Stats, NoStats
<1> QED BY <1>1, RowsNat DEF AggInit, StatsInv, StatsAreOfRows, Counted, NoCall, NoStats

\* Steps that leave the statistics, for rows are only added.
LEMMA StatsKept ==
  ASSUME Inv, StatsInv, [AggNext]_allVars, AggTypeOK', UNCHANGED stats,
         \A c \in Calls : agg'[c] = agg[c] \/ Counted(c)'
  PROVE  StatsInv'
<1>1. Rows \in Nat /\ Rows' \in Nat /\ Rows <= Rows'
  BY RowsStep
<1>2. stats \in Stats /\ stats.totalEvents \in Nat /\ stats.grouped \in Nat
  BY DEF StatsInv, StatsAreOfRows, AggTypeOK, Stats
<1>3. StatsAreOfRows'
  BY <1>1, <1>2 DEF StatsInv, StatsAreOfRows
<1>4. ASSUME NEW c \in Calls  PROVE Counted(c)'
  <2>1. CASE agg'[c] = agg[c]
    <3>1. agg[c].total \in Nat /\ agg[c].grouped \in Nat
      BY DEF StatsInv, StatsAreOfRows, AggTypeOK, Call
    <3>2. Counted(c)
      BY DEF StatsInv
    <3> QED BY <1>1, <2>1, <3>1, <3>2 DEF Counted
  <2> QED BY <2>1
<1> QED BY <1>3, <1>4 DEF StatsInv

\* The calls besides the one that goes on stay where they are.
LEMMA Goes ==
  ASSUME AggTypeOK, NEW c \in Calls, NEW rec \in Call, GotoCall(c, rec)
  PROVE  /\ agg' \in [Calls -> Call] /\ agg'[c] = rec
         /\ \A d \in Calls : d # c => agg'[d] = agg[d]
BY DEF GotoCall, AggTypeOK

LEMMA Ends ==
  ASSUME AggTypeOK, NEW c \in Calls, End(c)
  PROVE  /\ agg' \in [Calls -> Call] /\ running' \in [Servers -> BOOLEAN]
         /\ agg'[c] = NoCall /\ \A d \in Calls : d # c => agg'[d] = agg[d]
<1>1. NoCall \in Call
  BY DEF NoCall, Call
<1>2. c[1] \in Servers
  BY DEF Calls
<1>3. running' \in [Servers -> BOOLEAN]
  BY <1>2 DEF End, AggTypeOK
<1> QED BY <1>1, <1>3, Goes DEF End

LEMMA StatsNext == Inv /\ StatsInv /\ [AggNext]_allVars => StatsInv'
<1> SUFFICES ASSUME Inv, StatsInv, [AggNext]_allVars  PROVE StatsInv'
  OBVIOUS
<1>0. AggTypeOK
  BY DEF StatsInv, StatsAreOfRows
<1>1. Rows \in Nat /\ Rows' \in Nat /\ Rows <= Rows'
  BY RowsStep
<1>2. NoCall \in Call /\ NoCall.at = "idle" /\ [NoCall EXCEPT !.at = "counting"] \in Call
      /\ [NoCall EXCEPT !.at = "counting"].at = "counting"
  BY DEF NoCall, Call
<1>3. ASSUME NEW c \in Calls, agg'[c].at \notin {"grouping", "writing"}  PROVE Counted(c)'
  BY <1>3 DEF Counted
<1>4. CASE UNCHANGED aggVars /\ clock' \in {"today", "recent", "past"}
  <2>1. AggTypeOK'
    BY <1>0, <1>4 DEF aggVars, AggTypeOK
  <2> QED BY <1>4, <2>1, StatsKept DEF aggVars
<1>5. ASSUME NEW s \in Servers, AggCrash(s)  PROVE StatsInv'
  <2>1. agg' = [c \in Calls |-> IF c[1] = s THEN NoCall ELSE agg[c]]
        /\ running' = [running EXCEPT ![s] = FALSE] /\ UNCHANGED <<clock, stats>>
    BY <1>5 DEF AggCrash
  <2>2. AggTypeOK'
    BY <1>0, <1>2, <2>1 DEF AggTypeOK
  <2>3. ASSUME NEW c \in Calls  PROVE agg'[c] = agg[c] \/ agg'[c].at = "idle"
    BY <1>2, <2>1
  <2>4. \A c \in Calls : agg'[c] = agg[c] \/ Counted(c)'
    BY <1>3, <2>3
  <2> QED BY <2>1, <2>2, <2>4, StatsKept
<1>6. ASSUME NEW s \in Servers, AggregateRecent(s) \/ AggregateDay(s)  PROVE StatsInv'
  <2>1. PICK c \in Calls : GotoCall(c, [NoCall EXCEPT !.at = "counting"])
    BY <1>6 DEF AggregateRecent, AggregateDay, Calls
  <2>2. running' \in [Servers -> BOOLEAN] /\ UNCHANGED <<clock, stats>>
    BY <1>0, <1>6 DEF AggregateRecent, AggregateDay, AggTypeOK
  <2>3. agg' \in [Calls -> Call] /\ agg'[c].at = "counting" /\ \A d \in Calls : d # c => agg'[d] = agg[d]
    BY <1>0, <1>2, <2>1, Goes
  <2>4. AggTypeOK'
    BY <1>0, <2>2, <2>3 DEF AggTypeOK
  <2>5. \A d \in Calls : agg'[d] = agg[d] \/ Counted(d)'
    BY <1>3, <2>3
  <2> QED BY <2>2, <2>4, <2>5, StatsKept
<1>7. ASSUME NEW c \in Calls, Count(c)  PROVE StatsInv'
  <2> DEFINE rec == [at |-> IF Rows = 0 THEN "deleting" ELSE "grouping", total |-> Rows, grouped |-> 0]
  <2>1. rec \in Call /\ rec.total = Rows /\ rec.at \in {"deleting", "grouping"} /\ (rec.at = "grouping" => Rows # 0)
    BY <1>1 DEF Call
  <2>2. GotoCall(c, rec) /\ UNCHANGED <<clock, running, stats, stored>>
    BY <1>7 DEF Count, vars
  <2> HIDE DEF rec
  <2>3. agg' \in [Calls -> Call] /\ agg'[c] = rec /\ \A d \in Calls : d # c => agg'[d] = agg[d]
    BY <1>0, <2>1, <2>2, Goes
  <2>4. AggTypeOK'
    BY <1>0, <2>2, <2>3 DEF AggTypeOK
  <2>5. Rows' = Rows
    BY <2>2 DEF Rows
  <2>6. Counted(c)'
    BY <1>1, <2>1, <2>3, <2>5 DEF Counted
  <2> QED BY <2>2, <2>3, <2>4, <2>6, StatsKept
<1>8. ASSUME NEW c \in Calls, Group(c)  PROVE StatsInv'
  <2> DEFINE rec == [agg[c] EXCEPT !.at = "writing", !.grouped = Rows]
  <2>1. agg[c] \in Call /\ agg[c].total \in Nat /\ agg[c].at = "grouping"
    BY <1>0, <1>8 DEF AggTypeOK, Call, Group
  <2>2. rec \in Call /\ rec.total = agg[c].total /\ rec.at = "writing" /\ rec.grouped = Rows
    BY <1>1, <2>1 DEF Call
  <2>3. GotoCall(c, rec) /\ UNCHANGED <<clock, running, stats, stored>>
    BY <1>8 DEF Group, vars
  <2>4. 0 < agg[c].total /\ agg[c].total <= Rows
    BY <2>1 DEF StatsInv, Counted
  <2> HIDE DEF rec
  <2>5. agg' \in [Calls -> Call] /\ agg'[c] = rec /\ \A d \in Calls : d # c => agg'[d] = agg[d]
    BY <1>0, <2>2, <2>3, Goes
  <2>6. AggTypeOK'
    BY <1>0, <2>3, <2>5 DEF AggTypeOK
  <2>7. Rows' = Rows
    BY <2>3 DEF Rows
  <2>8. Counted(c)'
    BY <1>1, <2>1, <2>2, <2>4, <2>5, <2>7 DEF Counted
  <2> QED BY <2>3, <2>5, <2>6, <2>8, StatsKept
<1>9. ASSUME NEW c \in Calls, Fail(c)  PROVE StatsInv'
  <2>1. End(c) /\ UNCHANGED <<clock, stats>>
    BY <1>9 DEF Fail
  <2>2. AggTypeOK'
    BY <1>0, <2>1, Ends DEF AggTypeOK
  <2>3. \A d \in Calls : agg'[d] = agg[d] \/ Counted(d)'
    BY <1>0, <1>2, <1>3, <2>1, Ends
  <2> QED BY <2>1, <2>2, <2>3, StatsKept
<1>10. ASSUME NEW c \in Calls, Delete(c) \/ Upsert(c)  PROVE StatsInv'
  <2>1. End(c) /\ UNCHANGED <<clock, stored>>
    BY <1>10 DEF Delete, Upsert, vars
  <2>2. Rows' = Rows
    BY <2>1 DEF Rows
  <2>3. /\ stats' \in Stats /\ stats'.totalEvents <= stats'.grouped /\ stats'.grouped <= Rows
        /\ stats'.exists => stats'.totalEvents > 0
    <3>1. CASE Delete(c)
      BY <1>1, <3>1 DEF Delete, NoStats, Stats
    <3>2. CASE Upsert(c)
      <4>1. agg[c].total \in Nat /\ agg[c].grouped \in Nat /\ agg[c].at = "writing" /\ Counted(c)
        BY <1>0, <3>2 DEF AggTypeOK, Call, Upsert, StatsInv
      <4> QED BY <1>1, <3>2, <4>1 DEF Upsert, Stats, Counted
    <3> QED BY <1>10, <3>1, <3>2
  <2>4. /\ agg' \in [Calls -> Call] /\ running' \in [Servers -> BOOLEAN]
        /\ agg'[c] = NoCall /\ \A d \in Calls : d # c => agg'[d] = agg[d]
    BY <1>0, <2>1, Ends
  <2>5. AggTypeOK'
    BY <1>0, <2>1, <2>3, <2>4 DEF AggTypeOK
  <2>6. ASSUME NEW d \in Calls  PROVE Counted(d)'
    <3>1. CASE d = c
      BY <1>2, <1>3, <2>4, <3>1
    <3>2. CASE d # c
      BY <2>2, <2>4, <3>2 DEF StatsInv, Counted
    <3> QED BY <3>1, <3>2
  <2> QED BY <2>2, <2>3, <2>5, <2>6 DEF StatsInv, StatsAreOfRows
<1>11. CASE TrackingStep \/ Tick \/ UNCHANGED allVars
  BY <1>0, <1>4, <1>11 DEF TrackingStep, Tick, allVars, aggVars, AggTypeOK
<1> QED BY <1>5, <1>6, <1>7, <1>8, <1>9, <1>10, <1>11 DEF AggNext, Query

(* However the calls overlap each other and the workers, the statistics of a day are of rows
   there are, and the total is never of more of them than the breakdowns. *)
THEOREM StatsNeverExceed == AggSpec => []StatsAreOfRows
<1>0. AggInit => Init
  BY DEF AggInit
<1>1. AggSpec => [](Inv /\ StatsInv)
  BY <1>0, InvInit, AggInvNext, StatsInit, StatsNext, PTL DEF AggSpec
<1>2. StatsInv => StatsAreOfRows
  BY DEF StatsInv
<1> QED BY <1>1, <1>2, PTL
-----------------------------------------------------------------------------
(* The whole module, statistics included, keeps what the pipeline of events promises: the calls
   that aggregate read its rows and never touch them. *)

(* With the statistics computed alongside a push still becomes at most one row. *)
THEOREM PushesBecomeOneRowAlongside == AggSpec => []RowPerPush
<1>1. AggInit => Init
  BY DEF AggInit
<1>2. AggSpec => []Inv
  BY <1>1, InvInit, AggInvNext, PTL DEF AggSpec
<1> QED BY <1>2, InvRows, PTL

(* The calls that aggregate, failing or not, decide the fate of no event. *)
THEOREM FatesAreFinalAlongside == AggSpec => DecidedOnce
<1>1. AggInit => Init
  BY DEF AggInit
<1>2. AggSpec => []Inv
  BY <1>1, InvInit, AggInvNext, PTL DEF AggSpec
<1>3. Init => Log!Init
  BY DEF Init, Log!Init
<1>4. Inv /\ [AggNext]_allVars => [Log!Next]_Fated
  <2>1. ASSUME NEW c \in Calls, Fail(c)  PROVE UNCHANGED Fated
    BY <2>1, FatesStay DEF Fail
  <2> QED BY <2>1, AggSteps, FatesMove
<1> QED BY <1>1, <1>2, <1>3, <1>4, PTL DEF AggSpec, DecidedOnce, Log!Safe, Fated, Fate, Stored

=============================================================================
