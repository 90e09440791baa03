------------------------- MODULE TextVersionsProofs -------------------------
(***************************************************************************)
(* Safety of TextVersions for any number of runs, administrators, versions *)
(* and faults.                                                             *)
(***************************************************************************)
EXTENDS TextVersions, SequenceTheorems, TLAPS

USE DEF None, TheText

Inv == VersionState /\ RunningIsReal
-----------------------------------------------------------------------------
(* What the steps do to the version rows *)

\* The switch of isCurrent leaves one current row, v.
LEMMA SwitchedRows ==
  ASSUME versions \in Seq(Version), NEW v \in Rows, NEW s \in {"RUNNING", "COMPLETED", "ERROR"},
         versions' = MadeCurrent(v, s)
  PROVE  /\ versions' \in Seq(Version) /\ Len(versions') = Len(versions)
         /\ \A i \in Rows :
              /\ versions'[i].number = versions[i].number
              /\ versions'[i].current = (i = v)
              /\ versions'[i].status = IF i = v THEN s ELSE versions[i].status
<1>1. \A i \in Rows : versions[i] \in Version
  BY DEF Rows
<1>2. ASSUME NEW i \in Rows  PROVE versions'[i] \in Version
  <2>1. versions[i] \in Version
    BY <1>1
  <2>2. \E b \in BOOLEAN, t \in {versions[i].status, s} :
          versions'[i] = [versions[i] EXCEPT !.current = b, !.status = t]
    BY <2>1 DEF MadeCurrent, Version
  <2> QED BY <2>1, <2>2 DEF Version
<1>3. versions' \in [1..Len(versions) -> Version] /\ Len(versions) \in Nat
  <2>1. versions' = [i \in Rows |-> versions'[i]]
    BY DEF MadeCurrent
  <2> QED BY <1>2, <2>1 DEF Rows
<1>4. versions' \in Seq(Version) /\ Len(versions') = Len(versions)
  BY <1>3
<1>5. \A i \in Rows : /\ versions'[i].number = versions[i].number
                      /\ versions'[i].current = (i = v)
                      /\ versions'[i].status = IF i = v THEN s ELSE versions[i].status
  BY <1>1 DEF MadeCurrent, Version
<1> QED BY <1>4, <1>5

\* A reset or deletion leaves no live row.
LEMMA GoneRows ==
  ASSUME versions \in Seq(Version), versions' = AllGone
  PROVE  /\ versions' \in Seq(Version) /\ Len(versions') = Len(versions)
         /\ \A i \in Rows : ~versions'[i].current /\ versions'[i].status = "GONE"
<1>1. \A i \in Rows : versions[i] \in Version
  BY DEF Rows
<1>2. \A i \in Rows : versions'[i] \in Version
  BY <1>1 DEF AllGone, Version
<1>3. versions' \in [1..Len(versions) -> Version] /\ Len(versions) \in Nat
  <2>1. versions' = [i \in Rows |-> versions'[i]]
    BY DEF AllGone
  <2> QED BY <1>2, <2>1 DEF Rows
<1>4. versions' \in Seq(Version) /\ Len(versions') = Len(versions)
  BY <1>3
<1>5. \A i \in Rows : ~versions'[i].current /\ versions'[i].status = "GONE"
  BY <1>1 DEF AllGone, Version
<1> QED BY <1>4, <1>5

\* The error handler changes the status of its own version and nothing else.
LEMMA MarkedRows ==
  ASSUME versions \in Seq(Version), NEW v,
         versions' = [i \in Rows |->
           IF i = v THEN [versions[i] EXCEPT !.status = "ERROR"] ELSE versions[i]]
  PROVE  /\ versions' \in Seq(Version) /\ Len(versions') = Len(versions)
         /\ \A i \in Rows :
              /\ versions'[i].number = versions[i].number
              /\ versions'[i].current = versions[i].current
              /\ versions'[i].status = IF i = v THEN "ERROR" ELSE versions[i].status
<1>1. \A i \in Rows : versions[i] \in Version
  BY DEF Rows
<1>2. \A i \in Rows : versions'[i] \in Version
  BY <1>1 DEF Version
<1>3. versions' \in [1..Len(versions) -> Version] /\ Len(versions) \in Nat
  BY <1>2 DEF Rows
<1>4. versions' \in Seq(Version) /\ Len(versions') = Len(versions)
  BY <1>3
<1>5. \A i \in Rows : /\ versions'[i].number = versions[i].number
                      /\ versions'[i].current = versions[i].current
                      /\ versions'[i].status = IF i = v THEN "ERROR" ELSE versions[i].status
  BY <1>1 DEF Version
<1> QED BY <1>4, <1>5

\* The insert adds one row after the others.
LEMMA AddedRow ==
  ASSUME versions \in Seq(Version), NEW new \in Version, versions' = Append(versions, new)
  PROVE  /\ versions' \in Seq(Version) /\ Len(versions') = Len(versions) + 1
         /\ \A i \in Rows : versions'[i] = versions[i]
         /\ versions'[Len(versions) + 1] = new
BY AppendProperties DEF Rows
-----------------------------------------------------------------------------
(* What the steps do to the runs *)

\* Run r goes to l, and may drop the number it was to create.
Moving(r, l) == Goto(r, l) \/ run' = [run EXCEPT ![r].at = l, ![r].number = None]

\* One run moves; the others stay.
LEMMA RunMoved ==
  ASSUME run \in [Runs -> Run], NEW r \in Runs, NEW l \in RunStates, Moving(r, l)
  PROVE  /\ run' \in [Runs -> Run]
         /\ \A q \in Runs : run'[q].version = run[q].version
         /\ \A q \in Runs \ {r} : run'[q] = run[q]
         /\ run'[r].at = l
BY MaxVersionsAssumption DEF Moving, Goto, Run

\* A run that ends is out of flight and gives up its version.
LEMMA RunEnded ==
  ASSUME run \in [Runs -> Run], NEW r \in Runs, End(r)
  PROVE  /\ run' \in [Runs -> Run]
         /\ \A q \in Runs \ {r} : run'[q] = run[q]
         /\ run'[r].at \in {"idle", "settling"} /\ run'[r].version = None
<1> DEFINE over == [at |-> IF run[r].job THEN "settling" ELSE "idle",
                    number |-> None, version |-> None, job |-> run[r].job]
<1>1. over \in Run /\ over.at \in {"idle", "settling"} /\ over.version = None
  BY MaxVersionsAssumption DEF Run, RunStates
<1>2. run' = [run EXCEPT ![r] = over]
  BY DEF End
<1> HIDE DEF over
<1> QED BY <1>1, <1>2
-----------------------------------------------------------------------------
(* What the invariant keeps *)

\* Rows that only move forward: no row becomes RUNNING, or live, again, and no number changes.
Forward ==
  /\ versions' \in Seq(Version)
  /\ Len(versions') = Len(versions)
  /\ \A i \in Rows :
       /\ versions'[i].number = versions[i].number
       /\ versions'[i].status = "RUNNING" => versions[i].status = "RUNNING"
       /\ versions[i].status = "GONE" => versions'[i].status = "GONE"

\* Steps that move rows forward and leave the administrators alone keep the numbers
\* distinct and the restores completed.
LEMMA ForwardKeeps ==
  ASSUME VersionState, Forward
  PROVE  /\ Rows' = Rows /\ DistinctNumbers'
         /\ (admin' = admin => RestoresCompleted')
<1>1. Rows' = Rows
  BY DEF Forward, Rows
<1>2. DistinctNumbers'
  BY <1>1 DEF VersionState, DistinctNumbers, Forward, Live
<1>3. ASSUME admin' = admin PROVE RestoresCompleted'
  BY <1>1, <1>3 DEF VersionState, RestoresCompleted, Forward
<1> QED BY <1>1, <1>2, <1>3

\* Rows left as they are go forward.
LEMMA SameRows ==
  ASSUME VersionState, versions' = versions
  PROVE  Forward /\ OneCurrent' /\ Live' = Live /\ Current' = Current
BY DEF VersionState, TypeOK, Forward, OneCurrent, Current, Live, Rows

\* The text stays attended when nobody who was to write it goes away.
LEMMA StaysAttended ==
  ASSUME RunningIsReal, text' = "RUNNING" => text = "RUNNING",
         TheText \in orphans => TheText \in orphans',
         \A r \in Runs : WillReport(r) => WillReport(r)',
         \A a \in Admins : admin[a].at = "resetting" => admin'[a].at = "resetting"
  PROVE  (text = "RUNNING" => TheText \in orphans \/ TextAttended)'
BY DEF RunningIsReal, TextAttended

-----------------------------------------------------------------------------
(* The steps of a run *)

\* A run that only moves on within its flight, keeping its version.
LEMMA MovingOn ==
  ASSUME Inv, NEW r \in Runs, NEW l \in {"completing", "failing", "reporting"}, Moving(r, l),
         run[r].at \in InFlight,
         l # "failing" => run[r].version = None \/ versions[run[r].version].status # "RUNNING",
         UNCHANGED <<text, versions, admin, orphans, faults>>
  PROVE  Inv'
<1>1. l \in RunStates /\ l \in InFlight
  BY DEF RunStates, InFlight
<1>2. run \in [Runs -> Run]
  BY DEF Inv, VersionState, TypeOK
<1>3. /\ run' \in [Runs -> Run]
      /\ \A q \in Runs : run'[q].version = run[q].version
      /\ \A q \in Runs \ {r} : run'[q] = run[q]
      /\ run'[r].at = l
  BY <1>1, <1>2, RunMoved
<1>4. Rows' = Rows /\ DistinctNumbers' /\ OneCurrent' /\ RestoresCompleted'
  BY SameRows, ForwardKeeps DEF Inv
<1>5. TypeOK'
  BY <1>3, <1>4 DEF Inv, VersionState, TypeOK
<1>6. OwnVersion'
  BY <1>1, <1>3, <1>4 DEF Inv, VersionState, OwnVersion
<1>7. RunningIsReal'
  <2>1. \A q \in Runs : WillReport(q) => WillReport(q)'
    BY <1>1, <1>3, SameRows DEF Inv, WillReport
  <2> QED BY <1>3, <1>4, <2>1, StaysAttended DEF Inv, RunningIsReal
<1> QED BY <1>4, <1>5, <1>6, <1>7 DEF Inv, VersionState

\* A run that ends has written the text, or was not going to, or leaves an orphan; and
\* its version is no longer RUNNING, or an orphan.
LEMMA Ending ==
  ASSUME Inv, NEW r \in Runs, End(r),
         UNCHANGED <<versions, admin>>,
         text' \in TextStates, faults' \in Nat, orphans' \subseteq 0..MaxVersions,
         \A v \in Rows : v \in orphans => v \in orphans',
         \/ text' # "RUNNING"
         \/ TheText \in orphans'
         \/ text' = text /\ (TheText \in orphans => TheText \in orphans') /\ ~WillReport(r),
         run[r].version = None \/ versions[run[r].version].status # "RUNNING"
           \/ run[r].version \in orphans'
  PROVE  Inv'
<1>1. run \in [Runs -> Run]
  BY DEF Inv, VersionState, TypeOK
<1>2. /\ run' \in [Runs -> Run]
      /\ \A q \in Runs \ {r} : run'[q] = run[q]
      /\ run'[r].at \in {"idle", "settling"} /\ run'[r].version = None
  BY <1>1, RunEnded
<1>3. Rows' = Rows /\ DistinctNumbers' /\ OneCurrent' /\ RestoresCompleted'
  BY SameRows, ForwardKeeps DEF Inv
<1>4. TypeOK'
  BY <1>2, <1>3 DEF Inv, VersionState, TypeOK
<1>5. OwnVersion'
  BY <1>2, <1>3 DEF Inv, VersionState, OwnVersion, InFlight
<1>6. RunningIsReal'
  <2>1. \A q \in Runs \ {r} : WillReport(q) => WillReport(q)'
    BY <1>2, SameRows DEF Inv, WillReport
  <2>2. (text = "RUNNING" => TheText \in orphans \/ TextAttended)'
    <3>1. CASE text' # "RUNNING" \/ TheText \in orphans'
      BY <3>1
    <3>2. CASE text' = text /\ (TheText \in orphans => TheText \in orphans') /\ ~WillReport(r)
      BY <2>1, <3>2, StaysAttended DEF Inv
    <3> QED BY <3>1, <3>2
  <2> QED BY <1>2, <1>3, <2>2 DEF Inv, RunningIsReal, Rows
<1> QED BY <1>3, <1>4, <1>5, <1>6 DEF Inv, VersionState

\* What a run leaves behind is the text or a version.
LEMMA LeftBehindType ==
  ASSUME run \in [Runs -> Run], NEW r \in Runs
  PROVE  LeftBehind(r) \subseteq 0..MaxVersions
BY MaxVersionsAssumption DEF LeftBehind, Run

LEMMA StartStep ==
  ASSUME Inv, NEW r \in Runs, Start(r)
  PROVE  Inv'
<1>1. PICK job \in BOOLEAN : run' = [run EXCEPT ![r] =
        [at |-> "started", number |-> None, version |-> None, job |-> job]]
  BY DEF Start
<1> DEFINE new == [at |-> "started", number |-> None, version |-> None, job |-> job]
<1>2. new \in Run /\ new.at = "started" /\ new.version = None
  BY MaxVersionsAssumption DEF Run, RunStates
<1> HIDE DEF new
<1>3. /\ run' \in [Runs -> Run]
      /\ \A q \in Runs \ {r} : run'[q] = run[q]
      /\ run'[r].at = "started" /\ run'[r].version = None
  BY <1>1, <1>2 DEF Inv, VersionState, TypeOK, new
<1>4. UNCHANGED <<text, versions, admin, orphans, faults>> /\ run[r].at = "idle"
  BY DEF Start
<1>5. Rows' = Rows /\ DistinctNumbers' /\ OneCurrent' /\ RestoresCompleted'
  BY <1>4, SameRows, ForwardKeeps DEF Inv
<1>6. run[r].version = None /\ run[r].at \notin InFlight
  BY <1>4 DEF Inv, VersionState, OwnVersion, InFlight
<1>7. TypeOK'
  BY <1>3, <1>4, <1>5 DEF Inv, VersionState, TypeOK
<1>8. OwnVersion'
  BY <1>3, <1>4, <1>5 DEF Inv, VersionState, OwnVersion, InFlight
<1>9. RunningIsReal'
  <2>1. \A q \in Runs : WillReport(q) => WillReport(q)'
    BY <1>3, <1>4, <1>6, SameRows DEF Inv, WillReport
  <2> QED BY <1>3, <1>4, <1>5, <1>6, <2>1, StaysAttended DEF Inv, RunningIsReal, Rows
<1> QED BY <1>5, <1>7, <1>8, <1>9 DEF Inv, VersionState

LEMMA BeginStep ==
  ASSUME Inv, NEW r \in Runs, Begin(r)
  PROVE  Inv'
<1>1. run \in [Runs -> Run] /\ run[r].at = "started" /\ UNCHANGED <<versions, admin, faults>>
  BY DEF Begin, Inv, VersionState, TypeOK
<1>2. run[r].at \notin InFlight /\ run[r].version = None
  BY <1>1 DEF Inv, VersionState, OwnVersion, InFlight
<1>3. CASE End(r) /\ UNCHANGED <<text, orphans>>
  <2>1. ~WillReport(r)
    BY <1>2 DEF WillReport
  <2> QED BY <1>1, <1>2, <1>3, <2>1, Ending DEF Inv, VersionState, TypeOK
<1>4. CASE WriteText("RUNNING") /\ Goto(r, "begun")
  <2>1. Goto(r, "begun") /\ text' = "RUNNING" /\ orphans' = orphans \ {TheText}
    BY <1>4 DEF WriteText
  <2>2. /\ run' \in [Runs -> Run]
        /\ \A q \in Runs : run'[q].version = run[q].version
        /\ \A q \in Runs \ {r} : run'[q] = run[q]
        /\ run'[r].at = "begun"
    BY <1>1, <2>1, RunMoved DEF RunStates, InFlight, Moving
  <2>3. Rows' = Rows /\ DistinctNumbers' /\ OneCurrent' /\ RestoresCompleted'
    BY <1>1, SameRows, ForwardKeeps DEF Inv
  <2>4. TypeOK'
    BY <1>1, <2>1, <2>2, <2>3 DEF Inv, VersionState, TypeOK, TextStates
  <2>5. OwnVersion'
    BY <1>1, <1>2, <2>2, <2>3 DEF Inv, VersionState, OwnVersion, InFlight
  <2>6. RunningIsReal'
    <3>1. WillReport(r)'
      BY <1>2, <2>2 DEF InFlight, WillReport
    <3>2. \A v \in Rows : v # TheText
      BY DEF Rows
    <3> QED BY <1>1, <2>1, <2>2, <2>3, <3>1, <3>2 DEF Inv, RunningIsReal, TextAttended
  <2> QED BY <2>3, <2>4, <2>5, <2>6 DEF Inv, VersionState
<1> QED BY <1>3, <1>4 DEF Begin

LEMMA EmptyStep ==
  ASSUME Inv, NEW r \in Runs, Empty(r)
  PROVE  Inv'
BY MovingOn DEF Empty, InFlight, Moving, Inv, VersionState, OwnVersion

LEMMA FailStep ==
  ASSUME Inv, NEW r \in Runs, Fail(r)
  PROVE  Inv'
BY MovingOn DEF Fail, InFlight, Moving

LEMMA TakeNumberStep ==
  ASSUME Inv, NEW r \in Runs, TakeNumber(r)
  PROVE  Inv'
<1>1. PICK n \in 0..MaxVersions :
        n < MaxVersions /\ run' = [run EXCEPT ![r].at = "numbered", ![r].number = n + 1]
  BY DEF TakeNumber
<1>2. UNCHANGED <<text, versions, admin, orphans, faults>> /\ run[r].at = "begun"
  BY DEF TakeNumber
<1>3. /\ run' \in [Runs -> Run]
      /\ \A q \in Runs : run'[q].version = run[q].version
      /\ \A q \in Runs \ {r} : run'[q] = run[q]
      /\ run'[r].at = "numbered" /\ run'[r].number = n + 1
  <2> DEFINE new == [run[r] EXCEPT !.at = "numbered", !.number = n + 1]
  <2>1. run \in [Runs -> Run] /\ run[r] \in Run
    BY DEF Inv, VersionState, TypeOK
  <2>2. n + 1 \in 0..MaxVersions
    BY <1>1, MaxVersionsAssumption
  <2>3. new \in Run /\ new.version = run[r].version /\ new.at = "numbered" /\ new.number = n + 1
    BY <2>1, <2>2 DEF Run, RunStates, InFlight
  <2>4. run' = [run EXCEPT ![r] = new]
    BY <1>1
  <2> HIDE DEF new
  <2> QED BY <2>1, <2>3, <2>4
<1>4. Rows' = Rows /\ DistinctNumbers' /\ OneCurrent' /\ RestoresCompleted'
  BY <1>2, SameRows, ForwardKeeps DEF Inv
<1>5. TypeOK'
  BY <1>2, <1>3, <1>4 DEF Inv, VersionState, TypeOK
<1>6. OwnVersion'
  BY <1>2, <1>3, <1>4 DEF Inv, VersionState, OwnVersion, InFlight
<1>7. RunningIsReal'
  <2>1. \A q \in Runs : WillReport(q) => WillReport(q)'
    BY <1>2, <1>3, SameRows DEF Inv, WillReport, InFlight
  <2> QED BY <1>2, <1>3, <1>4, <2>1, StaysAttended DEF Inv, RunningIsReal
<1> QED BY <1>4, <1>5, <1>6, <1>7 DEF Inv, VersionState

LEMMA CreateVersionStep ==
  ASSUME Inv, NEW r \in Runs, CreateVersion(r)
  PROVE  Inv'
<1> DEFINE new == [number |-> run[r].number, current |-> FALSE, status |-> "RUNNING"]
<1>1. /\ run \in [Runs -> Run] /\ run[r].at = "numbered" /\ run[r].version = None
      /\ versions \in Seq(Version) /\ Len(versions) \in Nat
      /\ UNCHANGED <<text, admin, orphans, faults>>
  BY DEF CreateVersion, Inv, VersionState, TypeOK, OwnVersion
<1>2. CASE Refused(r)
  BY <1>1, <1>2, MovingOn DEF CreateVersion, InFlight, Moving
<1>3. CASE ~Refused(r)
  <2>1. /\ Len(versions) < MaxVersions
        /\ versions' = Append(versions, new)
        /\ run' = [run EXCEPT ![r].at = "working", ![r].number = None, ![r].version = Len(versions) + 1]
    BY <1>3 DEF CreateVersion, Insert
  <2>2. /\ run' \in [Runs -> Run]
        /\ \A q \in Runs \ {r} : run'[q] = run[q]
        /\ run'[r].at = "working" /\ run'[r].version = Len(versions) + 1
    <3> DEFINE rec == [run[r] EXCEPT !.at = "working", !.number = None, !.version = Len(versions) + 1]
    <3>1. Len(versions) + 1 \in 0..MaxVersions /\ None \in 0..MaxVersions /\ "working" \in RunStates
      BY <1>1, <2>1, MaxVersionsAssumption DEF RunStates, InFlight, None
    <3>2. rec \in Run /\ rec.at = "working" /\ rec.version = Len(versions) + 1
      BY <1>1, <3>1 DEF Run
    <3>3. run' = [run EXCEPT ![r] = rec]
      BY <1>1, <2>1
    <3> HIDE DEF rec
    <3> QED BY <1>1, <3>2, <3>3
  <2>3. run[r].number \in 1..MaxVersions
    BY <1>1, MaxVersionsAssumption DEF Inv, VersionState, OwnVersion, Run
  <2>4. new \in Version
    BY <2>3 DEF Version
  <2>5. /\ versions' \in Seq(Version) /\ Len(versions') = Len(versions) + 1
        /\ \A i \in Rows : versions'[i] = versions[i]
        /\ versions'[Len(versions) + 1] = new
    BY <1>1, <2>1, <2>4, AddedRow
  <2>6. Rows' = Rows \cup {Len(versions) + 1} /\ Len(versions) + 1 \notin Rows
    BY <1>1, <2>5 DEF Rows
  <2>7. TypeOK'
    BY <1>1, <2>1, <2>2, <2>5, MaxVersionsAssumption DEF Inv, VersionState, TypeOK
  <2>8. OwnVersion'
    <3>1. /\ versions'[run'[r].version].status = "RUNNING" /\ run'[r].version \in Rows'
          /\ run'[r].at = "working" /\ run'[r].version # None
      BY <1>1, <2>2, <2>5, <2>6 DEF None
    <3>2. \A q \in Runs \ {r} : run'[q] = run[q] /\ run[q].version \in {None} \cup Rows /\ run[q].version # run'[r].version
      BY <1>1, <2>2, <2>6, <3>1 DEF Inv, VersionState, OwnVersion
    <3>3. \A i \in Rows : versions'[i].status = versions[i].status /\ i \in Rows'
      BY <2>5, <2>6
    <3>4. ASSUME NEW q \in Runs
          PROVE  /\ run'[q].version \in {None} \cup Rows'
                 /\ run'[q].at = "working" =>
                      run'[q].version # None /\ versions'[run'[q].version].status \in {"RUNNING", "GONE"}
                 /\ run'[q].at \in {"completing", "reporting"} /\ run'[q].version # None =>
                      versions'[run'[q].version].status # "RUNNING"
                 /\ run'[q].at \notin InFlight => run'[q].version = None
                 /\ run'[q].at \in {"begun", "numbered"} => run'[q].version = None
                 /\ run'[q].at = "numbered" => run'[q].number # None
      <4>1. CASE q = r
        BY <3>1, <4>1 DEF InFlight
      <4>2. CASE q # r
        BY <3>2, <3>3, <4>2 DEF Inv, VersionState, OwnVersion
      <4> QED BY <4>1, <4>2
    <3>5. \A p, q \in Runs : p # q /\ run'[p].version # None => run'[p].version # run'[q].version
      BY <3>2 DEF Inv, VersionState, OwnVersion
    <3> QED BY <3>4, <3>5 DEF OwnVersion
  <2>9. DistinctNumbers'
    <3>1. \A v \in Live : versions[v].number # run[r].number
      BY <1>3 DEF Refused
    <3>2. \A v \in Live' : \/ v \in Live /\ versions'[v] = versions[v]
                           \/ v = Len(versions) + 1 /\ versions'[v].number = run[r].number
      BY <2>5, <2>6 DEF Live
    <3> QED BY <3>1, <3>2 DEF Inv, VersionState, DistinctNumbers
  <2>10. OneCurrent'
    <3>1. \A v \in Current' : v \in Current /\ versions'[v] = versions[v]
      BY <2>5, <2>6 DEF Current
    <3> QED BY <3>1 DEF Inv, VersionState, OneCurrent
  <2>11. RestoresCompleted'
    BY <1>1, <2>5, <2>6 DEF Inv, VersionState, RestoresCompleted
  <2>12. RunningIsReal'
    <3>1. Live' = Live \cup {Len(versions) + 1}
      BY <2>5, <2>6 DEF Live
    <3>2. \A q \in Runs : WillReport(q) => WillReport(q)'
      BY <2>2, <3>1 DEF WillReport, InFlight
    <3>3. (text = "RUNNING" => TheText \in orphans \/ TextAttended)'
      BY <1>1, <3>2, StaysAttended DEF Inv
    <3> QED BY <1>1, <2>2, <2>5, <2>6, <3>3 DEF Inv, RunningIsReal, Rows
  <2> QED BY <2>7, <2>8, <2>9, <2>10, <2>11, <2>12 DEF Inv, VersionState
<1> QED BY <1>2, <1>3

LEMMA SwitchStep ==
  ASSUME Inv, NEW r \in Runs, Switch(r)
  PROVE  Inv'
<1>1. /\ run \in [Runs -> Run] /\ run[r].at = "working"
      /\ versions \in Seq(Version)
      /\ UNCHANGED <<text, admin, orphans, faults>>
  BY DEF Switch, Inv, VersionState, TypeOK
<1>2. CASE run[r].version \notin Live
  BY <1>1, <1>2, MovingOn DEF Switch, InFlight, Moving
<1>3. CASE run[r].version \in Live
  <2> DEFINE v == run[r].version
  <2>1. v \in Rows /\ versions' = MadeCurrent(v, "COMPLETED") /\ Goto(r, "completing")
    BY <1>3 DEF Switch, Live
  <2>2. /\ versions' \in Seq(Version) /\ Len(versions') = Len(versions)
        /\ \A i \in Rows :
             /\ versions'[i].number = versions[i].number
             /\ versions'[i].current = (i = v)
             /\ versions'[i].status = IF i = v THEN "COMPLETED" ELSE versions[i].status
    BY <1>1, <2>1, SwitchedRows
  <2>3. Forward
    BY <1>3, <2>2 DEF Forward, Live
  <2>4. Rows' = Rows /\ DistinctNumbers' /\ RestoresCompleted'
    BY <1>1, <2>3, ForwardKeeps DEF Inv
  <2>5. /\ run' \in [Runs -> Run]
        /\ \A q \in Runs : run'[q].version = run[q].version
        /\ \A q \in Runs \ {r} : run'[q] = run[q]
        /\ run'[r].at = "completing"
    BY <1>1, <2>1, RunMoved DEF RunStates, InFlight, Moving
  <2>6. TypeOK'
    BY <1>1, <2>2, <2>5 DEF Inv, VersionState, TypeOK
  <2>7. OwnVersion'
    <3>1. \A q \in Runs \ {r} : run[q].version # v
      BY <1>1 DEF Inv, VersionState, OwnVersion
    <3>2. \A q \in Runs \ {r} : run[q].version \in Rows =>
            versions'[run[q].version].status = versions[run[q].version].status
      BY <2>2, <3>1
    <3>3. versions'[v].status = "COMPLETED"
      BY <2>1, <2>2
    <3> QED BY <1>1, <2>4, <2>5, <3>2, <3>3 DEF Inv, VersionState, OwnVersion, InFlight
  <2>8. OneCurrent'
    BY <2>2, <2>4 DEF OneCurrent, Current
  <2>9. RunningIsReal'
    <3>1. Live' = Live
      BY <1>3, <2>2, <2>4 DEF Live
    <3>2. \A q \in Runs : WillReport(q) => WillReport(q)'
      BY <2>5, <3>1 DEF WillReport, InFlight
    <3>3. (text = "RUNNING" => TheText \in orphans \/ TextAttended)'
      BY <1>1, <3>2, StaysAttended DEF Inv
    <3> QED BY <1>1, <2>2, <2>4, <2>5, <3>3 DEF Inv, RunningIsReal
  <2> QED BY <2>4, <2>6, <2>7, <2>8, <2>9 DEF Inv, VersionState
<1> QED BY <1>2, <1>3

LEMMA CompleteStep ==
  ASSUME Inv, NEW r \in Runs, Complete(r)
  PROVE  Inv'
<1>1. run[r].at = "completing" /\ UNCHANGED <<versions, admin, faults>>
  BY DEF Complete
<1>2. run[r].version = None \/ versions[run[r].version].status # "RUNNING"
  BY <1>1 DEF Inv, VersionState, OwnVersion
<1>3. CASE text = "DELETED"
  BY <1>1, <1>3, MovingOn DEF Complete, InFlight, Moving
<1>4. CASE text # "DELETED"
  <2>1. End(r) /\ text' = "COMPLETED" /\ orphans' = orphans \ {TheText}
    BY <1>4 DEF Complete, WriteText
  <2>2. \A v \in Rows : v # TheText
    BY DEF Rows
  <2> QED BY <1>1, <1>2, <2>1, <2>2, Ending DEF Inv, VersionState, TypeOK, TextStates
<1> QED BY <1>3, <1>4

LEMMA MarkVersionStep ==
  ASSUME Inv, NEW r \in Runs, MarkVersion(r)
  PROVE  Inv'
<1>1. /\ run \in [Runs -> Run] /\ run[r].at = "failing"
      /\ versions \in Seq(Version)
      /\ UNCHANGED <<text, admin, orphans, faults>>
  BY DEF MarkVersion, Inv, VersionState, TypeOK
<1> DEFINE v == run[r].version
<1>2. CASE v \notin {None} \cup Live
  <2>1. End(r) /\ UNCHANGED versions
    BY <1>2 DEF MarkVersion
  <2>2. ~WillReport(r)
    BY <1>2 DEF WillReport
  <2>3. versions[v].status # "RUNNING"
    BY <1>1, <1>2 DEF Inv, VersionState, OwnVersion, Live
  <2> QED BY <1>1, <2>1, <2>2, <2>3, Ending DEF Inv, VersionState, TypeOK
<1>3. CASE v \in {None} \cup Live
  <2>1. /\ versions' = [i \in Rows |->
             IF i = v THEN [versions[i] EXCEPT !.status = "ERROR"] ELSE versions[i]]
        /\ Goto(r, "reporting")
    BY <1>3 DEF MarkVersion, MarkedError
  <2>2. /\ versions' \in Seq(Version) /\ Len(versions') = Len(versions)
        /\ \A i \in Rows :
             /\ versions'[i].number = versions[i].number
             /\ versions'[i].current = versions[i].current
             /\ versions'[i].status = IF i = v THEN "ERROR" ELSE versions[i].status
    BY <1>1, <2>1, MarkedRows
  <2>3. \A i \in Rows : i = v => versions[i].status # "GONE"
    BY <1>3 DEF Live, Rows
  <2>4. Forward
    BY <2>2, <2>3 DEF Forward
  <2>5. Rows' = Rows /\ DistinctNumbers' /\ RestoresCompleted'
    BY <1>1, <2>4, ForwardKeeps DEF Inv
  <2>6. /\ run' \in [Runs -> Run]
        /\ \A q \in Runs : run'[q].version = run[q].version
        /\ \A q \in Runs \ {r} : run'[q] = run[q]
        /\ run'[r].at = "reporting"
    BY <1>1, <2>1, RunMoved DEF RunStates, InFlight, Moving
  <2>7. TypeOK'
    BY <1>1, <2>1, <2>2, <2>6 DEF Inv, VersionState, TypeOK
  <2>8. OwnVersion'
    <3>1. v \in {None} \cup Rows
      BY <1>3 DEF Live
    <3> QED BY <1>1, <2>2, <2>5, <2>6, <3>1 DEF Inv, VersionState, OwnVersion, InFlight
  <2>9. OneCurrent'
    BY <2>2, <2>5 DEF Inv, VersionState, OneCurrent, Current
  <2>10. RunningIsReal'
    <3>1. Live' = Live
      BY <2>2, <2>3, <2>5 DEF Live
    <3>2. \A q \in Runs : WillReport(q) => WillReport(q)'
      BY <2>6, <3>1 DEF WillReport, InFlight
    <3>3. (text = "RUNNING" => TheText \in orphans \/ TextAttended)'
      BY <1>1, <3>2, StaysAttended DEF Inv
    <3>4. \A i \in Rows : versions'[i].status = "RUNNING" =>
            i \in orphans' \/ \E q \in Runs : run'[q].version = i
      <4>1. \A i \in Rows : versions'[i].status = "RUNNING" => versions[i].status = "RUNNING"
        BY <1>1, <2>2
      <4> QED BY <1>1, <2>6, <4>1 DEF Inv, RunningIsReal
    <3> QED BY <2>5, <3>3, <3>4 DEF RunningIsReal
  <2> QED BY <2>5, <2>7, <2>8, <2>9, <2>10 DEF Inv, VersionState
<1> QED BY <1>2, <1>3

LEMMA ReportStep ==
  ASSUME Inv, NEW r \in Runs, Report(r)
  PROVE  Inv'
<1>1. run[r].at = "reporting" /\ End(r) /\ UNCHANGED <<versions, admin, faults>>
  BY DEF Report
<1>2. run[r].version = None \/ versions[run[r].version].status # "RUNNING"
  BY <1>1 DEF Inv, VersionState, OwnVersion
<1>3. /\ text' \in TextStates /\ text' # "RUNNING"
      /\ orphans' = orphans \/ orphans' = orphans \ {TheText}
  BY DEF Report, WriteText, TextStates
<1>4. \A v \in Rows : v # TheText
  BY DEF Rows
<1>5. /\ orphans' \subseteq 0..MaxVersions /\ faults' \in Nat
      /\ \A v \in Rows : v \in orphans => v \in orphans'
  BY <1>1, <1>3, <1>4 DEF Inv, VersionState, TypeOK
<1> QED BY <1>1, <1>2, <1>3, <1>5, Ending

LEMMA HandlerFailsStep ==
  ASSUME Inv, NEW r \in Runs, HandlerFails(r)
  PROVE  Inv'
<1>1. /\ run \in [Runs -> Run] /\ run[r].at \in {"failing", "reporting"}
      /\ End(r) /\ orphans' = orphans \cup LeftBehind(r) /\ faults' = faults + 1
      /\ UNCHANGED <<text, versions, admin>>
  BY DEF HandlerFails, Inv, VersionState, TypeOK
<1>2. run[r].version = None \/ run[r].version \in LeftBehind(r)
  BY DEF LeftBehind
<1>3. orphans' \subseteq 0..MaxVersions
  BY <1>1, LeftBehindType DEF Inv, VersionState, TypeOK
<1>4. text' \in TextStates /\ faults' \in Nat
  BY <1>1 DEF Inv, VersionState, TypeOK
<1>5. \A v : v \in orphans => v \in orphans'
  BY <1>1
<1>6. run[r].version = None \/ run[r].version \in orphans'
  BY <1>1, <1>2
<1>7. TheText \in orphans' \/ ~WillReport(r)
  BY <1>1 DEF LeftBehind
<1> QED BY <1>1, <1>3, <1>4, <1>5, <1>6, <1>7, Ending

\* Replies that are lost

LEMMA BeginLostStep ==
  ASSUME Inv, NEW r \in Runs, BeginLost(r), faults' = faults + 1
  PROVE  Inv'
<1>1. /\ run[r].at = "started" /\ text' = "RUNNING" /\ orphans' = orphans \cup {TheText}
      /\ End(r) /\ UNCHANGED <<versions, admin>>
  BY DEF BeginLost
<1>2. run[r].version = None
  BY <1>1 DEF Inv, VersionState, OwnVersion, InFlight
<1>3. text' \in TextStates /\ faults' \in Nat /\ orphans' \subseteq 0..MaxVersions
  BY <1>1, MaxVersionsAssumption DEF Inv, VersionState, TypeOK, TextStates
<1> QED BY <1>1, <1>2, <1>3, Ending

LEMMA CreateLostStep ==
  ASSUME Inv, NEW r \in Runs, CreateLost(r), faults' = faults + 1
  PROVE  Inv'
<1> DEFINE new == [number |-> run[r].number, current |-> FALSE, status |-> "RUNNING"]
           n == Len(versions) + 1
<1>1. /\ run \in [Runs -> Run] /\ run[r].at = "numbered" /\ run[r].version = None
      /\ versions \in Seq(Version) /\ Len(versions) \in Nat
      /\ UNCHANGED <<text, admin>> /\ orphans' = orphans \cup {n} /\ ~Refused(r)
      /\ Len(versions) < MaxVersions /\ versions' = Append(versions, new)
      /\ Moving(r, "failing")
  BY DEF CreateLost, Insert, Moving, Inv, VersionState, TypeOK, OwnVersion
<1>2. /\ run' \in [Runs -> Run]
      /\ \A q \in Runs : run'[q].version = run[q].version
      /\ \A q \in Runs \ {r} : run'[q] = run[q]
      /\ run'[r].at = "failing"
  BY <1>1, RunMoved DEF RunStates, InFlight
<1>3. new \in Version
  BY <1>1, MaxVersionsAssumption DEF Inv, VersionState, OwnVersion, Run, Version
<1>4. /\ versions' \in Seq(Version) /\ Len(versions') = n
      /\ \A i \in Rows : versions'[i] = versions[i]
      /\ versions'[n] = new
  BY <1>1, <1>3, AddedRow
<1>5. Rows' = Rows \cup {n} /\ n \notin Rows
  BY <1>1, <1>4 DEF Rows
<1>6. TypeOK'
  <2>1. orphans' \subseteq 0..MaxVersions
    <3>1. n \in 0..MaxVersions
      BY <1>1, MaxVersionsAssumption
    <3>2. orphans \subseteq 0..MaxVersions
      BY DEF Inv, VersionState, TypeOK
    <3> HIDE DEF n
    <3> QED BY <1>1, <3>1, <3>2
  <2> QED BY <1>1, <1>2, <1>4, <2>1, MaxVersionsAssumption DEF Inv, VersionState, TypeOK
<1>7. OwnVersion'
  <2>1. \A i \in Rows : versions'[i].status = versions[i].status /\ i \in Rows'
    BY <1>4, <1>5
  <2>2. ASSUME NEW q \in Runs
        PROVE  /\ run'[q].version \in {None} \cup Rows'
               /\ run'[q].at = "working" =>
                    run'[q].version # None /\ versions'[run'[q].version].status \in {"RUNNING", "GONE"}
               /\ run'[q].at \in {"completing", "reporting"} /\ run'[q].version # None =>
                    versions'[run'[q].version].status # "RUNNING"
               /\ run'[q].at \notin InFlight => run'[q].version = None
               /\ run'[q].at \in {"begun", "numbered"} => run'[q].version = None
               /\ run'[q].at = "numbered" => run'[q].number # None
    <3>1. CASE q = r
      BY <1>1, <1>2, <3>1 DEF InFlight
    <3>2. CASE q # r
      BY <1>2, <2>1, <3>2 DEF Inv, VersionState, OwnVersion
    <3> QED BY <3>1, <3>2
  <2>3. \A p, q \in Runs : p # q /\ run'[p].version # None => run'[p].version # run'[q].version
    BY <1>2 DEF Inv, VersionState, OwnVersion
  <2> QED BY <2>2, <2>3 DEF OwnVersion
<1>8. DistinctNumbers'
  <2>1. \A v \in Live : versions[v].number # run[r].number
    BY <1>1 DEF Refused
  <2>2. \A v \in Live' : \/ v \in Live /\ versions'[v] = versions[v]
                         \/ v = n /\ versions'[v].number = run[r].number
    BY <1>4, <1>5 DEF Live
  <2> QED BY <2>1, <2>2 DEF Inv, VersionState, DistinctNumbers
<1>9. OneCurrent'
  <2>1. \A v \in Current' : v \in Current /\ versions'[v] = versions[v]
    BY <1>4, <1>5 DEF Current
  <2> QED BY <2>1 DEF Inv, VersionState, OneCurrent
<1>10. RestoresCompleted'
  BY <1>1, <1>4, <1>5 DEF Inv, VersionState, RestoresCompleted
<1>11. RunningIsReal'
  <2>1. Live' = Live \cup {n}
    BY <1>4, <1>5 DEF Live
  <2>2. \A q \in Runs : WillReport(q) => WillReport(q)'
    BY <1>2, <2>1 DEF WillReport, InFlight
  <2>3. (text = "RUNNING" => TheText \in orphans \/ TextAttended)'
    <3>1. (TheText \in orphans => TheText \in orphans') /\ Inv
      BY <1>1
    <3> QED BY <1>1, <2>2, <3>1, StaysAttended DEF Inv
  <2>4. ASSUME NEW i \in Rows', versions'[i].status = "RUNNING"
        PROVE  i \in orphans' \/ \E q \in Runs : run'[q].version = i
    <3>1. CASE i = n
      BY <1>1, <3>1
    <3>2. CASE i \in Rows
      BY <1>1, <1>2, <1>4, <2>4, <3>2 DEF Inv, RunningIsReal
    <3> QED BY <1>5, <3>1, <3>2
  <2>5. TheText \in orphans => TheText \in orphans'
    BY <1>1
  <2> QED BY <1>1, <2>3, <2>4, <2>5 DEF RunningIsReal
<1> QED BY <1>6, <1>7, <1>8, <1>9, <1>10, <1>11 DEF Inv, VersionState

LEMMA CompleteLostStep ==
  ASSUME Inv, NEW r \in Runs, CompleteLost(r), faults' = faults + 1
  PROVE  Inv'
<1>1. /\ run \in [Runs -> Run] /\ run[r].at = "completing" /\ Moving(r, "failing")
      /\ text' = "COMPLETED" /\ orphans' = orphans \ {TheText} /\ UNCHANGED <<versions, admin>>
  BY DEF CompleteLost, WriteText, Moving, Inv, VersionState, TypeOK
<1>2. /\ run' \in [Runs -> Run]
      /\ \A q \in Runs : run'[q].version = run[q].version
      /\ \A q \in Runs \ {r} : run'[q] = run[q]
      /\ run'[r].at = "failing"
  BY <1>1, RunMoved DEF RunStates, InFlight
<1>3. Rows' = Rows /\ DistinctNumbers' /\ OneCurrent' /\ RestoresCompleted'
  BY <1>1, SameRows, ForwardKeeps DEF Inv
<1>4. TypeOK'
  BY <1>1, <1>2 DEF Inv, VersionState, TypeOK, TextStates
<1>5. OwnVersion'
  BY <1>1, <1>2, <1>3 DEF Inv, VersionState, OwnVersion, InFlight
<1>6. RunningIsReal'
  <2>1. \A v \in Rows : v # TheText
    BY DEF Rows
  <2> QED BY <1>1, <1>2, <1>3, <2>1 DEF Inv, RunningIsReal
<1> QED BY <1>3, <1>4, <1>5, <1>6 DEF Inv, VersionState

LEMMA MarkLostStep ==
  ASSUME Inv, NEW r \in Runs, MarkLost(r), faults' = faults + 1
  PROVE  Inv'
<1> DEFINE v == run[r].version
<1>1. /\ run \in [Runs -> Run] /\ versions \in Seq(Version) /\ v \in Live /\ End(r)
      /\ versions' = [i \in Rows |->
           IF i = v THEN [versions[i] EXCEPT !.status = "ERROR"] ELSE versions[i]]
      /\ UNCHANGED <<text, admin>> /\ orphans' = orphans \cup {TheText}
  BY DEF MarkLost, MarkedError, Inv, VersionState, TypeOK
<1>2. /\ versions' \in Seq(Version) /\ Len(versions') = Len(versions)
      /\ \A i \in Rows :
           /\ versions'[i].number = versions[i].number
           /\ versions'[i].current = versions[i].current
           /\ versions'[i].status = IF i = v THEN "ERROR" ELSE versions[i].status
  BY <1>1, MarkedRows
<1>3. Forward
  <2>1. \A i \in Rows : i = v => versions[i].status # "GONE"
    BY <1>1 DEF Live
  <2> HIDE DEF v
  <2> QED BY <1>2, <2>1 DEF Forward
<1>4. Rows' = Rows /\ DistinctNumbers' /\ RestoresCompleted'
  BY <1>1, <1>3, ForwardKeeps DEF Inv
<1>5. /\ run' \in [Runs -> Run]
      /\ \A q \in Runs \ {r} : run'[q] = run[q]
      /\ run'[r].at \in {"idle", "settling"} /\ run'[r].version = None
  BY <1>1, RunEnded
<1>6. TypeOK'
  <2>1. orphans' \subseteq 0..MaxVersions
    BY <1>1, MaxVersionsAssumption DEF Inv, VersionState, TypeOK
  <2>2. text' \in TextStates /\ faults' \in Nat /\ admin' \in [Admins -> Admin]
    BY <1>1 DEF Inv, VersionState, TypeOK
  <2>3. Len(versions') <= MaxVersions
    BY <1>2 DEF Inv, VersionState, TypeOK
  <2> QED BY <1>2, <1>5, <2>1, <2>2, <2>3 DEF TypeOK
<1>7. OwnVersion'
  <2>1. \A i \in Rows : i # v => versions'[i].status = versions[i].status
    BY <1>2
  <2>2. v \in Rows /\ v # None
    BY <1>1 DEF Live, Rows
  <2>3. \A q \in Runs \ {r} : run'[q] = run[q] /\ run[q].version # v
    BY <1>5, <2>2 DEF Inv, VersionState, OwnVersion
  <2> QED BY <1>4, <1>5, <2>1, <2>3 DEF Inv, VersionState, OwnVersion, InFlight
<1>8. OneCurrent'
  BY <1>2, <1>4 DEF Inv, VersionState, OneCurrent, Current
<1>9. RunningIsReal'
  <2>1. \A i \in Rows : versions'[i].status = "RUNNING" => versions[i].status = "RUNNING" /\ i # v
    BY <1>2
  <2> QED BY <1>1, <1>4, <1>5, <2>1 DEF Inv, RunningIsReal
<1> QED BY <1>4, <1>6, <1>7, <1>8, <1>9 DEF Inv, VersionState

LEMMA SettleStep ==
  ASSUME Inv, NEW r \in Runs, Settle(r)
  PROVE  Inv'
<1>1. /\ run[r].at = "settling" /\ run' = [run EXCEPT ![r] = IdleRun]
      /\ UNCHANGED <<text, versions, admin, orphans, faults>>
  BY DEF Settle
<1>2. IdleRun \in Run /\ IdleRun.at = "idle" /\ IdleRun.version = None
  BY MaxVersionsAssumption DEF IdleRun, Run, RunStates
<1>3. /\ run' \in [Runs -> Run]
      /\ \A q \in Runs \ {r} : run'[q] = run[q]
      /\ run'[r].at = "idle" /\ run'[r].version = None
  BY <1>1, <1>2 DEF Inv, VersionState, TypeOK
<1>4. run[r].version = None /\ run[r].at \notin InFlight
  BY <1>1 DEF Inv, VersionState, OwnVersion, InFlight
<1>5. Rows' = Rows /\ DistinctNumbers' /\ OneCurrent' /\ RestoresCompleted'
  BY <1>1, SameRows, ForwardKeeps DEF Inv
<1>6. TypeOK'
  BY <1>1, <1>3, <1>5 DEF Inv, VersionState, TypeOK
<1>7. OwnVersion'
  BY <1>1, <1>3, <1>5 DEF Inv, VersionState, OwnVersion, InFlight
<1>8. RunningIsReal'
  <2>1. \A q \in Runs : WillReport(q) => WillReport(q)'
    BY <1>1, <1>3, <1>4, SameRows DEF Inv, WillReport
  <2> QED BY <1>1, <1>3, <1>4, <1>5, <2>1, StaysAttended DEF Inv, RunningIsReal, Rows
<1> QED BY <1>5, <1>6, <1>7, <1>8 DEF Inv, VersionState

-----------------------------------------------------------------------------
(* The steps of the administrators, and deaths *)

\* Steps that leave versions and runs alone, and the text RUNNING or not with its orphan.
LEMMA TextOnly ==
  ASSUME Inv, UNCHANGED <<versions, run>>, faults' \in Nat,
         admin' \in [Admins -> Admin], RestoresCompleted',
         orphans' \subseteq 0..MaxVersions, \A v \in Rows : v \in orphans => v \in orphans',
         \/ text' \in TextStates \ {"RUNNING"}
         \/ text' = text /\ TheText \in orphans'
         \/ /\ text' = text /\ (TheText \in orphans => TheText \in orphans')
            /\ \A a \in Admins : admin[a].at = "resetting" => admin'[a].at = "resetting"
  PROVE  Inv'
<1>1. Rows' = Rows /\ DistinctNumbers' /\ OneCurrent'
  BY SameRows, ForwardKeeps DEF Inv
<1>2. TypeOK'
  BY DEF Inv, VersionState, TypeOK
<1>3. OwnVersion'
  BY <1>1 DEF Inv, VersionState, OwnVersion
<1>4. \A q \in Runs : WillReport(q) => WillReport(q)'
  BY SameRows DEF Inv, WillReport
<1>5. (text = "RUNNING" => TheText \in orphans \/ TextAttended)'
  <2>1. CASE text' # "RUNNING" \/ TheText \in orphans'
    BY <2>1
  <2>2. CASE /\ text' = text /\ (TheText \in orphans => TheText \in orphans')
             /\ \A a \in Admins : admin[a].at = "resetting" => admin'[a].at = "resetting"
    BY <1>4, <2>2, StaysAttended DEF Inv
  <2> QED BY <2>1, <2>2
<1>6. RunningIsReal'
  BY <1>1, <1>5 DEF Inv, RunningIsReal
<1> QED BY <1>1, <1>2, <1>3, <1>6 DEF Inv, VersionState

LEMMA IdleAdminType == IdleAdmin \in Admin
BY MaxVersionsAssumption DEF IdleAdmin, Admin

\* Steps that delete every version.
LEMMA AllDeleted ==
  ASSUME Inv, versions' = AllGone, UNCHANGED <<run, orphans, faults>>,
         text' = text \/ text' = "DELETED",
         text' = "RUNNING" => \E a \in Admins : admin'[a].at = "resetting",
         admin' \in [Admins -> Admin],
         \A a \in Admins : admin'[a].at = "restoring" => admin[a] = admin'[a]
  PROVE  Inv'
<1>1. versions \in Seq(Version)
  BY DEF Inv, VersionState, TypeOK
<1>2. /\ versions' \in Seq(Version) /\ Len(versions') = Len(versions)
      /\ \A i \in Rows : ~versions'[i].current /\ versions'[i].status = "GONE"
  BY <1>1, GoneRows
<1>3. Rows' = Rows
  BY <1>2 DEF Rows
<1>4. TypeOK'
  BY <1>2 DEF Inv, VersionState, TypeOK, TextStates
<1>5. OwnVersion'
  BY <1>2, <1>3 DEF Inv, VersionState, OwnVersion
<1>6. DistinctNumbers' /\ OneCurrent'
  BY <1>2, <1>3 DEF DistinctNumbers, OneCurrent, Live, Current
<1>7. RestoresCompleted'
  BY <1>2, <1>3 DEF Inv, VersionState, RestoresCompleted
<1>8. RunningIsReal'
  BY <1>2, <1>3 DEF RunningIsReal, TextAttended
<1> QED BY <1>4, <1>5, <1>6, <1>7, <1>8 DEF Inv, VersionState

LEMMA ResetVersionsStep ==
  ASSUME Inv, NEW a \in Admins, ResetVersions(a)
  PROVE  Inv'
<1>1. admin' \in [Admins -> Admin]
  BY DEF ResetVersions, Inv, VersionState, TypeOK, Admin
<1>2. \A b \in Admins : admin'[b].at = "restoring" => admin[b] = admin'[b]
  BY DEF ResetVersions, Inv, VersionState, TypeOK, Admin
<1>3. admin'[a].at = "resetting"
  BY DEF ResetVersions, Inv, VersionState, TypeOK, Admin
<1> QED BY <1>1, <1>2, <1>3, AllDeleted DEF ResetVersions

LEMMA DeleteTextStep ==
  ASSUME Inv, DeleteText
  PROVE  Inv'
<1>1. admin' \in [Admins -> Admin]
  BY DEF DeleteText, Inv, VersionState, TypeOK
<1>2. \A b \in Admins : admin'[b].at = "restoring" => admin[b] = admin'[b]
  BY DEF DeleteText
<1>3. /\ versions' = AllGone /\ text' = "DELETED" /\ UNCHANGED <<run, orphans, faults>>
      /\ text' # "RUNNING"
  BY DEF DeleteText
<1> QED BY <1>1, <1>2, <1>3, AllDeleted

\* The second statement of a reset, that of a cancel, and the failure of either.
LEMMA MarkIdleStep ==
  ASSUME Inv, NEW a \in Admins, ResetText(a) \/ CancelText(a) \/ AdminFails(a)
  PROVE  Inv'
<1>1. /\ UNCHANGED <<versions, run>> /\ admin' = [admin EXCEPT ![a] = IdleAdmin]
      /\ \/ UNCHANGED <<orphans, faults>> /\ text' = text /\ text = "DELETED"
         \/ /\ text' \in TextStates \ {"RUNNING"} /\ orphans' = orphans \ {TheText}
            /\ UNCHANGED faults
         \/ text' = text /\ orphans' = orphans \cup Unfinished(a) /\ faults' = faults + 1
  BY DEF ResetText, CancelText, AdminFails, WriteText, TextStates
<1>2. admin' \in [Admins -> Admin]
  BY <1>1, IdleAdminType DEF Inv, VersionState, TypeOK
<1>3. \A b \in Admins : admin'[b].at = "restoring" => admin'[b] = admin[b]
  BY <1>1 DEF Inv, VersionState, TypeOK, IdleAdmin
<1>4. RestoresCompleted'
  BY <1>1, <1>3 DEF Inv, VersionState, RestoresCompleted, Rows
<1>5. \A v \in Rows : v # TheText
  BY DEF Rows
<1>6. Unfinished(a) \subseteq {TheText} /\ TheText \in 0..MaxVersions
  BY MaxVersionsAssumption DEF Unfinished
<1>7. /\ orphans' \subseteq 0..MaxVersions /\ faults' \in Nat
      /\ \A v \in Rows : v \in orphans => v \in orphans'
  <2>1. orphans \subseteq 0..MaxVersions /\ faults \in Nat
    BY DEF Inv, VersionState, TypeOK
  <2>2. \/ orphans' = orphans \/ orphans' = orphans \ {TheText}
        \/ orphans' = orphans \cup Unfinished(a)
    BY <1>1
  <2>3. faults' = faults \/ faults' = faults + 1
    BY <1>1
  <2> HIDE DEF TheText
  <2>4. \A v \in Rows : v \in orphans => v \in orphans'
    BY <1>5, <2>2
  <2>5. orphans' \subseteq 0..MaxVersions
    BY <1>6, <2>1, <2>2
  <2> QED BY <2>1, <2>3, <2>4, <2>5
<1>8. \/ text' \in TextStates \ {"RUNNING"}
      \/ text' = text /\ TheText \in orphans'
      \/ /\ text' = text /\ (TheText \in orphans => TheText \in orphans')
         /\ \A b \in Admins : admin[b].at = "resetting" => admin'[b].at = "resetting"
  <2>1. text = "DELETED" => text \in TextStates \ {"RUNNING"}
    BY DEF TextStates
  <2>2. CASE text' = text /\ orphans' = orphans \cup Unfinished(a) /\ admin[a].at # "resetting"
    <3>1. \A b \in Admins : admin[b].at = "resetting" => admin'[b].at = "resetting"
      BY <1>1, <2>2 DEF Inv, VersionState, TypeOK
    <3> QED BY <2>2, <3>1
  <2>3. CASE text' = text /\ orphans' = orphans \cup Unfinished(a) /\ admin[a].at = "resetting"
    BY <2>3 DEF Unfinished
  <2> QED BY <1>1, <2>1, <2>2, <2>3
<1> QED BY <1>1, <1>2, <1>4, <1>7, <1>8, TextOnly

LEMMA CancelReadStep ==
  ASSUME Inv, NEW a \in Admins, CancelRead(a)
  PROVE  Inv'
<1>1. admin' = [admin EXCEPT ![a].at = "cancelling"] /\ UNCHANGED <<text, versions, run, orphans, faults>>
      /\ admin[a].at = "idle"
  BY DEF CancelRead
<1>2. admin' \in [Admins -> Admin]
  BY <1>1 DEF Inv, VersionState, TypeOK, Admin
<1>3. \A b \in Admins : admin'[b].at = "restoring" => admin'[b] = admin[b]
  BY <1>1 DEF Inv, VersionState, TypeOK, Admin
<1>4. RestoresCompleted'
  BY <1>1, <1>3 DEF Inv, VersionState, RestoresCompleted, Rows
<1>5. \A b \in Admins : admin[b].at = "resetting" => admin'[b].at = "resetting"
  BY <1>1 DEF Inv, VersionState, TypeOK
<1>6. orphans' \subseteq 0..MaxVersions /\ faults' \in Nat
  BY <1>1 DEF Inv, VersionState, TypeOK
<1> QED BY <1>1, <1>2, <1>4, <1>5, <1>6, TextOnly

LEMMA RestoreReadStep ==
  ASSUME Inv, NEW a \in Admins, RestoreRead(a)
  PROVE  Inv'
<1>1. PICK v \in Live \ Current :
        /\ versions[v].status = "COMPLETED"
        /\ admin' = [admin EXCEPT ![a] = [at |-> "restoring", version |-> v]]
  BY DEF RestoreRead
<1>2. UNCHANGED <<text, versions, run, orphans, faults>> /\ admin[a].at = "idle"
  BY DEF RestoreRead
<1>3. v \in Rows /\ v \in 0..MaxVersions
  BY MaxVersionsAssumption DEF Live, Rows, Inv, VersionState, TypeOK
<1>4. admin' \in [Admins -> Admin]
  BY <1>1, <1>3 DEF Inv, VersionState, TypeOK, Admin
<1>5. RestoresCompleted'
  BY <1>1, <1>2, <1>3 DEF Inv, VersionState, TypeOK, RestoresCompleted, Rows
<1>6. \A b \in Admins : admin[b].at = "resetting" => admin'[b].at = "resetting"
  BY <1>1, <1>2 DEF Inv, VersionState, TypeOK
<1>7. orphans' \subseteq 0..MaxVersions /\ faults' \in Nat
  BY <1>2 DEF Inv, VersionState, TypeOK
<1> QED BY <1>2, <1>4, <1>5, <1>6, <1>7, TextOnly

LEMMA RestoreWriteStep ==
  ASSUME Inv, NEW a \in Admins, RestoreWrite(a)
  PROVE  Inv'
<1> DEFINE v == admin[a].version
<1>1. /\ admin[a].at = "restoring" /\ admin' = [admin EXCEPT ![a] = IdleAdmin]
      /\ UNCHANGED <<text, run, orphans, faults>>
  BY DEF RestoreWrite
<1>2. admin' \in [Admins -> Admin]
  BY <1>1, IdleAdminType DEF Inv, VersionState, TypeOK
<1>3. \A b \in Admins : admin'[b].at = "restoring" => admin'[b] = admin[b]
  BY <1>1 DEF Inv, VersionState, TypeOK, IdleAdmin
<1>6. \A b \in Admins : admin[b].at = "resetting" => admin'[b].at = "resetting"
  BY <1>1 DEF Inv, VersionState, TypeOK
<1>4. CASE v \notin Live
  <2>1. versions' = versions
    BY <1>4 DEF RestoreWrite
  <2>2. RestoresCompleted'
    BY <1>1, <1>3, <2>1 DEF Inv, VersionState, RestoresCompleted, Rows
  <2>3. orphans' \subseteq 0..MaxVersions /\ faults' \in Nat
    BY <1>1 DEF Inv, VersionState, TypeOK
  <2> QED BY <1>1, <1>2, <1>6, <2>1, <2>2, <2>3, TextOnly
<1>5. CASE v \in Live
  <2> DEFINE s == versions[v].status
  <2>1. versions' = MadeCurrent(v, s)
    BY <1>5 DEF RestoreWrite
  <2>2. v \in Rows /\ s \in {"COMPLETED", "ERROR"} /\ versions \in Seq(Version)
    <3>1. versions \in Seq(Version) /\ v \in Rows
      BY <1>5 DEF Inv, VersionState, TypeOK, Live
    <3>2. versions[v] \in Version /\ versions[v].status # "GONE" /\ versions[v].status # "RUNNING"
      BY <1>1, <1>5, <3>1 DEF Inv, VersionState, RestoresCompleted, Live, Rows
    <3> QED BY <3>1, <3>2 DEF Version
  <2>3. /\ versions' \in Seq(Version) /\ Len(versions') = Len(versions)
        /\ \A i \in Rows :
             /\ versions'[i].number = versions[i].number
             /\ versions'[i].current = (i = v)
             /\ versions'[i].status = versions[i].status
    <3>0. s = versions[v].status
      OBVIOUS
    <3> HIDE DEF s, v
    <3>1. /\ versions' \in Seq(Version) /\ Len(versions') = Len(versions)
          /\ \A i \in Rows : /\ versions'[i].number = versions[i].number
                              /\ versions'[i].current = (i = v)
                              /\ versions'[i].status = IF i = v THEN s ELSE versions[i].status
      BY <2>1, <2>2, SwitchedRows
    <3> QED BY <3>0, <3>1
  <2>4. Forward
    BY <2>3 DEF Forward
  <2>5. Rows' = Rows /\ DistinctNumbers'
    BY <2>4, ForwardKeeps DEF Inv
  <2>6. TypeOK'
    BY <1>1, <1>2, <2>3 DEF Inv, VersionState, TypeOK
  <2>7. OwnVersion'
    BY <1>1, <2>3, <2>5 DEF Inv, VersionState, OwnVersion
  <2>8. OneCurrent'
    BY <2>2, <2>3, <2>5 DEF OneCurrent, Current
  <2>9. RestoresCompleted'
    BY <1>3, <2>3, <2>5 DEF Inv, VersionState, RestoresCompleted
  <2>10. RunningIsReal'
    <3>1. Live' = Live
      BY <2>3, <2>5 DEF Live
    <3>2. \A q \in Runs : WillReport(q) => WillReport(q)'
      BY <1>1, <3>1 DEF WillReport
    <3> QED BY <1>1, <1>6, <2>3, <2>5, <3>2, StaysAttended DEF Inv, RunningIsReal
  <2> QED BY <2>5, <2>6, <2>7, <2>8, <2>9, <2>10 DEF Inv, VersionState
<1> QED BY <1>4, <1>5

LEMMA CrashStep ==
  ASSUME Inv, Crash
  PROVE  Inv'
<1>1. /\ run \in [Runs -> Run] /\ faults' = faults + 1
      /\ orphans' = orphans \cup (UNION {LeftBehind(r) : r \in Runs})
                            \cup (UNION {Unfinished(a) : a \in Admins})
      /\ run' = [r \in Runs |-> IdleRun] /\ admin' = [a \in Admins |-> IdleAdmin]
      /\ UNCHANGED <<text, versions>>
  BY DEF Crash, Inv, VersionState, TypeOK
<1>2. IdleRun \in Run /\ IdleRun.at = "idle" /\ IdleRun.version = None
  BY MaxVersionsAssumption DEF IdleRun, Run, RunStates
<1>3. Rows' = Rows /\ DistinctNumbers' /\ OneCurrent'
  BY <1>1, SameRows, ForwardKeeps DEF Inv
<1>4. orphans' \subseteq 0..MaxVersions
  <2>1. \A r \in Runs : LeftBehind(r) \subseteq 0..MaxVersions
    BY <1>1, LeftBehindType
  <2>2. \A a \in Admins : Unfinished(a) \subseteq 0..MaxVersions
    BY MaxVersionsAssumption DEF Unfinished
  <2> QED BY <1>1, <2>1, <2>2 DEF Inv, VersionState, TypeOK
<1>5. TypeOK'
  BY <1>1, <1>2, <1>4, IdleAdminType DEF Inv, VersionState, TypeOK
<1>6. OwnVersion'
  BY <1>1, <1>2, <1>3 DEF OwnVersion, InFlight
<1>7. RestoresCompleted'
  BY <1>1 DEF RestoresCompleted, IdleAdmin
<1>8. RunningIsReal'
  <2>1. ASSUME text = "RUNNING" PROVE TheText \in orphans'
    <3>1. CASE TheText \in orphans
      BY <1>1, <3>1
    <3>2. CASE TheText \notin orphans
      <4>1. CASE \E r \in Runs : WillReport(r)
        <5>1. PICK r \in Runs : TheText \in LeftBehind(r)
          BY <4>1 DEF LeftBehind
        <5> QED BY <1>1, <5>1
      <4>2. CASE \E a \in Admins : admin[a].at = "resetting"
        <5>1. PICK a \in Admins : TheText \in Unfinished(a)
          BY <4>2 DEF Unfinished
        <5> QED BY <1>1, <5>1
      <4> QED BY <2>1, <3>2, <4>1, <4>2 DEF Inv, RunningIsReal, TextAttended
    <3> QED BY <3>1, <3>2
  <2>2. ASSUME NEW v \in Rows, versions[v].status = "RUNNING" PROVE v \in orphans'
    <3>1. CASE v \in orphans
      BY <1>1, <3>1
    <3>2. CASE v \notin orphans
      <4>1. PICK r \in Runs : run[r].version = v
        BY <2>2, <3>2 DEF Inv, RunningIsReal
      <4>2. v \in LeftBehind(r)
        BY <4>1 DEF LeftBehind, Rows
      <4> QED BY <1>1, <4>2
    <3> QED BY <3>1, <3>2
  <2> QED BY <1>1, <1>3, <2>1, <2>2 DEF RunningIsReal
<1> QED BY <1>3, <1>5, <1>6, <1>7, <1>8 DEF Inv, VersionState

-----------------------------------------------------------------------------
(* The theorems *)

LEMMA Initially == Init => Inv
<1> SUFFICES ASSUME Init PROVE Inv
  OBVIOUS
<1>1. Rows = {}
  BY DEF Init, Rows
<1>2. IdleRun \in Run /\ IdleRun.at = "idle" /\ IdleRun.version = None
  BY MaxVersionsAssumption DEF IdleRun, Run, RunStates
<1>3. TypeOK
  BY <1>2, IdleAdminType, MaxVersionsAssumption DEF Init, TypeOK, TextStates
<1>4. OwnVersion
  BY <1>1, <1>2 DEF Init, OwnVersion, InFlight
<1>5. DistinctNumbers /\ OneCurrent
  BY <1>1 DEF DistinctNumbers, OneCurrent, Live, Current
<1>6. RestoresCompleted
  BY DEF Init, RestoresCompleted, IdleAdmin
<1>7. RunningIsReal
  BY <1>1 DEF Init, RunningIsReal
<1> QED BY <1>3, <1>4, <1>5, <1>6, <1>7 DEF Inv, VersionState

LEMMA Inductive == Inv /\ [Next]_vars => Inv'
<1> SUFFICES ASSUME Inv, [Next]_vars PROVE Inv'
  OBVIOUS
<1>1. ASSUME NEW r \in Runs, Process(r) PROVE Inv'
  BY <1>1, StartStep, BeginStep, EmptyStep, TakeNumberStep, CreateVersionStep, SwitchStep,
     CompleteStep, SettleStep DEF Process
<1>2. ASSUME NEW r \in Runs, HandleError(r) PROVE Inv'
  BY <1>2, FailStep, MarkVersionStep, ReportStep, HandlerFailsStep, BeginLostStep, CreateLostStep,
     CompleteLostStep, MarkLostStep DEF HandleError, ReplyLost
<1>3. ASSUME NEW a \in Admins, Administer(a) PROVE Inv'
  BY <1>3, ResetVersionsStep, MarkIdleStep, CancelReadStep, RestoreReadStep, RestoreWriteStep
     DEF Administer
<1>4. CASE DeleteText
  BY <1>4, DeleteTextStep
<1>5. CASE Crash
  BY <1>5, CrashStep
<1>6. CASE UNCHANGED vars
  <2>1. Rows' = Rows /\ DistinctNumbers' /\ OneCurrent' /\ RestoresCompleted'
    BY <1>6, SameRows, ForwardKeeps DEF Inv, vars
  <2>2. TypeOK' /\ OwnVersion'
    BY <1>6, <2>1 DEF Inv, VersionState, TypeOK, OwnVersion, vars
  <2>3. RunningIsReal'
    <3>1. \A r \in Runs : WillReport(r) => WillReport(r)'
      BY <1>6, SameRows DEF Inv, WillReport, vars
    <3> QED BY <1>6, <2>1, <3>1, StaysAttended DEF Inv, RunningIsReal, vars
  <2> QED BY <2>1, <2>2, <2>3 DEF Inv, VersionState
<1> QED BY <1>1, <1>2, <1>3, <1>4, <1>5, <1>6 DEF Next

LEMMA Invariance == Spec => []Inv
BY Initially, Inductive, PTL DEF Spec

\* The versions of a text are in order whatever runs and administrators do: every run
\* has its own, numbers are distinct, restores are of completed ones.
THEOREM VersionInvariant == Spec => []VersionState
BY Invariance, PTL DEF Inv

\* There is at most one current version, and it has been completed.
THEOREM OneCurrentVersion == Spec => []OneCurrent
<1>1. Inv => OneCurrent
  BY DEF Inv, VersionState
<1> QED BY <1>1, Invariance, PTL

\* What is marked RUNNING is going to be written by somebody, or was left by a death, a
\* lost reply, or a failed error handler or reset.
THEOREM RunningHasRun == Spec => []RunningIsReal
BY Invariance, PTL DEF Inv

\* The rows the steps of Next make current, step by step: a switch and a restore replace
\* one current version by another in one transaction, and nothing else takes it away.
LEMMA Readable ==
  ASSUME Inv, [Next]_vars, Current # {}
  PROVE  Current' # {} \/ Live' = {}
<1>1. versions \in Seq(Version)
  BY DEF Inv, VersionState, TypeOK
<1>2. CASE versions' = versions
  BY <1>2 DEF Current, Rows
<1>3. CASE versions' = AllGone
  <2>1. \A i \in Rows' : versions'[i].status = "GONE"
    BY <1>1, <1>3, GoneRows DEF Rows
  <2> QED BY <2>1 DEF Live
<1>4. ASSUME NEW v \in Live, NEW s \in {"RUNNING", "COMPLETED", "ERROR"},
             versions' = MadeCurrent(v, s)
      PROVE  Current' # {}
  <2>1. v \in Rows
    BY DEF Live
  <2>2. Len(versions') = Len(versions) /\ versions'[v].current
    BY <1>1, <1>4, <2>1, SwitchedRows
  <2> QED BY <2>1, <2>2 DEF Current, Rows
<1>5. ASSUME NEW r \in Runs, Switch(r) PROVE Current' # {} \/ Live' = {}
  BY <1>2, <1>4, <1>5 DEF Switch
<1>6. ASSUME NEW a \in Admins, RestoreWrite(a) PROVE Current' # {} \/ Live' = {}
  <2> DEFINE v == admin[a].version
  <2>1. CASE v \in Live
    <3>1. versions[v].status \in {"RUNNING", "COMPLETED", "ERROR"}
      <4>1. versions[v] \in Version /\ versions[v].status # "GONE"
        BY <1>1, <2>1 DEF Live, Rows
      <4> QED BY <4>1 DEF Version
    <3> QED BY <1>4, <1>6, <2>1, <3>1 DEF RestoreWrite
  <2>2. CASE v \notin Live
    BY <1>2, <1>6, <2>2 DEF RestoreWrite
  <2> QED BY <2>1, <2>2
<1>7. ASSUME NEW r \in Runs, CreateVersion(r) \/ CreateLost(r) PROVE Current' # {} \/ Live' = {}
  <2>1. CASE versions' # versions
    <3>1. versions' = Append(versions, [number |-> run[r].number, current |-> FALSE, status |-> "RUNNING"])
      BY <1>7, <2>1 DEF CreateVersion, CreateLost, Insert
    <3>2. Len(versions') = Len(versions) + 1 /\ \A i \in Rows : versions'[i] = versions[i]
      BY <1>1, <3>1 DEF Rows
    <3>3. Len(versions) \in Nat
      BY <1>1
    <3> QED BY <3>2, <3>3 DEF Current, Rows
  <2> QED BY <1>2, <2>1
<1>8. ASSUME NEW r \in Runs, MarkVersion(r) \/ MarkLost(r) PROVE Current' # {} \/ Live' = {}
  <2>1. CASE versions' # versions
    <3>1. versions' = [i \in Rows |->
            IF i = run[r].version THEN [versions[i] EXCEPT !.status = "ERROR"] ELSE versions[i]]
      BY <1>8, <2>1 DEF MarkVersion, MarkLost, MarkedError
    <3>2. Len(versions') = Len(versions) /\ \A i \in Rows : versions'[i].current = versions[i].current
      BY <1>1, <3>1, MarkedRows
    <3> QED BY <3>2 DEF Current, Rows
  <2> QED BY <1>2, <2>1
<1>9. ASSUME NEW r \in Runs, Process(r) \/ HandleError(r) PROVE Current' # {} \/ Live' = {}
  BY <1>2, <1>5, <1>7, <1>8, <1>9
     DEF Process, HandleError, Start, Begin, Empty, TakeNumber, Complete, Settle, Fail, Report,
         HandlerFails, ReplyLost, BeginLost, CompleteLost
<1>10. ASSUME NEW a \in Admins, Administer(a) PROVE Current' # {} \/ Live' = {}
  BY <1>2, <1>3, <1>6, <1>10
     DEF Administer, ResetVersions, ResetText, CancelRead, CancelText, RestoreRead, AdminFails
<1> QED BY <1>2, <1>3, <1>9, <1>10 DEF Next, DeleteText, Crash, vars

\* A text with a current version keeps one until a reset or its deletion.
THEOREM TextsStayReadable == Spec => StaysReadable
<1>1. Inv /\ [Next]_vars => [Current # {} => Current' # {} \/ Live' = {}]_vars
  BY Readable
<1> QED BY <1>1, Invariance, PTL DEF Spec, StaysReadable

-----------------------------------------------------------------------------
(* The versions implement VersionRegister *)

StagesFit ==
  versions \in Seq(Version) =>
    \A v \in 1..MaxVersions :
      /\ v \notin Rows => Stage(v) = "absent"
      /\ v \in Rows =>
           /\ versions[v].status = "RUNNING" => Stage(v) = "working"
           /\ versions[v].status = "COMPLETED" => Stage(v) = "complete"
           /\ versions[v].status = "GONE" => Stage(v) = "gone"
           /\ versions[v].status = "ERROR" /\ Kept(v) => Stage(v) = "complete"
           /\ versions[v].status = "ERROR" /\ ~Kept(v) => Stage(v) = "failed"

LEMMA Stages == StagesFit
<1> SUFFICES ASSUME versions \in Seq(Version), NEW v \in 1..MaxVersions
             PROVE  /\ v \notin Rows => Stage(v) = "absent"
                    /\ v \in Rows =>
                         /\ versions[v].status = "RUNNING" => Stage(v) = "working"
                         /\ versions[v].status = "COMPLETED" => Stage(v) = "complete"
                         /\ versions[v].status = "GONE" => Stage(v) = "gone"
                         /\ versions[v].status = "ERROR" /\ Kept(v) => Stage(v) = "complete"
                         /\ versions[v].status = "ERROR" /\ ~Kept(v) => Stage(v) = "failed"
  BY DEF StagesFit
<1>1. v \notin Rows <=> v > Len(versions)
  BY MaxVersionsAssumption DEF Rows
<1> QED BY <1>1 DEF Stage

LEMMA StagesNext == StagesFit'
BY Stages, PTL

\* What a step has to be to map to a step of the register that makes progress.
LEMMA Progressing ==
  ASSUME \A v \in 1..MaxVersions :
           \/ Stage(v)' = Stage(v)
           \/ Stage(v) = "absent" /\ Stage(v)' = "working"
           \/ Stage(v) = "working" /\ Stage(v)' = "complete" /\ Current' = {v}
           \/ Stage(v) = "working" /\ Stage(v)' = "failed"
           \/ Stage(v) = "complete" /\ Stage(v)' = "failed" /\ v \notin Current',
         Current' = Current \/ \E v \in 1..MaxVersions : Current' = {v} /\ Stage(v)' = "complete"
  PROVE  Register!Next
BY DEF Register!Next, Register!Progress, Register!Create, Register!Finish, Register!Abandon,
       Register!GiveUp, Register!Moves

LEMMA Statuses ==
  ASSUME versions \in Seq(Version), NEW v \in Rows
  PROVE  versions[v].status \in {"RUNNING", "COMPLETED", "ERROR", "GONE"}
<1>1. versions[v] \in Version
  BY DEF Rows
<1> QED BY <1>1 DEF Version

\* What becomes of the rows that were there.
RowGoesOn(i) ==
  \/ /\ versions'[i].status = versions[i].status
     /\ versions[i].status = "ERROR" => (Kept(i)' => Kept(i))
  \/ versions[i].status = "RUNNING" /\ versions'[i].status = "COMPLETED" /\ Current' = {i}
  \/ versions[i].status = "RUNNING" /\ versions'[i].status = "ERROR" /\ ~Kept(i)'
  \/ versions[i].status = "COMPLETED" /\ versions'[i].status = "ERROR"

LEMMA RowsGoOn ==
  ASSUME Inv, versions' \in Seq(Version), Len(versions') = Len(versions),
         \A i \in Rows : RowGoesOn(i),
         \/ Current' = Current
         \/ \E v \in Rows : Current' = {v} /\ versions'[v].status \in {"COMPLETED", "ERROR"}
  PROVE  Register!Next
<1>1. versions \in Seq(Version) /\ Rows' = Rows /\ Rows \subseteq 1..MaxVersions
  BY MaxVersionsAssumption DEF Inv, VersionState, TypeOK, Rows
<1>2. ASSUME NEW v \in 1..MaxVersions
      PROVE  \/ Stage(v)' = Stage(v)
             \/ Stage(v) = "working" /\ Stage(v)' = "complete" /\ Current' = {v}
             \/ Stage(v) = "working" /\ Stage(v)' = "failed"
             \/ Stage(v) = "complete" /\ Stage(v)' = "failed" /\ v \notin Current'
  <2>1. CASE v \notin Rows
    BY <1>1, <2>1, Stages, StagesNext DEF StagesFit
  <2>2. CASE v \in Rows
    <3>1. RowGoesOn(v) /\ (v \in Current' => Kept(v)')
      BY <2>2 DEF Current, Kept
    <3>2. versions[v].status \in {"RUNNING", "COMPLETED", "ERROR", "GONE"}
      BY <1>1, <2>2, Statuses
    <3>3. CASE versions'[v].status = versions[v].status
      <4>1. versions[v].status = "ERROR" => (Kept(v)' => Kept(v))
        BY <3>1, <3>3 DEF RowGoesOn
      <4> QED BY <1>1, <2>2, <3>1, <3>2, <3>3, <4>1, Stages, StagesNext DEF StagesFit
    <3>4. CASE versions'[v].status # versions[v].status
      BY <1>1, <2>2, <3>1, <3>4, Stages, StagesNext DEF StagesFit, RowGoesOn
    <3> QED BY <3>3, <3>4
  <2> QED BY <2>1, <2>2
<1>3. ASSUME NEW v \in Rows, Current' = {v}, versions'[v].status \in {"COMPLETED", "ERROR"}
      PROVE  Stage(v)' = "complete"
  <2>1. Kept(v)'
    BY <1>3 DEF Current, Kept
  <2> QED BY <1>1, <1>3, <2>1, StagesNext DEF StagesFit
<1> QED BY <1>1, <1>2, <1>3, Progressing

\* Steps that leave the rows alone, and add no restore of a version that failed.
LEMMA RowsStay ==
  ASSUME Inv, versions' = versions,
         \A a \in Admins : \/ admin'[a].at # "restoring" \/ admin'[a] = admin[a]
                           \/ versions[admin'[a].version].status # "ERROR"
  PROVE  Register!Next
<1>1. versions' \in Seq(Version)
  BY DEF Inv, VersionState, TypeOK
<1>2. ASSUME NEW i \in Rows, versions[i].status = "ERROR", Kept(i)'  PROVE Kept(i)
  <2>1. CASE versions'[i].current
    BY <2>1 DEF Kept
  <2>2. CASE ~versions'[i].current
    <3>1. PICK a \in Admins : admin'[a] = [at |-> "restoring", version |-> i]
      BY <1>2, <2>2 DEF Kept
    <3>2. admin'[a] = admin[a]
      BY <1>2, <3>1
    <3> QED BY <3>1, <3>2 DEF Kept
  <2> QED BY <2>1, <2>2
<1>3. \A i \in Rows : RowGoesOn(i)
  BY <1>2 DEF RowGoesOn
<1> QED BY <1>1, <1>3, SameRows, RowsGoOn DEF Inv

\* A reset or the deletion of the text clears the register.
LEMMA Cleared ==
  ASSUME Inv, versions' = AllGone
  PROVE  Register!Next
<1>1. versions \in Seq(Version)
  BY DEF Inv, VersionState, TypeOK
<1>2. /\ versions' \in Seq(Version) /\ Len(versions') = Len(versions)
      /\ \A i \in Rows : ~versions'[i].current /\ versions'[i].status = "GONE"
  BY <1>1, GoneRows
<1>3. Rows' = Rows /\ Current' = {}
  BY <1>2 DEF Rows, Current
<1>4. \A v \in 1..MaxVersions : Stage(v)' = IF Stage(v) = "absent" THEN "absent" ELSE "gone"
  <2>1. \A v \in 1..MaxVersions : v \in Rows => Stage(v) # "absent"
    <3>1. \A v \in Rows : versions[v].status \in {"RUNNING", "COMPLETED", "ERROR", "GONE"}
      BY <1>1, Statuses
    <3> QED BY <1>1, <3>1, Stages DEF StagesFit
  <2> QED BY <1>1, <1>2, <1>3, <2>1, Stages, StagesNext DEF StagesFit
<1> QED BY <1>3, <1>4 DEF Register!Next, Register!Clear

LEMMA NumberCreated ==
  ASSUME Inv, NEW r \in Runs, CreateVersion(r) \/ CreateLost(r)
  PROVE  Register!Next
<1> DEFINE new == [number |-> run[r].number, current |-> FALSE, status |-> "RUNNING"]
<1>1. /\ versions \in Seq(Version) /\ Len(versions) \in Nat /\ UNCHANGED admin
      /\ run[r].number \in 1..MaxVersions
  BY MaxVersionsAssumption DEF CreateVersion, CreateLost, Inv, VersionState, TypeOK, OwnVersion,
                               Run
<1>2. CASE versions' = versions
  BY <1>1, <1>2, RowsStay
<1>3. CASE versions' = Append(versions, new) /\ Len(versions) < MaxVersions
  <2>1. new \in Version /\ new.status = "RUNNING" /\ new.current = FALSE
    BY <1>1 DEF Version
  <2> HIDE DEF new
  <2>n. PICK n \in 1..MaxVersions : n = Len(versions) + 1
    BY <1>1, <1>3, MaxVersionsAssumption
  <2>2. /\ versions' \in Seq(Version) /\ \A i \in Rows : versions'[i] = versions[i]
        /\ versions'[n] = new /\ Len(versions') = n
    BY <1>1, <1>3, <2>1, <2>n, AddedRow
  <2>3. Rows' = Rows \cup {n} /\ n \notin Rows /\ n \in 1..MaxVersions
    BY <1>1, <2>2, <2>n DEF Rows
  <2>4. Current' = Current
    BY <2>1, <2>2, <2>3 DEF Current
  <2>5. \A v \in Rows : Kept(v)' <=> Kept(v)
    BY <1>1, <2>2 DEF Kept
  <2>6. Stage(n) = "absent" /\ Stage(n)' = "working"
    BY <1>1, <2>1, <2>2, <2>3, Stages, StagesNext DEF StagesFit
  <2>7. ASSUME NEW v \in 1..MaxVersions, v # n  PROVE Stage(v)' = Stage(v)
    <3>1. CASE v \in Rows
      <4>1. versions[v].status \in {"RUNNING", "COMPLETED", "ERROR", "GONE"}
        BY <1>1, <3>1, Statuses
      <4> QED BY <1>1, <2>2, <2>3, <2>5, <3>1, <4>1, Stages, StagesNext DEF StagesFit
    <3>2. CASE v \notin Rows
      BY <1>1, <2>2, <2>3, <2>7, <3>2, Stages, StagesNext DEF StagesFit
    <3> QED BY <3>1, <3>2
  <2> QED BY <2>3, <2>4, <2>6, <2>7, Progressing
<1> QED BY <1>2, <1>3 DEF CreateVersion, CreateLost, Insert

\* A run makes the version it has completed the current one.
LEMMA Switched ==
  ASSUME Inv, NEW r \in Runs, Switch(r)
  PROVE  Register!Next
<1> DEFINE v == run[r].version
<1>1. versions \in Seq(Version) /\ UNCHANGED admin /\ run[r].at = "working"
  BY DEF Switch, Inv, VersionState, TypeOK
<1>2. CASE v \notin Live
  BY <1>1, <1>2, RowsStay DEF Switch
<1>3. CASE v \in Live
  <2>1. v \in Rows /\ versions' = MadeCurrent(v, "COMPLETED") /\ versions[v].status = "RUNNING"
    BY <1>1, <1>3 DEF Switch, Live, Inv, VersionState, OwnVersion
  <2>2. /\ versions' \in Seq(Version) /\ Len(versions') = Len(versions)
        /\ \A i \in Rows :
             /\ versions'[i].current = (i = v)
             /\ versions'[i].status = IF i = v THEN "COMPLETED" ELSE versions[i].status
    BY <1>1, <2>1, SwitchedRows
  <2>3. Current' = {v}
    BY <2>1, <2>2 DEF Current, Rows
  <2>4. \A i \in Rows : i # v /\ Kept(i)' => Kept(i)
    BY <1>1, <2>2 DEF Kept
  <2>5. \A i \in Rows : RowGoesOn(i)
    BY <2>1, <2>2, <2>3, <2>4 DEF RowGoesOn
  <2> QED BY <2>1, <2>2, <2>3, <2>5, RowsGoOn
<1> QED BY <1>2, <1>3

\* A run that fails after the switch marks a version that may be current.
LEMMA Marked ==
  ASSUME Inv, NEW r \in Runs, MarkVersion(r) \/ MarkLost(r)
  PROVE  Register!Next
<1> DEFINE v == run[r].version
<1>1. versions \in Seq(Version) /\ UNCHANGED admin
  BY DEF MarkVersion, MarkLost, Inv, VersionState, TypeOK
<1>2. CASE v \notin {None} \cup Live
  BY <1>1, <1>2, RowsStay DEF MarkVersion, MarkLost
<1>3. CASE v \in {None} \cup Live
  <2>1. versions' = [i \in Rows |->
             IF i = v THEN [versions[i] EXCEPT !.status = "ERROR"] ELSE versions[i]]
    BY <1>3 DEF MarkVersion, MarkLost, MarkedError
  <2>2. /\ versions' \in Seq(Version) /\ Len(versions') = Len(versions)
        /\ \A i \in Rows :
             /\ versions'[i].current = versions[i].current
             /\ versions'[i].status = IF i = v THEN "ERROR" ELSE versions[i].status
    BY <1>1, <2>1, MarkedRows
  <2>3. Current' = Current
    BY <2>2 DEF Current, Rows
  <2>4. \A i \in Rows : Kept(i)' <=> Kept(i)
    BY <1>1, <2>2 DEF Kept
  <2>5. \A i \in Rows : versions[i].status = "RUNNING" => ~Kept(i)
    BY DEF Inv, VersionState, OneCurrent, RestoresCompleted, Current, Kept
  <2>6. \A i \in Rows : i = v => versions[i].status \in {"RUNNING", "COMPLETED", "ERROR"}
    BY <1>1, <1>3, Statuses DEF Rows, Live
  <2>7. \A i \in Rows : RowGoesOn(i)
    BY <2>2, <2>4, <2>5, <2>6 DEF RowGoesOn
  <2> QED BY <2>2, <2>3, <2>7, RowsGoOn
<1> QED BY <1>2, <1>3

\* A restore makes current a version that was completed when it was read.
LEMMA Restored ==
  ASSUME Inv, NEW a \in Admins, RestoreWrite(a)
  PROVE  Register!Next
<1> DEFINE v == admin[a].version
<1>1. /\ versions \in Seq(Version) /\ admin[a].at = "restoring" /\ v \in Rows
      /\ admin[a] = [at |-> "restoring", version |-> v] /\ versions[v].status # "RUNNING"
      /\ \A b \in Admins : admin'[b].at # "restoring" \/ admin'[b] = admin[b]
  BY DEF RestoreWrite, Inv, VersionState, TypeOK, Admin, RestoresCompleted, IdleAdmin
<1>2. CASE v \notin Live
  BY <1>1, <1>2, RowsStay DEF RestoreWrite
<1>3. CASE v \in Live
  <2> DEFINE s == versions[v].status
  <2>1. versions' = MadeCurrent(v, s)
    BY <1>3 DEF RestoreWrite
  <2>2. s \in {"COMPLETED", "ERROR"}
    BY <1>1, <1>3, Statuses DEF Live
  <2>3. /\ versions' \in Seq(Version) /\ Len(versions') = Len(versions)
        /\ \A i \in Rows : /\ versions'[i].current = (i = v)
                            /\ versions'[i].status = versions[i].status
    <3>0. s = versions[v].status
      OBVIOUS
    <3> HIDE DEF s, v
    <3>1. /\ versions' \in Seq(Version) /\ Len(versions') = Len(versions)
          /\ \A i \in Rows : /\ versions'[i].number = versions[i].number
                              /\ versions'[i].current = (i = v)
                              /\ versions'[i].status = IF i = v THEN s ELSE versions[i].status
      BY <1>1, <2>1, <2>2, SwitchedRows
    <3> QED BY <3>0, <3>1
  <2>4. Current' = {v}
    BY <1>1, <2>3 DEF Current, Rows
  <2>5. ASSUME NEW i \in Rows, Kept(i)'  PROVE Kept(i)
    <3>1. CASE i = v
      BY <1>1, <3>1 DEF Kept
    <3>2. CASE i # v
      <4>1. PICK b \in Admins : admin'[b] = [at |-> "restoring", version |-> i]
        BY <2>3, <2>5, <3>2 DEF Kept
      <4> QED BY <1>1, <4>1 DEF Kept
    <3> QED BY <3>1, <3>2
  <2>6. \A i \in Rows : RowGoesOn(i)
    BY <2>3, <2>5 DEF RowGoesOn
  <2> QED BY <1>1, <2>2, <2>3, <2>4, <2>6, RowsGoOn
<1> QED BY <1>2, <1>3

\* Every step maps to a step of the register, or to none.
LEMMA RegisterNext ==
  ASSUME Inv, [Next]_vars
  PROVE  [Register!Next]_<<Current, [v \in 1..MaxVersions |-> Stage(v)]>>
<1>t. admin \in [Admins -> Admin]
  BY DEF Inv, VersionState, TypeOK
<1>1. CASE UNCHANGED vars
  <2>1. Register!Next
    BY <1>1, RowsStay DEF vars
  <2> QED BY <2>1
<1>2. ASSUME NEW r \in Runs, Process(r) \/ HandleError(r)  PROVE Register!Next
  <2>1. CASE CreateVersion(r) \/ CreateLost(r) \/ Switch(r) \/ MarkVersion(r) \/ MarkLost(r)
    BY <2>1, NumberCreated, Switched, Marked
  <2>2. CASE ~(CreateVersion(r) \/ CreateLost(r) \/ Switch(r) \/ MarkVersion(r) \/ MarkLost(r))
    <3>1. versions' = versions /\ admin' = admin
      BY <1>2, <2>2 DEF Process, HandleError, Start, Begin, Empty, TakeNumber, Complete, Settle,
                        Fail, Report, HandlerFails, ReplyLost, BeginLost, CompleteLost
    <3> QED BY <3>1, RowsStay
  <2> QED BY <2>1, <2>2
<1>3. ASSUME NEW a \in Admins, Administer(a)  PROVE Register!Next
  <2>1. CASE ResetVersions(a)
    BY <2>1, Cleared DEF ResetVersions
  <2>2. CASE ResetText(a) \/ CancelText(a) \/ AdminFails(a)
    <3>1. versions' = versions /\ admin' = [admin EXCEPT ![a] = IdleAdmin]
      BY <2>2 DEF ResetText, CancelText, AdminFails
    <3>2. \A b \in Admins : admin'[b].at # "restoring" \/ admin'[b] = admin[b]
      BY <1>t, <3>1 DEF IdleAdmin
    <3> QED BY <3>1, <3>2, RowsStay
  <2>3. CASE CancelRead(a)
    <3>1. versions' = versions /\ admin' = [admin EXCEPT ![a].at = "cancelling"]
      BY <2>3 DEF CancelRead
    <3>2. \A b \in Admins : admin'[b].at # "restoring" \/ admin'[b] = admin[b]
      BY <1>t, <3>1 DEF Admin
    <3> QED BY <3>1, <3>2, RowsStay
  <2>4. CASE RestoreRead(a)
    <3>1. PICK v \in Live \ Current :
            /\ versions[v].status = "COMPLETED"
            /\ admin' = [admin EXCEPT ![a] = [at |-> "restoring", version |-> v]]
      BY <2>4 DEF RestoreRead
    <3>2. \A b \in Admins : admin'[b] = admin[b] \/ versions[admin'[b].version].status # "ERROR"
      BY <1>t, <3>1
    <3> QED BY <2>4, <3>2, RowsStay DEF RestoreRead
  <2> QED BY <1>3, <2>1, <2>2, <2>3, <2>4, Restored DEF Administer
<1>4. CASE DeleteText
  <2>1. Register!Next
    BY <1>4, Cleared DEF DeleteText
  <2> QED BY <2>1
<1>5. CASE Crash
  <2>1. versions' = versions /\ \A b \in Admins : admin'[b].at # "restoring"
    BY <1>5 DEF Crash, IdleAdmin
  <2>2. Register!Next
    BY <2>1, RowsStay
  <2> QED BY <2>2
<1> QED BY <1>1, <1>2, <1>3, <1>4, <1>5 DEF Next

\* The versions of a text implement VersionRegister: what is marked isCurrent has been
\* completed and is exchanged in one step.
THEOREM ImplementsRegister == Spec => CurrentIsCompleted
<1>1. Init => Register!Init
  <2> SUFFICES ASSUME Init PROVE Register!Init
    OBVIOUS
  <2>1. versions \in Seq(Version) /\ Rows = {}
    BY DEF Init, Rows
  <2>2. Current = {} /\ \A v \in 1..MaxVersions : Stage(v) = "absent"
    BY <2>1, Stages DEF Current, StagesFit
  <2> QED BY <2>2 DEF Register!Init
<1>2. Inv /\ [Next]_vars => [Register!Next]_<<Current, [v \in 1..MaxVersions |-> Stage(v)]>>
  BY RegisterNext
<1> QED BY <1>1, <1>2, Invariance, PTL DEF Spec, CurrentIsCompleted, Register!Spec

=============================================================================
