---------------------------- MODULE TrackingStats ----------------------------
(***************************************************************************)
(* The TrackingDailyStats row of one UTC day, which                        *)
(* TrackingAggregatorService                                               *)
(* (src/src/tracking/tracking-aggregator.service.ts) computes from the     *)
(* rows that the queue worker of Tracking inserts meanwhile: every hour    *)
(* for the last three days, and when an administrator asks for it          *)
(* (src/src/tracking/tracking-admin.controller.ts).                        *)
(*                                                                         *)
(* The events are those of the day.  Of the statistics, two columns are    *)
(* kept: totalEvents, which comes from a query of its own, and             *)
(* topEventTypes, added up, for all that come from the grouped rows.       *)
(***************************************************************************)
EXTENDS Tracking

VARIABLES
  clock,            \* how old the day is
  running,          \* the flag of each server
  agg,              \* the calls of aggregateDay
  stats             \* the TrackingDailyStats row

aggVars == <<running, agg, stats>>
allVars == <<vars, clock, aggVars>>

\* A server runs aggregateRecent and, beside it, a call for the day.
Calls == Servers \X {"recent", "day"}

\* aggregateDay has been called ("counting"), and has made its first query ("deleting" or
\* "grouping") and the second ("writing").
Call == [at : {"idle", "counting", "deleting", "grouping", "writing"}, total : Nat, grouped : Nat]
NoCall == [at |-> "idle", total |-> 0, grouped |-> 0]
Stats == [exists : BOOLEAN, totalEvents : Nat, grouped : Nat]
NoStats == [exists |-> FALSE, totalEvents |-> 0, grouped |-> 0]

AggInit ==
  /\ Init
  /\ clock = "today"
  /\ running = [s \in Servers |-> FALSE]
  /\ agg = [c \in Calls |-> NoCall]
  /\ stats = NoStats
-----------------------------------------------------------------------------
\* The rows of the day.
Rows == Cardinality({c \in Entries : stored[c] # 0})

GotoCall(c, rec) == agg' = [agg EXCEPT ![c] = rec]

\* The aggregateRecent without its finally.
EndUnreset(c) == GotoCall(c, NoCall) /\ UNCHANGED running

\* The finally of aggregateRecent.
End(c) ==
  /\ GotoCall(c, NoCall)
  /\ running' = IF c[2] = "recent" THEN [running EXCEPT ![c[1]] = FALSE] ELSE running

AggregateRecent(s) ==
  /\ Up(s) /\ ~running[s] /\ clock # "past"
  /\ running' = [running EXCEPT ![s] = TRUE]
  /\ GotoCall(<<s, "recent">>, [NoCall EXCEPT !.at = "counting"])
  /\ UNCHANGED <<vars, clock, stats>>

AggregateDay(s) ==
  /\ Up(s) /\ agg[<<s, "day">>].at = "idle"
  /\ GotoCall(<<s, "day">>, [NoCall EXCEPT !.at = "counting"])
  /\ UNCHANGED <<vars, clock, running, stats>>

\* The call that does without the early return for a day without events.
CountOnly(c) ==
  /\ agg[c].at = "counting"
  /\ GotoCall(c, [at |-> "grouping", total |-> Rows, grouped |-> 0])
  /\ UNCHANGED <<vars, clock, running, stats>>

Count(c) ==
  /\ agg[c].at = "counting"
  /\ GotoCall(c, [at |-> IF Rows = 0 THEN "deleting" ELSE "grouping", total |-> Rows, grouped |-> 0])
  /\ UNCHANGED <<vars, clock, running, stats>>

Delete(c) ==
  /\ agg[c].at = "deleting"
  /\ stats' = NoStats
  /\ End(c)
  /\ UNCHANGED <<vars, clock>>

Group(c) ==
  /\ agg[c].at = "grouping"
  /\ GotoCall(c, [agg[c] EXCEPT !.at = "writing", !.grouped = Rows])
  /\ UNCHANGED <<vars, clock, running, stats>>

Upsert(c) ==
  /\ agg[c].at = "writing"
  /\ stats' = [exists |-> TRUE, totalEvents |-> agg[c].total, grouped |-> agg[c].grouped]
  /\ End(c)
  /\ UNCHANGED <<vars, clock>>

\* A query fails.
Fail(c) ==
  /\ agg[c].at # "idle"
  /\ Fault
  /\ End(c)
  /\ UNCHANGED <<track, sends, queue, trims, worker, stored, clock, stats>>

\* The calls of a server end with it.
AggCrash(s) ==
  /\ Crash(s)
  /\ agg' = [c \in Calls |-> IF c[1] = s THEN NoCall ELSE agg[c]]
  /\ running' = [running EXCEPT ![s] = FALSE]
  /\ UNCHANGED <<clock, stats>>

\* Midnight, and the end of the three days.
Tick ==
  /\ clock # "past"
  /\ clock' = IF clock = "today" THEN "recent" ELSE "past"
  /\ UNCHANGED <<vars, aggVars>>

\* The day's events arrive on the day, and are stored when they are.
TrackingStep ==
  /\ (clock = "today" /\ Arrival) \/ Step
  /\ UNCHANGED <<clock, aggVars>>

Query(c) == Count(c) \/ Delete(c) \/ Group(c) \/ Upsert(c)

AggNext ==
  \/ TrackingStep
  \/ \E s \in Servers : AggCrash(s) \/ AggregateRecent(s) \/ AggregateDay(s)
  \/ \E c \in Calls : Query(c) \/ Fail(c)
  \/ Tick

\* Besides, the database answers and the hourly timer fires.
AggFairness ==
  /\ \A e \in Events : WF_allVars(Send(e) /\ UNCHANGED <<clock, aggVars>>)
  /\ \A s \in Servers : /\ WF_allVars(Work(s) /\ UNCHANGED <<clock, aggVars>>)
                        /\ WF_allVars(AggregateRecent(s))
  /\ \A c \in Calls : WF_allVars(Query(c))

AggSpec == AggInit /\ [][AggNext]_allVars /\ AggFairness
-----------------------------------------------------------------------------
AggTypeOK ==
  /\ clock \in {"today", "recent", "past"}
  /\ running \in [Servers -> BOOLEAN]
  /\ agg \in [Calls -> Call]
  /\ stats \in Stats

(* A statistics row, with calls that overlap each other and the worker, never says more than
   there is: its total is of no more events than its breakdowns, both are of rows there
   are, and it is there for a day with events only. *)
StatsAreOfRows ==
  /\ AggTypeOK
  /\ stats.totalEvents <= stats.grouped /\ stats.grouped <= Rows
  /\ stats.exists => stats.totalEvents > 0

(* While the day is among the last three, its statistics come to agree with its rows, whatever
   stale result an overlapping call has written. *)
StatsCatchUp ==
  <>[](clock # "past") =>
    <>[](stats = IF Rows = 0 THEN NoStats
                 ELSE [exists |-> TRUE, totalEvents |-> Rows, grouped |-> Rows])
=============================================================================
