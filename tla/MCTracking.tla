------------------------------ MODULE MCTracking ------------------------------
(***************************************************************************)
(* TrackingStats for TLC.  Two events, one server, and a queue and batches *)
(* of one entry: a second push finds the queue full, and a flush goes      *)
(* round as long as it pops.                                               *)
(***************************************************************************)
EXTENDS TrackingStats
=============================================================================
