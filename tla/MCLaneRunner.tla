------------------------------ MODULE MCLaneRunner -----------------------------
(* LaneRunner with two lanes, of every kind each, and two cells per lane. *)
EXTENDS LaneRunner

MCLanes == 2
MCCells == 2

===============================================================================
