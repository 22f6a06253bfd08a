---------------------------- MODULE MCTimesheets ----------------------------
(***************************************************************************)
(* The instance of Timesheets for TLC.                                     *)
(***************************************************************************)
EXTENDS Timesheets, TLC

RowsAndRequests == Permutations(Request) \cup Permutations(Entry)
=============================================================================
