---------------------------- MODULE MCReminders ----------------------------
(***************************************************************************)
(* The instance of Reminders for TLC.                                      *)
(***************************************************************************)
EXTENDS Reminders, TLC
=============================================================================
