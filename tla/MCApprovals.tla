---------------------------- MODULE MCApprovals ----------------------------
(***************************************************************************)
(* Instances of Approvals for TLC.                                         *)
(***************************************************************************)
EXTENDS Approvals, TLC

CONSTANTS a1, d1, r1, r2, r3

\* Two required steps, a required and an optional one, an optional one.
StepLists ==
    {<<"required", "required">>, <<"optional", "required">>, <<"optional", "absent">>}

Requests == Permutations({r1, r2, r3})
=============================================================================
