---------------------------- MODULE MCBookings ----------------------------
(***************************************************************************)
(* The instance of Bookings for TLC: one page whose slots have a buffer    *)
(* before them, with a limit for a day of two slots and none for a week.   *)
(***************************************************************************)
EXTENDS Bookings, TLC

CONSTANTS h1, h2

Same(n) == [p \in Page |-> n]
One == Same(1)
Zero == Same(0)
Limits == Same([day |-> 1, week |-> 0])
OpenHours == [h \in Host |-> IF h = h1 THEN {0, 1, 2} ELSE {0}]
Elsewhere == {<<h1, 2>>}
Spans == [day |-> 2, week |-> 14]

(***************************************************************************)
(* Bounds the search: the second host has no bookings but those that move  *)
(* from the first.                                                         *)
(***************************************************************************)
SecondHostLater == \A b \in Booking : meeting[b].first # h2

Alike == Permutations(Request)
===========================================================================
