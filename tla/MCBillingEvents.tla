-------------------------- MODULE MCBillingEvents --------------------------
(***************************************************************************)
(* The instance of BillingEvents for TLC: the end of a subscription of     *)
(* Stripe and an invoice of it, a charge of Paystack, and the end of the   *)
(* subscription that it was for, which has the same key.                   *)
(***************************************************************************)
EXTENDS BillingEvents, TLC

CONSTANTS k1, k2, k3, s1, h1, h2

Ev(kind, key, status, known) ==
    [kind |-> kind, key |-> key, sub |-> s1, status |-> status, known |-> known]

Events == {Ev("stripe", k1, "CANCELLED", TRUE), Ev("invoice", k2, "ACTIVE", TRUE),
           Ev("charge", k3, "ACTIVE", TRUE), Ev("paystack", k3, "CANCELLED", FALSE)}
=============================================================================
