--------------------------- MODULE BillingEvents ---------------------------
(***************************************************************************)
(* Billing of one tenant: the events that the payment providers send, the  *)
(* requests of its administrators, the subscription that both write, and   *)
(* the status of the tenant that follows it in a statement of its own.     *)
(*                                                                         *)
(* A provider sends an event again until it is answered.  Deliveries       *)
(* overlap, are repeated and overtake each other.  What makes a delivery a *)
(* duplicate is the row of an event with the same key; the key is the      *)
(* provider's event id, and for Paystack the reference, the subscription   *)
(* or the authorization that the event is about.  Amounts, periods and     *)
(* seats are left out; an invoice is written or not.                       *)
(***************************************************************************)
EXTENDS Integers, FiniteSets

CONSTANTS
    Event,      \* events that the providers have, as records (see EventAssumption)
    Key,        \* keys of events
    SubId,      \* the providers' subscription ids
    Handler,    \* requests and deliveries that may be under way at a time
    ByHand,     \* bound: statuses that administrators write, of either
    MaxEdits,   \* bound: requests of administrators
    MaxFaults,  \* bound: deaths of an instance, errors of the database
    Nil         \* no event, no subscription id

BillingStatus == {"TRIALING", "ACTIVE", "PAST_DUE", "CANCELLED", "EXPIRED"}
TenantStatus == {"ACTIVE", "TRIAL", "CANCELLED", "SUSPENDED"}

\* kind: customer.subscription.* of Stripe, charge.success and subscription.*
\* of Paystack; invoice.* and any other of Stripe.  known: its metadata names
\* the tenant.
ASSUME EventAssumption ==
    /\ Event \subseteq [kind : {"stripe", "charge", "paystack", "invoice"}, key : Key,
                        sub : SubId, status : BillingStatus, known : BOOLEAN]
    /\ \A e \in Event : e.kind = "charge" => e.status = "ACTIVE"
    /\ \A d, e \in Event : e.kind \in {"stripe", "invoice"} /\ d.key = e.key => d = e
    /\ Nil \notin Event \cup SubId
ASSUME BoundAssumption ==
    ByHand \subseteq BillingStatus \cup TenantStatus /\ MaxEdits \in Nat /\ MaxFaults \in Nat

VARIABLES
    row,        \* rows of received events, by their unique key
    sub,        \* the subscription, one row per tenant
    tenant,     \* status of the tenant
    hand,       \* handlers
    answered,   \* events that their provider knows to be received
    edits,      \* requests so far
    faults,     \* faults so far
    applied,    \* history: how often an event was applied
    planless,   \* history: events whose plan was not found
    abandoned,  \* history: keys whose handler ended without writing the row
    adrift      \* history: the tenant's status was not written after the subscription's

vars == <<row, sub, tenant, hand, answered, edits, faults, applied, planless, abandoned, adrift>>
history == <<applied, planless, abandoned>>

RowState == [st : {"none", "RECEIVED", "PROCESSED", "IGNORED", "FAILED"}, of : Event \cup {Nil}]
Providers == {"none", "manual", "stripe", "paystack"}
SubState == [st : BillingStatus \cup {"none"}, by : Providers, id : SubId \cup {Nil}]
HandState == [pc : {"idle", "insert", "find", "write", "change", "tenant", "settle", "catch"},
              event : Event \cup {Nil}, tenant : BOOLEAN, found : BOOLEAN,
              st : BillingStatus \cup {"none"}, done : {"PROCESSED", "IGNORED"}]

Idle == [pc |-> "idle", event |-> Nil, tenant |-> FALSE, found |-> FALSE, st |-> "none",
         done |-> "IGNORED"]

Init ==
    /\ row = [k \in Key |-> [st |-> "none", of |-> Nil]]
    /\ sub = [st |-> "none", by |-> "none", id |-> Nil]
    /\ tenant = "ACTIVE"
    /\ hand = [h \in Handler |-> Idle]
    /\ answered = {} /\ edits = 0 /\ faults = 0
    /\ applied = [e \in Event |-> 0] /\ planless = {} /\ abandoned = {}
    /\ adrift = FALSE

-----------------------------------------------------------------------------

\* updateTenantStatusFromBilling.
\* Mutant: the subscription's status is written as it is.
SameStatus(st) == st
TenantOf(st) ==
    CASE st = "ACTIVE" -> "ACTIVE" [] st = "TRIALING" -> "TRIAL"
      [] st \in {"CANCELLED", "EXPIRED"} -> "CANCELLED" [] OTHER -> "SUSPENDED"

Owing(h) == {g \in Handler \ {h} : hand[g].pc = "tenant"}

\* The subscription is written, and the tenant's status comes next.
SetSub(h, new, next) ==
    /\ sub' = new
    /\ adrift' = (Owing(h) # {})
    /\ hand' = [hand EXCEPT ![h] = [next EXCEPT !.pc = "tenant", !.st = new.st]]
    /\ UNCHANGED <<row, tenant, answered, faults>>

Step(h, next) ==
    /\ hand' = [hand EXCEPT ![h] = next]
    /\ UNCHANGED <<sub, tenant, edits, faults, adrift>>

-----------------------------------------------------------------------------
(***************************************************************************)
(* Administrators.                                                         *)
(***************************************************************************)
OneMore(h) == hand[h].pc = "idle" /\ edits < MaxEdits /\ edits' = edits + 1

CreateSubscription(h, st, by, id) ==
    /\ OneMore(h) /\ sub.st = "none"
    /\ SetSub(h, [st |-> st, by |-> by, id |-> id], Idle)
    /\ UNCHANGED history

\* updateSubscription with a status, cancelSubscription, resumeSubscription,
\* startTrial.
UpdateSubscription(h, st, id) ==
    /\ OneMore(h) /\ sub.st # "none"
    /\ SetSub(h, [sub EXCEPT !.st = st, !.id = id], Idle)
    /\ UNCHANGED history

\* updateSubscription without one leaves the tenant alone.
RelinkSubscription(h, id) ==
    /\ OneMore(h) /\ sub.st # "none"
    /\ sub' = [sub EXCEPT !.id = id]
    /\ UNCHANGED <<row, tenant, hand, answered, faults, history, adrift>>

\* startTenantTrial: an upsert.
TrialSub == IF sub.st = "none" THEN [st |-> "TRIALING", by |-> "manual", id |-> Nil]
            ELSE [sub EXCEPT !.st = "TRIALING"]

StartTenantTrial(h) ==
    /\ OneMore(h)
    /\ SetSub(h, TrialSub, Idle)
    /\ UNCHANGED history

\* A checkout that is confirmed when the customer returns, beside the events.
ConfirmCheckout(h, st, by, id) ==
    /\ OneMore(h) /\ (by = "paystack" => st = "ACTIVE")
    /\ SetSub(h, [st |-> st, by |-> by, id |-> id], Idle)
    /\ UNCHANGED history

\* changePlan: a subscription that was cancelled when it was read becomes
\* active; the tenant follows the status as it was written.
ChangePlanRead(h) ==
    /\ OneMore(h) /\ sub.st # "none"
    /\ hand' = [hand EXCEPT ![h] = [Idle EXCEPT !.pc = "change", !.found = (sub.st = "CANCELLED")]]
    /\ UNCHANGED <<row, sub, tenant, answered, faults, history, adrift>>

\* Mutant: the tenant is forgotten.
ForgetsTenant(h) ==
    /\ hand[h].pc = "change"
    /\ sub' = IF hand[h].found THEN [sub EXCEPT !.st = "ACTIVE"] ELSE sub
    /\ hand' = [hand EXCEPT ![h] = Idle]
    /\ UNCHANGED <<row, tenant, answered, edits, faults, history, adrift>>
ChangePlanWrite(h) ==
    /\ hand[h].pc = "change"
    /\ SetSub(h, IF hand[h].found THEN [sub EXCEPT !.st = "ACTIVE"] ELSE sub, Idle)
    /\ UNCHANGED <<edits, history>>

\* The platform console writes the status of a subscription and leaves the
\* tenant's; it and the deletion of a tenant's data write the tenant's status
\* and leave the subscription's.
SetSite(new, status) ==
    /\ edits < MaxEdits /\ edits' = edits + 1
    /\ sub' = new /\ tenant' = status /\ adrift' = TRUE
    /\ UNCHANGED <<row, hand, answered, faults, history>>

UpdateSiteSubscription(st) == sub.st # "none" /\ SetSite([sub EXCEPT !.st = st], tenant)
StartSiteSubscriptionTrial == SetSite(TrialSub, tenant)
SetTenantStatus(status) == SetSite(sub, status)

-----------------------------------------------------------------------------
(***************************************************************************)
(* Deliveries: processStripeWebhook and processPaystackWebhook.            *)
(***************************************************************************)
\* The tenant is named by the event, or found by the subscription's id or
\* the customer's.
Provider(e) == IF e.kind \in {"charge", "paystack"} THEN "paystack" ELSE "stripe"
Linked(e) == sub.id = e.sub /\ sub.by = Provider(e)
Known(e) ==
    IF e.known \/ Linked(e) THEN {TRUE}
    ELSE IF sub.by = Provider(e) THEN BOOLEAN ELSE {FALSE}

Receive(h, e) ==
    /\ hand[h].pc = "idle" /\ e \notin answered
    /\ \E t \in Known(e) : Step(h, [Idle EXCEPT !.pc = "insert", !.event = e, !.tenant = t])
    /\ UNCHANGED <<row, answered, history>>

\* The row of the event, unless there is one with its key.
\* Mutant: only a row that was processed makes a duplicate.
OnlyProcessed(e) == row[e.key].st = "PROCESSED"
Duplicate(e) == row[e.key].st # "none"

Answer(h) ==
    /\ answered' = answered \cup {hand[h].event}
    /\ Step(h, Idle)

\* Mutant: the error of the unique key reaches the provider.
RejectDuplicate(h) == Step(h, Idle) /\ UNCHANGED answered
AnswerDuplicate(h) == Answer(h)

InsertEvent(h) ==
    LET e == hand[h].event IN
    /\ hand[h].pc = "insert"
    /\ \/ Duplicate(e) /\ AnswerDuplicate(h) /\ UNCHANGED <<row, history>>
       \/ /\ ~Duplicate(e)
          /\ row' = [row EXCEPT ![e.key] = [st |-> "RECEIVED", of |-> e]]
          /\ Step(h, [hand[h] EXCEPT !.pc = "find"])
          /\ UNCHANGED <<answered, history>>

\* What the event is about is looked up.  Without a tenant, a plan or a
\* subscription nothing is written; a Stripe event counts as processed all
\* the same when its tenant is known.
\* Mutant: it counts as processed whatever it was.
NothingIsDone(h, done) == Step(h, [hand[h] EXCEPT !.pc = "settle", !.done = "PROCESSED"])
Nothing(h, done) == Step(h, [hand[h] EXCEPT !.pc = "settle", !.tenant = FALSE, !.done = done])
Apply(h, found) ==
    Step(h, [hand[h] EXCEPT !.pc = "write", !.tenant = FALSE, !.found = found,
                            !.done = IF hand[h].tenant \/ hand[h].event.kind # "stripe"
                                     THEN "PROCESSED" ELSE "IGNORED"])

FindStripe(h) ==
    LET e == hand[h].event IN
    /\ hand[h].pc = "find" /\ e.kind = "stripe"
    /\ \/ /\ ~hand[h].tenant /\ ~Linked(e)
          /\ Nothing(h, "IGNORED") /\ UNCHANGED planless
       \/ /\ hand[h].tenant \/ Linked(e)
          /\ \/ Apply(h, Linked(e)) /\ UNCHANGED planless
             \/ /\ Nothing(h, IF hand[h].tenant THEN "PROCESSED" ELSE "IGNORED")
                /\ planless' = planless \cup {e}
    /\ UNCHANGED <<row, answered, applied, abandoned>>

FindCharge(h) ==
    /\ hand[h].pc = "find" /\ hand[h].event.kind = "charge"
    /\ \/ hand[h].tenant /\ Apply(h, FALSE)
       \/ Nothing(h, "IGNORED")
    /\ UNCHANGED <<row, answered, history>>

\* The subscription with the event's id, or the tenant's.
FindPaystack(h) ==
    LET found == sub.by = "paystack" /\ (sub.id = hand[h].event.sub \/ hand[h].tenant) IN
    /\ hand[h].pc = "find" /\ hand[h].event.kind = "paystack"
    /\ IF found THEN Apply(h, TRUE) ELSE Nothing(h, "IGNORED")
    /\ UNCHANGED <<row, answered, history>>

\* The invoice of a subscription that is found is all that is written.
FindInvoice(h) ==
    LET e == hand[h].event IN
    /\ hand[h].pc = "find" /\ e.kind = "invoice"
    /\ \/ Nothing(h, "IGNORED") /\ UNCHANGED applied
       \/ /\ sub.st # "none"
          /\ Nothing(h, "PROCESSED")
          /\ applied' = [applied EXCEPT ![e] = @ + 1]
    /\ UNCHANGED <<row, answered, planless, abandoned>>

\* An update by the id that was found, or an upsert of the tenant's row.
WriteSub(h) ==
    LET e == hand[h].event IN
    /\ hand[h].pc = "write"
    /\ SetSub(h, IF hand[h].found THEN [sub EXCEPT !.st = e.status]
                 ELSE [st |-> e.status, by |-> Provider(e), id |-> e.sub],
              [hand[h] EXCEPT !.found = FALSE])
    /\ applied' = [applied EXCEPT ![e] = @ + 1]
    /\ UNCHANGED <<edits, planless, abandoned>>

WriteTenant(h) ==
    /\ hand[h].pc = "tenant"
    /\ tenant' = TenantOf(hand[h].st)
    /\ hand' = [hand EXCEPT ![h] = IF hand[h].event = Nil THEN Idle
                                   ELSE [hand[h] EXCEPT !.pc = "settle", !.st = "none"]]
    /\ UNCHANGED <<row, sub, answered, edits, faults, history, adrift>>

SettleRow(h, st) ==
    /\ row' = [row EXCEPT ![hand[h].event.key].st = st]
    /\ Answer(h)
    /\ UNCHANGED history

SettleEvent(h) == hand[h].pc = "settle" /\ SettleRow(h, hand[h].done)
CatchError(h) == hand[h].pc = "catch" /\ SettleRow(h, "FAILED")

\* An error of the database while the event is applied is caught, and the
\* event answered as received; one in the catch, the death of the instance
\* and an error outside leave the row as it is, and the event unanswered.
Fault == faults < MaxFaults /\ faults' = faults + 1

ApplyFails(h) ==
    /\ Fault /\ hand[h].pc \in {"find", "write", "tenant", "settle"} /\ hand[h].event # Nil
    /\ hand' = [hand EXCEPT ![h] = [Idle EXCEPT !.pc = "catch", !.event = hand[h].event]]
    /\ adrift' = (adrift \/ hand[h].pc = "tenant")
    /\ UNCHANGED <<row, sub, tenant, answered, edits, history>>

HandlerDies(h) ==
    /\ Fault /\ hand[h].pc # "idle"
    /\ hand' = [hand EXCEPT ![h] = Idle]
    /\ adrift' = (adrift \/ hand[h].pc = "tenant")
    /\ abandoned' = IF hand[h].event = Nil \/ hand[h].pc = "insert" THEN abandoned
                    ELSE abandoned \cup {hand[h].event.key}
    /\ UNCHANGED <<row, sub, tenant, answered, edits, applied, planless>>

-----------------------------------------------------------------------------

HandlerStep(h) ==
    \/ InsertEvent(h)
    \/ FindStripe(h) \/ FindCharge(h) \/ FindPaystack(h) \/ FindInvoice(h)
    \/ WriteSub(h) \/ ChangePlanWrite(h) \/ WriteTenant(h)
    \/ SettleEvent(h) \/ CatchError(h)

Edit(h) ==
    \/ \E st \in ByHand \cap BillingStatus, by \in Providers \ {"none"}, id \in SubId \cup {Nil} :
          CreateSubscription(h, st, by, id)
    \/ \E st \in ByHand \cap BillingStatus, id \in SubId \cup {sub.id} :
          UpdateSubscription(h, st, id)
    \/ \E st \in ByHand \cap BillingStatus, by \in {"stripe", "paystack"}, id \in SubId :
          ConfirmCheckout(h, st, by, id)
    \/ \E id \in SubId : RelinkSubscription(h, id)
    \/ StartTenantTrial(h) \/ ChangePlanRead(h)

SiteEdit ==
    \/ \E st \in ByHand \cap BillingStatus : UpdateSiteSubscription(st)
    \/ \E st \in ByHand \cap TenantStatus : SetTenantStatus(st)
    \/ StartSiteSubscriptionTrial

Next ==
    \/ \E h \in Handler : HandlerStep(h) \/ Edit(h) \/ ApplyFails(h) \/ HandlerDies(h)
    \/ \E h \in Handler, e \in Event : Receive(h, e)
    \/ SiteEdit

Spec == Init /\ [][Next]_vars

\* While some event is not answered one such is sent again, and
\* what has begun goes on.
Fairness ==
    /\ \A h \in Handler : WF_vars(HandlerStep(h))
    /\ WF_vars(\E h \in Handler, e \in Event : Receive(h, e))
FairSpec == Spec /\ Fairness

-----------------------------------------------------------------------------

TypeOK ==
    /\ row \in [Key -> RowState]
    /\ sub \in SubState /\ tenant \in TenantStatus
    /\ hand \in [Handler -> HandState]
    /\ answered \subseteq Event /\ edits \in 0..MaxEdits /\ faults \in 0..MaxFaults
    /\ applied \in [Event -> Nat] /\ planless \subseteq Event /\ abandoned \subseteq Key
    /\ adrift \in BOOLEAN

(***************************************************************************)
(* However often an event is delivered, and by however many at a time, the *)
(* events of one key are applied once in all.                              *)
(***************************************************************************)
AppliedOnce ==
    \A d, e \in Event :
        /\ applied[e] <= 1
        /\ d.key = e.key /\ applied[d] > 0 /\ applied[e] > 0 => d = e

(***************************************************************************)
(* The rows account for what was answered: an event that its provider will *)
(* not send again was applied, or its row tells that it was not, or it was *)
(* taken for another event with the same key, or its plan was not found.   *)
(***************************************************************************)
Accounted ==
    \A e \in answered :
        \/ applied[e] = 1
        \/ row[e.key].st \in {"FAILED", "IGNORED", "RECEIVED"}
        \/ row[e.key].of # e
        \/ e \in planless

(***************************************************************************)
(* When nobody is about to write the tenant's status, it is the one that   *)
(* the subscription demands: unless two requests overlapped between the    *)
(* two statements, one broke off there, or the platform wrote one of them. *)
(***************************************************************************)
TenantFollows ==
    \/ adrift \/ sub.st = "none"
    \/ \E h \in Handler : hand[h].pc = "tenant"
    \/ tenant = TenantOf(sub.st)

(***************************************************************************)
(* In the end every event is answered, and the row of every event that was *)
(* received is settled, unless its handler ended without writing it.       *)
(***************************************************************************)
EventsSettle ==
    <>[](/\ Event \subseteq answered
         /\ \A k \in Key : row[k].st # "RECEIVED" \/ k \in abandoned)
=============================================================================
