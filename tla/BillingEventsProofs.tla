------------------------ MODULE BillingEventsProofs ------------------------
(***************************************************************************)
(* Proofs about BillingEvents, for every set of events, keys, subscription *)
(* ids and handlers, and every number of requests and faults.              *)
(***************************************************************************)
EXTENDS BillingEvents, TLAPS

(***************************************************************************)
(* What is known of a handler: once it has inserted the row of its event   *)
(* it holds that row, the event is not applied before it writes, and it    *)
(* says PROCESSED only of an event that was applied or has no plan.        *)
(***************************************************************************)
Applying == {"find", "write", "tenant", "settle", "catch"}
Busy(y) == y.event # Nil /\ y.pc \in Applying

Fit(y, rows, count, lost) ==
    /\ y.pc \in {"insert", "find", "write", "settle", "catch"} => y.event # Nil
    /\ Busy(y) => rows[y.event.key].of = y.event /\ rows[y.event.key].st # "none"
    /\ y.pc \in {"find", "write"} => count[y.event] = 0
    /\ y.pc = "tenant" /\ y.event # Nil => count[y.event] = 1
    /\ y.pc = "settle" /\ y.done = "PROCESSED" => count[y.event] = 1 \/ y.event \in lost
Handled == \A h \in Handler : Fit(hand[h], row, applied, planless)

\* Two handlers never work on events of one key.
Alone == \A g, h \in Handler :
    Busy(hand[g]) /\ Busy(hand[h]) /\ hand[g].event.key = hand[h].event.key => g = h

Counted == \A e \in Event :
    applied[e] # 0 => applied[e] = 1 /\ row[e.key].of = e /\ row[e.key].st # "none"

Settled == \A k \in Key :
    /\ row[k].st # "none" => row[k].of # Nil
    /\ row[k].st = "PROCESSED" => applied[row[k].of] = 1 \/ row[k].of \in planless

Filed == \A e \in answered : row[e.key].st # "none"

Sound == Handled /\ Alone /\ Counted /\ Settled /\ Filed

\* Unless the two are adrift, who owes the tenant its status is alone and
\* knows the subscription's.
Aligned ==
    adrift \/ /\ \A g, h \in Handler : hand[g].pc = "tenant" /\ hand[h].pc = "tenant" => g = h
              /\ \A h \in Handler : hand[h].pc = "tenant" => hand[h].st = sub.st

-----------------------------------------------------------------------------

LEMMA Keys == \A e \in Event : e.key \in Key /\ e.sub \in SubId /\ e.status \in BillingStatus
  BY EventAssumption

LEMMA StateTypes ==
  /\ Idle \in HandState /\ TrialSub.st \in BillingStatus
  /\ \A st : TenantOf(st) \in TenantStatus
  /\ sub \in SubState => TrialSub \in SubState
  /\ \A e \in Event : Provider(e) \in Providers \ {"none", "manual"}
  <1>1. Idle \in HandState
    BY DEF Idle, HandState
  <1>2. TrialSub.st \in BillingStatus /\ (sub \in SubState => TrialSub \in SubState)
    <2>1. CASE sub.st = "none"
      BY <2>1 DEF TrialSub, SubState, BillingStatus, Providers
    <2>2. CASE sub.st # "none" /\ sub \in SubState
      BY <2>2 DEF TrialSub, SubState, BillingStatus
    <2> QED BY <2>1, <2>2 DEF TrialSub, BillingStatus
  <1> QED BY <1>1, <1>2 DEF TenantOf, TenantStatus, Provider, Providers

LEMMA InitSound == Init => TypeOK /\ Sound /\ Aligned /\ TenantFollows
  <1> SUFFICES ASSUME Init PROVE TypeOK /\ Sound /\ Aligned /\ TenantFollows
    OBVIOUS
  <1>1. TypeOK
    <2>1. row \in [Key -> RowState] /\ sub \in SubState
      BY DEF Init, RowState, SubState, Providers
    <2>2. hand \in [Handler -> HandState] /\ tenant \in TenantStatus
      BY StateTypes DEF Init, TenantStatus
    <2>3. edits \in 0..MaxEdits /\ faults \in 0..MaxFaults /\ applied \in [Event -> Nat]
      BY BoundAssumption DEF Init
    <2> QED BY <2>1, <2>2, <2>3 DEF Init, TypeOK
  <1>2. Sound
    BY DEF Init, Sound, Handled, Fit, Alone, Counted, Settled, Filed, Busy, Applying, Idle
  <1>3. Aligned /\ TenantFollows
    BY DEF Init, Aligned, TenantFollows, Idle
  <1> QED BY <1>1, <1>2, <1>3

-----------------------------------------------------------------------------
(***************************************************************************)
(* Types.                                                                  *)
(***************************************************************************)
LEMMA SetSubTypes ==
  ASSUME TypeOK, NEW h \in Handler, NEW new \in SubState, NEW next \in HandState,
         SetSub(h, new, next)
  PROVE  /\ sub' \in SubState /\ hand' \in [Handler -> HandState] /\ adrift' \in BOOLEAN
         /\ UNCHANGED <<row, tenant, answered, faults>>
  <1>1. [next EXCEPT !.pc = "tenant", !.st = new.st] \in HandState
    BY DEF HandState, SubState
  <1> QED BY <1>1 DEF SetSub, TypeOK

LEMMA EditTypes ==
  ASSUME TypeOK, NEW h \in Handler, Edit(h) \/ ChangePlanWrite(h)
  PROVE  TypeOK'
  <1>1. ASSUME NEW new \in SubState, SetSub(h, new, Idle), UNCHANGED history,
               edits' \in 0..MaxEdits
        PROVE  TypeOK'
    BY <1>1, StateTypes, SetSubTypes DEF TypeOK, history
  <1>2. OneMore(h) => edits' \in 0..MaxEdits
    BY BoundAssumption DEF OneMore, TypeOK
  <1>3. ASSUME NEW st \in BillingStatus, NEW by \in Providers, NEW id \in SubId \cup {Nil}
        PROVE  /\ [st |-> st, by |-> by, id |-> id] \in SubState
               /\ [sub EXCEPT !.st = st, !.id = id] \in SubState
               /\ [sub EXCEPT !.st = st] \in SubState
    BY DEF TypeOK, SubState
  <1>4. ASSUME NEW st \in BillingStatus, NEW by \in Providers, NEW id \in SubId \cup {Nil},
               CreateSubscription(h, st, by, id) \/ ConfirmCheckout(h, st, by, id)
        PROVE  TypeOK'
    BY <1>1, <1>2, <1>3, <1>4 DEF CreateSubscription, ConfirmCheckout
  <1>5. ASSUME NEW st \in BillingStatus, NEW id \in SubId \cup {sub.id},
               UpdateSubscription(h, st, id)
        PROVE  TypeOK'
    <2>1. id \in SubId \cup {Nil}
      BY DEF TypeOK, SubState
    <2> QED BY <1>1, <1>2, <1>3, <1>5, <2>1, StateTypes DEF UpdateSubscription, Providers
  <1>6. CASE StartTenantTrial(h)
    BY <1>1, <1>2, <1>6, StateTypes DEF StartTenantTrial, TypeOK
  <1>7. CASE ChangePlanRead(h)
    <2>1. [Idle EXCEPT !.pc = "change", !.found = (sub.st = "CANCELLED")] \in HandState
      BY StateTypes DEF HandState
    <2> QED BY <1>2, <1>7, <2>1 DEF ChangePlanRead, TypeOK, history
  <1>8. CASE ChangePlanWrite(h)
    <2> DEFINE new == IF hand[h].found THEN [sub EXCEPT !.st = "ACTIVE"] ELSE sub
    <2>1. new \in SubState
      BY <1>3 DEF TypeOK, SubState, BillingStatus
    <2>2. SetSub(h, new, Idle) /\ UNCHANGED history /\ edits' \in 0..MaxEdits
      BY <1>8 DEF ChangePlanWrite, TypeOK
    <2> QED BY <1>1, <2>1, <2>2
  <1>9. ASSUME NEW id \in SubId, RelinkSubscription(h, id)
        PROVE  TypeOK'
    <2>1. sub' \in SubState
      BY <1>9 DEF RelinkSubscription, TypeOK, SubState
    <2> QED BY <1>2, <1>9, <2>1 DEF RelinkSubscription, TypeOK, history
  <1> QED BY <1>4, <1>5, <1>6, <1>7, <1>8, <1>9 DEF Edit, Providers

LEMMA SiteEditTypes ==
  ASSUME TypeOK, SiteEdit
  PROVE  TypeOK'
  <1>1. ASSUME NEW new \in SubState, NEW status \in TenantStatus, SetSite(new, status)
        PROVE  TypeOK'
    BY <1>1, BoundAssumption DEF SetSite, TypeOK, history
  <1>2. ASSUME NEW st \in BillingStatus, UpdateSiteSubscription(st)
        PROVE  TypeOK'
    <2>1. [sub EXCEPT !.st = st] \in SubState
      BY DEF TypeOK, SubState
    <2> QED BY <1>1, <1>2, <2>1 DEF UpdateSiteSubscription, TypeOK
  <1> QED BY <1>1, <1>2, StateTypes
      DEF SiteEdit, StartSiteSubscriptionTrial, SetTenantStatus, TypeOK

LEMMA StepTypes ==
  ASSUME TypeOK, NEW h \in Handler, NEW next \in HandState, Step(h, next)
  PROVE  /\ hand' \in [Handler -> HandState]
         /\ UNCHANGED <<sub, tenant, edits, faults, adrift>>
  BY DEF Step, TypeOK

LEMMA HandlerTypes ==
  ASSUME TypeOK, NEW h \in Handler, HandlerStep(h), ~ChangePlanWrite(h),
         hand[h].pc \in {"insert", "find", "write", "settle", "catch"} => hand[h].event # Nil
  PROVE  TypeOK'
  <1> DEFINE y == hand[h]
             e == hand[h].event
  <1>1. y \in HandState /\ e \in Event \cup {Nil}
    BY DEF TypeOK, HandState
  <1>2. ASSUME NEW done \in {"PROCESSED", "IGNORED"}, NEW found \in BOOLEAN
        PROVE  /\ [y EXCEPT !.pc = "settle", !.tenant = FALSE, !.done = done] \in HandState
               /\ [y EXCEPT !.pc = "write", !.tenant = FALSE, !.found = found, !.done = done]
                    \in HandState
               /\ [y EXCEPT !.pc = "find"] \in HandState
               /\ [y EXCEPT !.pc = "settle", !.st = "none"] \in HandState
               /\ [y EXCEPT !.found = FALSE] \in HandState
    BY <1>1 DEF HandState
  <1>3. ASSUME NEW done \in {"PROCESSED", "IGNORED"}, Nothing(h, done),
               UNCHANGED <<row, answered, abandoned>>,
               applied' \in [Event -> Nat], planless' \subseteq Event
        PROVE  TypeOK'
    BY <1>2, <1>3, StepTypes DEF Nothing, TypeOK
  <1>4. ASSUME NEW found \in BOOLEAN, Apply(h, found), UNCHANGED <<row, answered, history>>
        PROVE  TypeOK'
    <2> DEFINE done == IF y.tenant \/ e.kind # "stripe" THEN "PROCESSED" ELSE "IGNORED"
    <2>1. done \in {"PROCESSED", "IGNORED"}
      OBVIOUS
    <2>2. [y EXCEPT !.pc = "write", !.tenant = FALSE, !.found = found, !.done = done] \in HandState
      BY <1>2, <2>1
    <2>3. Step(h, [y EXCEPT !.pc = "write", !.tenant = FALSE, !.found = found, !.done = done])
      BY <1>4 DEF Apply
    <2>4. /\ hand' \in [Handler -> HandState]
          /\ UNCHANGED <<sub, tenant, edits, faults, adrift>>
      BY <2>2, <2>3, StepTypes
    <2> QED BY <1>4, <2>4 DEF TypeOK, history
  <1>5. CASE InsertEvent(h)
    <2>1. CASE AnswerDuplicate(h) /\ UNCHANGED <<row, history>>
      BY <1>1, <1>5, <2>1, StateTypes, StepTypes
      DEF AnswerDuplicate, Answer, TypeOK, history, InsertEvent
    <2>2. CASE ~(AnswerDuplicate(h) /\ UNCHANGED <<row, history>>)
      <3>1. row' \in [Key -> RowState]
        BY <1>1, <1>5, <2>2, Keys DEF InsertEvent, TypeOK, RowState
      <3>2. Step(h, [y EXCEPT !.pc = "find"]) /\ UNCHANGED <<answered, history>>
        BY <1>5, <2>2 DEF InsertEvent
      <3> QED BY <1>2, <3>1, <3>2, StepTypes DEF TypeOK, history
    <2> QED BY <2>1, <2>2
  <1>6. CASE FindStripe(h)
    <2>1. Linked(e) \in BOOLEAN
      BY DEF Linked
    <2>2. e \in Event /\ UNCHANGED <<row, answered, applied, abandoned>>
      BY <1>1, <1>6 DEF FindStripe
    <2>3. CASE planless' = planless /\ Apply(h, Linked(e))
      BY <1>4, <2>1, <2>2, <2>3 DEF history
    <2>4. ASSUME NEW done \in {"PROCESSED", "IGNORED"}, Nothing(h, done),
                 planless' \in {planless, planless \cup {e}}
          PROVE  TypeOK'
      BY <1>3, <2>2, <2>4 DEF TypeOK
    <2>5. (IF y.tenant THEN "PROCESSED" ELSE "IGNORED") \in {"PROCESSED", "IGNORED"}
      OBVIOUS
    <2> QED BY <1>6, <2>3, <2>4, <2>5 DEF FindStripe
  <1>7. CASE FindCharge(h) \/ FindPaystack(h)
    BY <1>3, <1>4, <1>7 DEF FindCharge, FindPaystack, TypeOK, history
  <1>8. CASE FindInvoice(h)
    <2>1. applied' \in [Event -> Nat]
      BY <1>8 DEF FindInvoice, TypeOK
    <2> QED BY <1>3, <1>8, <2>1 DEF FindInvoice, TypeOK
  <1>9. CASE WriteSub(h)
    <2> DEFINE new == IF y.found THEN [sub EXCEPT !.st = e.status]
                      ELSE [st |-> e.status, by |-> Provider(e), id |-> e.sub]
    <2>1. e \in Event
      BY <1>1, <1>9 DEF WriteSub
    <2>2. new \in SubState
      <3>1. [sub EXCEPT !.st = e.status] \in SubState
        BY <2>1, Keys DEF TypeOK, SubState
      <3>2. [st |-> e.status, by |-> Provider(e), id |-> e.sub] \in SubState
        BY <2>1, Keys, StateTypes DEF SubState
      <3> QED BY <3>1, <3>2
    <2>3. SetSub(h, new, [y EXCEPT !.found = FALSE])
      BY <1>9 DEF WriteSub
    <2>4. /\ sub' \in SubState /\ hand' \in [Handler -> HandState] /\ adrift' \in BOOLEAN
          /\ UNCHANGED <<row, tenant, answered, faults>>
      <3>1. [y EXCEPT !.found = FALSE] \in HandState
        BY <1>1 DEF HandState
      <3> HIDE DEF new, y
      <3> QED BY <2>2, <2>3, <3>1, SetSubTypes
    <2>5. applied' \in [Event -> Nat] /\ UNCHANGED <<edits, planless, abandoned>>
      <3>1. /\ applied' = [applied EXCEPT ![e] = applied[e] + 1]
            /\ UNCHANGED <<edits, planless, abandoned>>
        BY <1>9, Zenon DEF WriteSub
      <3> QED BY <2>1, <3>1 DEF TypeOK
    <2> QED BY <2>4, <2>5 DEF TypeOK
  <1>10. CASE WriteTenant(h)
    <2>1. hand' \in [Handler -> HandState]
      BY <1>2, <1>10, StateTypes DEF WriteTenant, TypeOK
    <2> QED BY <1>10, <2>1, StateTypes DEF WriteTenant, TypeOK, history
  <1>11. CASE SettleEvent(h) \/ CatchError(h)
    <2>1. PICK st \in {"PROCESSED", "IGNORED", "FAILED"} : SettleRow(h, st) /\ e \in Event
      BY <1>1, <1>11 DEF SettleEvent, CatchError, HandState
    <2>2. row' \in [Key -> RowState]
      BY <2>1, Keys DEF SettleRow, TypeOK, RowState
    <2> QED BY <2>1, <2>2, StateTypes, StepTypes DEF SettleRow, Answer, TypeOK, history
  <1> QED BY <1>5, <1>6, <1>7, <1>8, <1>9, <1>10, <1>11 DEF HandlerStep

LEMMA DeliveryTypes ==
  ASSUME TypeOK, NEW h \in Handler,
         (\E e \in Event : Receive(h, e)) \/ ApplyFails(h) \/ HandlerDies(h)
  PROVE  TypeOK'
  <1>1. hand[h].event \in Event \cup {Nil}
    BY DEF TypeOK, HandState
  <1>2. CASE \E e \in Event : Receive(h, e)
    <2>1. PICK e \in Event, t \in BOOLEAN :
            Step(h, [Idle EXCEPT !.pc = "insert", !.event = e, !.tenant = t])
      BY <1>2 DEF Receive, Known
    <2>2. [Idle EXCEPT !.pc = "insert", !.event = e, !.tenant = t] \in HandState
      BY StateTypes DEF HandState
    <2> QED BY <1>2, <2>1, <2>2, StepTypes DEF Receive, TypeOK, history
  <1>3. CASE ApplyFails(h)
    <2>1. [Idle EXCEPT !.pc = "catch", !.event = hand[h].event] \in HandState
      BY <1>1, StateTypes DEF HandState
    <2> QED BY <1>3, <2>1, BoundAssumption DEF ApplyFails, Fault, TypeOK, history
  <1>4. CASE HandlerDies(h)
    <2>1. abandoned' \subseteq Key
      BY <1>1, <1>4, Keys DEF HandlerDies, TypeOK
    <2> QED BY <1>4, <2>1, StateTypes, BoundAssumption DEF HandlerDies, Fault, TypeOK
  <1> QED BY <1>2, <1>3, <1>4

-----------------------------------------------------------------------------
(***************************************************************************)
(* Events are applied once, and accounted for.                             *)
(***************************************************************************)

\* A step that writes no row: its handler goes on with the event it has.
LEMMA StepSound ==
  ASSUME TypeOK, Sound, NEW h \in Handler, NEW y, hand' = [hand EXCEPT ![h] = y],
         UNCHANGED <<row, applied>>, planless \subseteq planless',
         \A e \in answered' : row[e.key].st # "none",
         Fit(y, row, applied, planless'),
         Busy(y) => Busy(hand[h]) /\ y.event = hand[h].event
  PROVE  Sound'
  <1>1. \A g \in Handler : hand'[g] = IF g = h THEN y ELSE hand[g]
    BY DEF TypeOK
  <1>2. Handled'
    BY <1>1 DEF Sound, Handled, Fit, Busy
  <1>3. Alone'
    BY <1>1 DEF Sound, Alone
  <1>4. Counted' /\ Settled' /\ Filed'
    BY DEF Sound, Counted, Settled, Filed
  <1> QED BY <1>2, <1>3, <1>4 DEF Sound

\* The handler applies its event.
LEMMA ApplySound ==
  ASSUME TypeOK, Sound, NEW h \in Handler, NEW y, hand' = [hand EXCEPT ![h] = y],
         hand[h].pc \in {"find", "write"}, y.pc \in {"tenant", "settle"},
         y.event = hand[h].event,
         applied' = [applied EXCEPT ![y.event] = @ + 1], UNCHANGED <<row, planless, answered>>
  PROVE  Sound'
  <1> DEFINE e == hand[h].event
  <1>1. \A g \in Handler : hand'[g] = IF g = h THEN y ELSE hand[g]
    BY DEF TypeOK
  <1>2. /\ e \in Event /\ e.key \in Key /\ applied[e] = 0 /\ Busy(hand[h])
        /\ row[e.key].of = e /\ row[e.key].st # "none"
    BY Keys DEF Sound, Handled, Fit, Busy, Applying, TypeOK, HandState
  <1>3. \A d \in Event : applied'[d] = IF d = e THEN 1 ELSE applied[d]
    BY <1>2 DEF TypeOK
  <1>4. Handled'
    <2>1. ASSUME NEW g \in Handler, g # h
          PROVE  Fit(hand[g], row, applied', planless)
      <3>1. Fit(hand[g], row, applied, planless) /\ hand[g].event \in Event \cup {Nil}
        BY DEF Sound, Handled, TypeOK, HandState
      <3>2. Busy(hand[g]) => hand[g].event # e
        BY <1>2, <2>1 DEF Sound, Alone
      <3>3. hand[g].pc \in {"find", "write", "tenant", "settle"} /\ hand[g].event # Nil
              => applied'[hand[g].event] = applied[hand[g].event]
        BY <1>3, <3>1, <3>2 DEF Busy, Applying
      <3> QED BY <3>1, <3>3 DEF Fit
    <2>2. Fit(y, row, applied', planless)
      BY <1>2, <1>3, EventAssumption DEF Fit, Busy
    <2> QED BY <1>1, <2>1, <2>2 DEF Handled
  <1>5. Alone'
    <2>1. \A g \in Handler :
            Busy(hand'[g]) => Busy(hand[g]) /\ hand'[g].event = hand[g].event
      BY <1>1, <1>2
    <2> QED BY <2>1 DEF Sound, Alone
  <1>6. Counted'
    BY <1>2, <1>3 DEF Sound, Counted
  <1>7. Settled'
    BY <1>3, EventAssumption DEF Sound, Settled, TypeOK, RowState
  <1>8. Filed'
    BY DEF Sound, Filed
  <1> QED BY <1>4, <1>5, <1>6, <1>7, <1>8 DEF Sound

\* The handler writes the row of its event and has done.
LEMMA SettleSound ==
  ASSUME TypeOK, Sound, NEW h \in Handler, NEW st \in {"PROCESSED", "IGNORED", "FAILED"},
         SettleRow(h, st), hand[h].event # Nil, hand[h].pc \in {"settle", "catch"},
         st = "PROCESSED" => applied[hand[h].event] = 1 \/ hand[h].event \in planless
  PROVE  Sound'
  <1> DEFINE e == hand[h].event
  <1>1. \A g \in Handler : hand'[g] = IF g = h THEN Idle ELSE hand[g]
    BY DEF SettleRow, Answer, Step, TypeOK
  <1>2. /\ e \in Event /\ e.key \in Key
        /\ row[e.key].of = e /\ row[e.key].st # "none"
    BY Keys DEF Sound, Handled, Fit, Busy, Applying, TypeOK, HandState
  <1>3. \A k \in Key : /\ row'[k].of = row[k].of
                       /\ row'[k].st = IF k = e.key THEN st ELSE row[k].st
    BY <1>2 DEF SettleRow, TypeOK, RowState
  <1>4. answered' = answered \cup {e} /\ UNCHANGED <<applied, planless>>
    BY DEF SettleRow, Answer, history
  <1>5. Handled'
    <2>1. ASSUME NEW g \in Handler
          PROVE  Fit(hand'[g], row', applied, planless)
      <3>1. CASE g = h
        BY <1>1, <3>1 DEF Fit, Idle, Busy
      <3>2. CASE g # h
        <4>1. hand'[g].event \in Event \cup {Nil} /\ hand'[g] = hand[g]
          BY <1>1, <3>2 DEF TypeOK, HandState
        <4>2. Fit(hand[g], row, applied, planless)
          BY DEF Sound, Handled
        <4> QED BY <1>3, <4>1, <4>2, Keys DEF Fit, Busy
      <3> QED BY <3>1, <3>2
    <2> QED BY <1>4, <2>1 DEF Handled
  <1>6. Alone'
    <2>1. \A g \in Handler :
            Busy(hand'[g]) => Busy(hand[g]) /\ hand'[g].event = hand[g].event
      BY <1>1 DEF Busy, Idle
    <2> QED BY <2>1 DEF Sound, Alone
  <1>7. Counted'
    BY <1>3, <1>4, Keys DEF Sound, Counted
  <1>8. Settled'
    BY <1>2, <1>3, <1>4, EventAssumption DEF Sound, Settled
  <1>9. Filed'
    BY <1>2, <1>3, <1>4, Keys DEF Sound, Filed, TypeOK
  <1> QED BY <1>5, <1>6, <1>7, <1>8, <1>9 DEF Sound

\* The handler inserts the row of its event.
LEMMA InsertSound ==
  ASSUME TypeOK, Sound, NEW h \in Handler, InsertEvent(h)
  PROVE  Sound'
  <1> DEFINE e == hand[h].event
             y == [hand[h] EXCEPT !.pc = "find"]
  <1>1. e \in Event /\ e.key \in Key
    BY Keys DEF InsertEvent, Sound, Handled, Fit, TypeOK, HandState
  <1>2. CASE Duplicate(e) /\ AnswerDuplicate(h) /\ UNCHANGED <<row, history>>
    <2>1. Fit(Idle, row, applied, planless) /\ ~Busy(Idle)
      BY DEF Fit, Busy, Idle
    <2> QED BY <1>2, <2>1, StepSound
        DEF Duplicate, AnswerDuplicate, Answer, Step, history, Sound, Filed
  <1>3. CASE ~(Duplicate(e) /\ AnswerDuplicate(h) /\ UNCHANGED <<row, history>>)
    <2>1. /\ row[e.key].st = "none"
          /\ row' = [row EXCEPT ![e.key] = [st |-> "RECEIVED", of |-> e]]
          /\ hand' = [hand EXCEPT ![h] = y]
          /\ UNCHANGED <<answered, applied, planless>>
      BY <1>3 DEF InsertEvent, Duplicate, Step, history
    <2>2. \A g \in Handler : hand'[g] = IF g = h THEN y ELSE hand[g]
      BY <2>1 DEF TypeOK
    <2>3. \A k \in Key :
            row'[k] = IF k = e.key THEN [st |-> "RECEIVED", of |-> e] ELSE row[k]
      BY <1>1, <2>1 DEF TypeOK
    <2>4. y.pc = "find" /\ y.event = e
      BY DEF TypeOK, HandState
    <2>5. \A g \in Handler : Busy(hand[g]) => hand[g].event \in Event /\ hand[g].event.key # e.key
      BY <2>1 DEF Sound, Handled, Fit, Busy, TypeOK, HandState
    <2>6. applied[e] = 0
      BY <1>1, <2>1 DEF Sound, Counted
    <2>7. Handled'
      <3>1. Fit(y, row', applied, planless)
        BY <1>1, <2>3, <2>4, <2>6, EventAssumption DEF Fit
      <3>2. ASSUME NEW g \in Handler
            PROVE  Fit(hand[g], row', applied, planless)
        <4>1. Fit(hand[g], row, applied, planless)
          BY DEF Sound, Handled
        <4> QED BY <2>3, <2>5, <4>1, Keys DEF Fit
      <3> QED BY <2>1, <2>2, <3>1, <3>2 DEF Handled
    <2>8. Alone'
      BY <2>2, <2>4, <2>5, ZenonT(30) DEF Sound, Alone
    <2>9. Counted'
      BY <2>1, <2>3, Keys DEF Sound, Counted
    <2>10. Settled' /\ Filed'
      BY <1>1, <2>1, <2>3, Keys, EventAssumption DEF Sound, Settled, Filed, TypeOK
    <2> QED BY <2>7, <2>8, <2>9, <2>10 DEF Sound
  <1> QED BY <1>2, <1>3

LEMMA FindSound ==
  ASSUME TypeOK, Sound, NEW h \in Handler,
         FindStripe(h) \/ FindCharge(h) \/ FindPaystack(h) \/ FindInvoice(h)
  PROVE  Sound'
  <1> DEFINE e == hand[h].event
  <1>1. /\ e \in Event /\ Busy(hand[h]) /\ hand[h] \in HandState
        /\ row[e.key].of = e /\ row[e.key].st # "none" /\ applied[e] = 0
    BY DEF FindStripe, FindCharge, FindPaystack, FindInvoice, Sound, Handled, Fit, Busy,
           Applying, TypeOK, HandState
  <1>2. \A d \in answered : row[d.key].st # "none"
    BY DEF Sound, Filed
  <1>3. ASSUME NEW found, NEW lost, Apply(h, found), UNCHANGED <<row, answered, history>>
        PROVE  Sound'
    <2> DEFINE done == IF hand[h].tenant \/ e.kind # "stripe" THEN "PROCESSED" ELSE "IGNORED"
               y == [hand[h] EXCEPT !.pc = "write", !.tenant = FALSE, !.found = found,
                                    !.done = done]
    <2>1. hand' = [hand EXCEPT ![h] = y]
      BY <1>3 DEF Apply, Step
    <2>2. y.pc = "write" /\ y.event = e
      BY <1>1 DEF HandState
    <2> HIDE DEF y
    <2>3. Fit(y, row, applied, planless)
      BY <1>1, <2>2 DEF Fit, Busy
    <2> QED BY <1>1, <1>2, <1>3, <2>1, <2>2, <2>3, StepSound DEF history
  <1>4. ASSUME NEW done, Nothing(h, done), done = "PROCESSED" => e \in planless',
               planless \subseteq planless', UNCHANGED <<row, answered, applied>>
        PROVE  Sound'
    <2> DEFINE y == [hand[h] EXCEPT !.pc = "settle", !.tenant = FALSE, !.done = done]
    <2>1. hand' = [hand EXCEPT ![h] = y]
      BY <1>4 DEF Nothing, Step
    <2>2. y.pc = "settle" /\ y.event = e /\ y.done = done
      BY <1>1 DEF HandState
    <2> HIDE DEF y
    <2>3. Fit(y, row, applied, planless')
      BY <1>1, <1>4, <2>2 DEF Fit, Busy
    <2> QED BY <1>1, <1>2, <1>4, <2>1, <2>2, <2>3, StepSound
  <1>5. CASE FindStripe(h)
    BY <1>3, <1>4, <1>5 DEF FindStripe, history
  <1>6. CASE FindCharge(h) \/ FindPaystack(h)
    BY <1>3, <1>4, <1>6 DEF FindCharge, FindPaystack, history
  <1>7. CASE FindInvoice(h)
    <2>1. CASE UNCHANGED applied /\ Nothing(h, "IGNORED")
      BY <1>4, <1>7, <2>1 DEF FindInvoice
    <2>2. CASE Nothing(h, "PROCESSED") /\ applied' = [applied EXCEPT ![e] = @ + 1]
      <3> DEFINE y == [hand[h] EXCEPT !.pc = "settle", !.tenant = FALSE, !.done = "PROCESSED"]
      <3>1. hand' = [hand EXCEPT ![h] = y]
        BY <2>2 DEF Nothing, Step
      <3>2. y.pc = "settle" /\ y.event = e
        BY <1>1 DEF HandState
      <3> HIDE DEF y
      <3> QED BY <1>7, <2>2, <3>1, <3>2, ApplySound DEF FindInvoice
    <2> QED BY <1>7, <2>1, <2>2 DEF FindInvoice
  <1> QED BY <1>5, <1>6, <1>7

LEMMA HandlerSound ==
  ASSUME TypeOK, Sound, NEW h \in Handler, HandlerStep(h), ~ChangePlanWrite(h)
  PROVE  Sound'
  <1> DEFINE e == hand[h].event
  <1>1. /\ hand[h] \in HandState /\ Fit(hand[h], row, applied, planless)
        /\ \A d \in answered : row[d.key].st # "none"
    BY DEF Sound, Handled, Filed, TypeOK
  <1>2. CASE WriteSub(h)
    <2>1. PICK y : /\ hand' = [hand EXCEPT ![h] = y]
                   /\ y.pc = "tenant" /\ y.event = e
                   /\ applied' = [applied EXCEPT ![e] = @ + 1]
                   /\ UNCHANGED <<row, planless, answered>>
      BY <1>1, <1>2 DEF WriteSub, SetSub, HandState
    <2> QED BY <1>2, <2>1, ApplySound DEF WriteSub
  <1>3. CASE WriteTenant(h)
    <2>1. CASE e = Nil
      <3>1. Fit(Idle, row, applied, planless) /\ ~Busy(Idle)
        BY DEF Fit, Busy, Idle
      <3> QED BY <1>1, <1>3, <2>1, <3>1, StepSound DEF WriteTenant, history
    <2>2. CASE e # Nil
      <3> DEFINE y == [hand[h] EXCEPT !.pc = "settle", !.st = "none"]
      <3>1. hand' = [hand EXCEPT ![h] = y]
        BY <1>3, <2>2 DEF WriteTenant
      <3>2. y.pc = "settle" /\ y.event = e
        BY <1>1 DEF HandState
      <3> HIDE DEF y
      <3>3. Fit(y, row, applied, planless) /\ (Busy(y) => Busy(hand[h]))
        BY <1>1, <1>3, <2>2, <3>2 DEF Fit, Busy, Applying, WriteTenant
      <3> QED BY <1>1, <1>3, <3>1, <3>2, <3>3, StepSound DEF WriteTenant, history
    <2> QED BY <2>1, <2>2
  <1>4. CASE SettleEvent(h)
    BY <1>1, <1>4, SettleSound DEF SettleEvent, Fit, HandState
  <1>5. CASE CatchError(h)
    BY <1>1, <1>5, SettleSound DEF CatchError, Fit
  <1> QED BY <1>2, <1>3, <1>4, <1>5, InsertSound, FindSound DEF HandlerStep

LEMMA OtherSound ==
  ASSUME TypeOK, Sound, NEW h \in Handler,
         \/ Edit(h) \/ ChangePlanWrite(h) \/ ApplyFails(h) \/ HandlerDies(h)
         \/ \E e \in Event : Receive(h, e)
  PROVE  Sound'
  <1> DEFINE e == hand[h].event
  <1>1. /\ hand[h] \in HandState /\ Fit(hand[h], row, applied, planless)
        /\ \A d \in answered : row[d.key].st # "none"
    BY DEF Sound, Handled, Filed, TypeOK
  <1>2. CASE Edit(h) \/ ChangePlanWrite(h)
    <2>1. UNCHANGED <<row, applied, planless, answered>>
      BY <1>2
      DEF Edit, ChangePlanWrite, ChangePlanRead, StartTenantTrial, ConfirmCheckout,
          UpdateSubscription, RelinkSubscription, CreateSubscription, SetSub, history
    <2>2. ASSUME NEW y, hand' = [hand EXCEPT ![h] = y],
                 y.pc \in {"tenant", "change"}, y.event = Nil
          PROVE  Sound'
      <3>1. Fit(y, row, applied, planless) /\ ~Busy(y)
        BY <2>2 DEF Fit, Busy
      <3> QED BY <1>1, <2>1, <2>2, <3>1, StepSound
    <2>3. ASSUME NEW new, SetSub(h, new, Idle)
          PROVE  Sound'
      <3> DEFINE y == [Idle EXCEPT !.pc = "tenant", !.st = new.st]
      <3>1. hand' = [hand EXCEPT ![h] = y]
        BY <2>3 DEF SetSub
      <3>2. y.pc = "tenant" /\ y.event = Nil
        BY DEF Idle
      <3> HIDE DEF y
      <3> QED BY <2>2, <3>1, <3>2
    <2>4. CASE ChangePlanRead(h)
      <3> DEFINE y == [Idle EXCEPT !.pc = "change", !.found = (sub.st = "CANCELLED")]
      <3>1. hand' = [hand EXCEPT ![h] = y]
        BY <2>4 DEF ChangePlanRead
      <3>2. y.pc = "change" /\ y.event = Nil
        BY DEF Idle
      <3> HIDE DEF y
      <3> QED BY <2>2, <3>1, <3>2
    <2>5. ASSUME NEW id, RelinkSubscription(h, id) PROVE Sound'
      BY <2>5 DEF RelinkSubscription, history, Sound, Handled, Alone, Counted, Settled, Filed
    <2> QED BY <1>2, <2>3, <2>4, <2>5
        DEF Edit, ChangePlanWrite, StartTenantTrial, ConfirmCheckout, UpdateSubscription,
            CreateSubscription
  <1>3. CASE ApplyFails(h)
    <2> DEFINE y == [Idle EXCEPT !.pc = "catch", !.event = e]
    <2>1. hand' = [hand EXCEPT ![h] = y]
      BY <1>3 DEF ApplyFails
    <2>2. y.pc = "catch" /\ y.event = e
      BY DEF Idle
    <2> HIDE DEF y
    <2>3. Fit(y, row, applied, planless) /\ Busy(hand[h])
      BY <1>1, <1>3, <2>2 DEF Fit, Busy, Applying, ApplyFails
    <2> QED BY <1>1, <1>3, <2>1, <2>2, <2>3, StepSound DEF ApplyFails, history
  <1>4. CASE HandlerDies(h)
    <2>1. Fit(Idle, row, applied, planless) /\ ~Busy(Idle)
      BY DEF Fit, Busy, Idle
    <2> QED BY <1>1, <1>4, <2>1, StepSound DEF HandlerDies
  <1>5. ASSUME NEW d \in Event, Receive(h, d)
        PROVE  Sound'
    <2>1. PICK t \in Known(d) : Step(h, [Idle EXCEPT !.pc = "insert", !.event = d, !.tenant = t])
      BY <1>5 DEF Receive
    <2> DEFINE y == [Idle EXCEPT !.pc = "insert", !.event = d, !.tenant = t]
    <2>2. hand' = [hand EXCEPT ![h] = y]
      BY <2>1 DEF Step
    <2>3. y.pc = "insert" /\ y.event = d
      BY DEF Idle
    <2> HIDE DEF y
    <2>4. Fit(y, row, applied, planless) /\ ~Busy(y)
      BY <2>3, EventAssumption DEF Fit, Busy, Applying
    <2> QED BY <1>1, <1>5, <2>2, <2>4, StepSound DEF Receive, history
  <1> QED BY <1>2, <1>3, <1>4, <1>5

-----------------------------------------------------------------------------
(***************************************************************************)
(* The tenant's status follows the subscription's.                         *)
(***************************************************************************)
LEMMA SetSubAligned ==
  ASSUME TypeOK, NEW h \in Handler, NEW new, NEW next \in HandState, SetSub(h, new, next)
  PROVE  Aligned' /\ TenantFollows'
  <1>1. \A g \in Handler : /\ g # h => hand'[g] = hand[g]
                           /\ g = h => hand'[g].pc = "tenant" /\ hand'[g].st = new.st
    <2> DEFINE y == [next EXCEPT !.pc = "tenant", !.st = new.st]
    <2>1. y.pc = "tenant" /\ y.st = new.st
      BY DEF HandState
    <2>2. hand' = [hand EXCEPT ![h] = y]
      BY DEF SetSub
    <2> HIDE DEF y
    <2> QED BY <2>1, <2>2 DEF TypeOK
  <1>2. sub' = new /\ (~adrift' => \A g \in Handler \ {h} : hand[g].pc # "tenant")
    BY DEF SetSub, Owing
  <1> QED BY <1>1, <1>2 DEF Aligned, TenantFollows

LEMMA QuietAligned ==
  ASSUME TypeOK, Aligned, TenantFollows, NEW h \in Handler, NEW y,
         hand' = [hand EXCEPT ![h] = y], y.pc # "tenant", hand[h].pc # "tenant",
         UNCHANGED <<sub, tenant, adrift>>
  PROVE  Aligned' /\ TenantFollows'
  <1>1. \A g \in Handler : hand'[g] = IF g = h THEN y ELSE hand[g]
    BY DEF TypeOK
  <1> QED BY <1>1 DEF Aligned, TenantFollows

LEMMA NextAligned ==
  ASSUME TypeOK, Aligned, TenantFollows, Next
  PROVE  Aligned' /\ TenantFollows'
  <1>1. Idle \in HandState /\ Idle.pc = "idle"
    BY StateTypes DEF Idle
  <1>2. ASSUME NEW h \in Handler, Edit(h) \/ ChangePlanWrite(h)
        PROVE  Aligned' /\ TenantFollows'
    <2>1. CASE ChangePlanRead(h)
      <3> DEFINE y == [Idle EXCEPT !.pc = "change", !.found = (sub.st = "CANCELLED")]
      <3>1. y.pc # "tenant"
        BY DEF Idle
      <3>2. /\ hand' = [hand EXCEPT ![h] = y] /\ hand[h].pc # "tenant"
            /\ UNCHANGED <<sub, tenant, adrift>>
        BY <2>1 DEF ChangePlanRead, OneMore
      <3> HIDE DEF y
      <3> QED BY <3>1, <3>2, QuietAligned
    <2>2. ASSUME NEW id, RelinkSubscription(h, id)
          PROVE  Aligned' /\ TenantFollows'
      <3>1. sub'.st = sub.st
        BY <2>2 DEF RelinkSubscription, TypeOK, SubState
      <3> QED BY <2>2, <3>1 DEF RelinkSubscription, Aligned, TenantFollows
    <2> QED BY <1>1, <1>2, <2>1, <2>2, SetSubAligned
        DEF Edit, ChangePlanWrite, StartTenantTrial, ConfirmCheckout, UpdateSubscription,
            CreateSubscription
  <1>3. ASSUME NEW h \in Handler, NEW y, Step(h, y), y.pc # "tenant", hand[h].pc # "tenant"
        PROVE  Aligned' /\ TenantFollows'
    BY <1>3, QuietAligned DEF Step
  <1>4. ASSUME NEW h \in Handler, InsertEvent(h) \/ SettleEvent(h) \/ CatchError(h)
        PROVE  Aligned' /\ TenantFollows'
    <2>1. [hand[h] EXCEPT !.pc = "find"].pc # "tenant"
      BY DEF TypeOK, HandState
    <2>2. hand[h].pc # "tenant"
      BY <1>4 DEF InsertEvent, SettleEvent, CatchError
    <2> QED BY <1>1, <1>3, <1>4, <2>1, <2>2
        DEF InsertEvent, AnswerDuplicate, SettleEvent, CatchError, SettleRow, Answer
  <1>5. ASSUME NEW h \in Handler,
               FindStripe(h) \/ FindCharge(h) \/ FindPaystack(h) \/ FindInvoice(h)
        PROVE  Aligned' /\ TenantFollows'
    <2>1. hand[h] \in HandState /\ hand[h].pc # "tenant"
      BY <1>5 DEF FindStripe, FindCharge, FindPaystack, FindInvoice, TypeOK
    <2>2. ASSUME NEW done, Nothing(h, done)
          PROVE  Aligned' /\ TenantFollows'
      <3>1. [hand[h] EXCEPT !.pc = "settle", !.tenant = FALSE, !.done = done].pc # "tenant"
        BY <2>1 DEF HandState
      <3> QED BY <1>3, <2>1, <2>2, <3>1 DEF Nothing
    <2>3. ASSUME NEW found, Apply(h, found)
          PROVE  Aligned' /\ TenantFollows'
      <3> DEFINE done == IF hand[h].tenant \/ hand[h].event.kind # "stripe"
                         THEN "PROCESSED" ELSE "IGNORED"
                 y == [hand[h] EXCEPT !.pc = "write", !.tenant = FALSE, !.found = found,
                                      !.done = done]
      <3>1. y.pc # "tenant"
        BY <2>1 DEF HandState
      <3>2. Step(h, y)
        BY <2>3 DEF Apply
      <3> HIDE DEF y
      <3> QED BY <1>3, <2>1, <3>1, <3>2
    <2> QED BY <1>5, <2>2, <2>3 DEF FindStripe, FindCharge, FindPaystack, FindInvoice
  <1>6. ASSUME NEW h \in Handler, WriteSub(h)
        PROVE  Aligned' /\ TenantFollows'
    <2>1. [hand[h] EXCEPT !.found = FALSE] \in HandState
      BY DEF TypeOK, HandState
    <2> QED BY <1>6, <2>1, SetSubAligned DEF WriteSub
  <1>7. ASSUME NEW h \in Handler, WriteTenant(h)
        PROVE  Aligned' /\ TenantFollows'
    <2>1. \A g \in Handler : /\ g # h => hand'[g] = hand[g]
                             /\ g = h => hand'[g].pc # "tenant"
      BY <1>1, <1>7 DEF WriteTenant, TypeOK, HandState
    <2>2. hand[h].pc = "tenant" /\ tenant' = TenantOf(hand[h].st) /\ UNCHANGED <<sub, adrift>>
      BY <1>7 DEF WriteTenant
    <2> QED BY <2>1, <2>2 DEF Aligned, TenantFollows
  <1>8. ASSUME NEW h \in Handler, NEW y, hand' = [hand EXCEPT ![h] = y], y.pc # "tenant",
               adrift' = (adrift \/ hand[h].pc = "tenant"), UNCHANGED <<sub, tenant>>
        PROVE  Aligned' /\ TenantFollows'
    <2>1. CASE hand[h].pc = "tenant"
      BY <1>8, <2>1 DEF Aligned, TenantFollows
    <2>2. CASE hand[h].pc # "tenant"
      BY <1>8, <2>2, QuietAligned DEF TypeOK
    <2> QED BY <2>1, <2>2
  <1>9. ASSUME NEW h \in Handler, ApplyFails(h) \/ HandlerDies(h)
        PROVE  Aligned' /\ TenantFollows'
    <2>1. [Idle EXCEPT !.pc = "catch", !.event = hand[h].event].pc # "tenant"
      BY DEF Idle
    <2> QED BY <1>1, <1>8, <1>9, <2>1 DEF ApplyFails, HandlerDies
  <1>10. ASSUME NEW h \in Handler, NEW e \in Event, Receive(h, e)
        PROVE  Aligned' /\ TenantFollows'
    <2>1. \A t : [Idle EXCEPT !.pc = "insert", !.event = e, !.tenant = t].pc # "tenant"
      BY DEF Idle
    <2> QED BY <1>3, <1>10, <2>1 DEF Receive
  <1>11. CASE SiteEdit
    BY <1>11
    DEF SiteEdit, UpdateSiteSubscription, StartSiteSubscriptionTrial, SetTenantStatus, SetSite,
        Aligned, TenantFollows
  <1> QED BY <1>2, <1>4, <1>5, <1>6, <1>7, <1>9, <1>10, <1>11 DEF Next, HandlerStep

-----------------------------------------------------------------------------

Inv == TypeOK /\ Sound /\ Aligned /\ TenantFollows

LEMMA NextInv == Inv /\ [Next]_vars => Inv'
  <1> SUFFICES ASSUME Inv, [Next]_vars PROVE Inv'
    OBVIOUS
  <1>1. TypeOK /\ Sound /\ Aligned /\ TenantFollows
    BY DEF Inv
  <1>2. CASE UNCHANGED vars
    BY <1>2
    DEF vars, history, Inv, TypeOK, Sound, Handled, Alone, Counted, Settled, Filed, Aligned,
        TenantFollows
  <1>3. CASE Next
    <2>1. Aligned' /\ TenantFollows'
      BY <1>1, <1>3, NextAligned
    <2>2. TypeOK' /\ Sound'
      <3>1. ASSUME NEW h \in Handler, HandlerStep(h), ~ChangePlanWrite(h)
            PROVE  TypeOK' /\ Sound'
        <4>1. hand[h].pc \in {"insert", "find", "write", "settle", "catch"} => hand[h].event # Nil
          BY <1>1 DEF Sound, Handled, Fit
        <4> QED BY <1>1, <3>1, <4>1, HandlerTypes, HandlerSound
      <3>2. ASSUME NEW h \in Handler, Edit(h) \/ ChangePlanWrite(h)
            PROVE  TypeOK' /\ Sound'
        BY <1>1, <3>2, EditTypes, OtherSound
      <3>3. ASSUME NEW h \in Handler,
                   (\E e \in Event : Receive(h, e)) \/ ApplyFails(h) \/ HandlerDies(h)
            PROVE  TypeOK' /\ Sound'
        BY <1>1, <3>3, DeliveryTypes, OtherSound
      <3>4. CASE SiteEdit
        <4>1. UNCHANGED <<row, hand, answered, applied, planless>>
          BY <3>4
          DEF SiteEdit, UpdateSiteSubscription, StartSiteSubscriptionTrial, SetTenantStatus,
              SetSite, history
        <4>2. Sound'
          BY <1>1, <4>1 DEF Sound, Handled, Alone, Counted, Settled, Filed
        <4> QED BY <1>1, <3>4, <4>2, SiteEditTypes
      <3> QED BY <1>3, <3>1, <3>2, <3>3, <3>4 DEF Next
    <2> QED BY <2>1, <2>2 DEF Inv
  <1> QED BY <1>2, <1>3

LEMMA InvHolds == Spec => []Inv
  <1>1. Init => Inv
    BY InitSound DEF Inv
  <1> QED BY <1>1, NextInv, PTL DEF Spec

(***************************************************************************)
(* Rows of events, the subscription, the tenant and the handlers are well  *)
(* typed, whatever is delivered and written.                               *)
(***************************************************************************)
THEOREM BillingTypes == Spec => []TypeOK
  <1>1. Inv => TypeOK
    BY DEF Inv
  <1> QED BY <1>1, InvHolds, PTL

(***************************************************************************)
(* processStripeWebhook and processPaystackWebhook apply the events of one *)
(* key once in all, however deliveries of them overlap and repeat.         *)
(***************************************************************************)
THEOREM EventsAppliedOnce == Spec => []AppliedOnce
  <1>1. Inv => AppliedOnce
    BY DEF Inv, Sound, Counted, AppliedOnce, TypeOK
  <1> QED BY <1>1, InvHolds, PTL

(***************************************************************************)
(* An event that was answered was applied, or its row tells why not, or    *)
(* the row is another event's, or its plan was not found.                  *)
(***************************************************************************)
THEOREM AnswersAccounted == Spec => []Accounted
  <1>1. Inv => Accounted
    <2> SUFFICES ASSUME Inv, NEW e \in answered
                 PROVE  \/ applied[e] = 1
                        \/ row[e.key].st \in {"FAILED", "IGNORED", "RECEIVED"}
                        \/ row[e.key].of # e
                        \/ e \in planless
      BY DEF Accounted
    <2>1. e.key \in Key /\ row[e.key].st # "none" /\ row[e.key] \in RowState
      BY Keys DEF Inv, TypeOK, Sound, Filed
    <2> QED BY <2>1 DEF Inv, Sound, Settled, RowState
  <1> QED BY <1>1, InvHolds, PTL

(***************************************************************************)
(* updateTenantStatusFromBilling leaves the tenant with the status that    *)
(* its subscription demands, unless the two statements were torn apart.    *)
(***************************************************************************)
THEOREM TenantStatusFollows == Spec => []TenantFollows
  <1>1. Inv => TenantFollows
    BY DEF Inv
  <1> QED BY <1>1, InvHolds, PTL
=============================================================================
