-------------------------- MODULE ApprovalsProofs --------------------------
(***************************************************************************)
(* Proofs about Approvals: its types, the grounds of every decision, and   *)
(* the agreement of an approval with its steps while requests do not       *)
(* overlap, for any number of approvals, steps and requests.               *)
(*                                                                         *)
(* The inductive invariant says what a request that has read an approval   *)
(* may still rely on when it writes:                                       *)
(*   - References: the rows it names exist;                                *)
(*   - StepsOnGrounds, VerdictOnGrounds: a decided step, and a verdict     *)
(*     that was computed but not written yet, rest on decisions taken      *)
(*     since the approval was opened;                                      *)
(*   - ReadsStillHold: a request that is alone on an approval finds it as  *)
(*     it read it.                                                         *)
(***************************************************************************)
EXTENDS Approvals, TLAPS

AtWork == Deciding \cup {"decide", "cancel", "reopen"}

Reference(q) ==
    /\ q.a \in Approval => Exists(q.a)
    /\ q.pc \in AtWork <=> q.a \in Approval
    /\ q.pc \in Deciding \cup {"decide"} => q.i \in Steps(q.a) /\ q.as \in Decision
    /\ q.pc = "settle" => q.next \in ApprovalStatus
    /\ q.pc = "create" => q.steps # NoSteps
References == \A r \in Request : Reference(req[r])

\* Step j of a is decided as v once r commits.
Backed(r, j, v) ==
    (j = req[r].i /\ v = req[r].as) \/ <<j, v>> \in said[req[r].a]

StepsOnGrounds ==
    \A a \in Approval, i \in Order :
        step[a][i].st \in Decision => <<i, step[a][i].st>> \in said[a]

VerdictOnGrounds ==
    \A r \in Request : req[r].pc = "settle" =>
        /\ req[r].next = "APPROVED" =>
              \A j \in Required(req[r].a) : Backed(r, j, "APPROVED")
        /\ req[r].next = "REJECTED" =>
              \E j \in Required(req[r].a) : Backed(r, j, "REJECTED")

ReadStillHolds(r) ==
    LET a == req[r].a IN
    /\ \A q \in Request : req[q].a = a => q = r
    /\ req[r].pc \in Deciding \cup {"decide"} =>
          app[a] = "PENDING" /\ step[a][req[r].i].st = "PENDING"
    /\ req[r].pc = "settle" => req[r].next = Verdict(Required(a), Seen(r))
    /\ req[r].pc = "cancel" => app[a] = "PENDING"
ReadsStillHold ==
    \A r \in Request : req[r].a \in Approval \ overlap => ReadStillHolds(r)

Grounds == TypeOK /\ References /\ StepsOnGrounds /\ VerdictOnGrounds /\ DecidedOnGrounds

\* StatusMatchesSteps, for one approval.
Matches(a) ==
    /\ app[a] = "PENDING" =>
          /\ Open(a) # {}
          /\ \A i \in Required(a) : step[a][i].st \in {"PENDING", "APPROVED"}
    /\ app[a] = "APPROVED" => \A i \in Required(a) : step[a][i].st = "APPROVED"
    /\ app[a] = "REJECTED" => \E i \in Required(a) : step[a][i].st = "REJECTED"
    /\ app[a] = "CANCELLED" => Open(a) = {}

HaveSteps == \A a \in Approval : Exists(a) => Steps(a) # {}
Agreement == ReadsStillHold /\ StatusMatchesSteps /\ HaveSteps

-----------------------------------------------------------------------------

LEMMA NilIsNothing == Nil \notin Approval /\ Nil \notin Order
  BY NilAssumption

LEMMA InitGrounds == Init => Grounds
  <1> SUFFICES ASSUME Init PROVE Grounds
    OBVIOUS
  <1>1. NoSteps \in Template
    BY DEF NoSteps, Template
  <1>2. Idle \in ReqState
    BY <1>1 DEF Idle, ReqState, Pc
  <1>3. TypeOK
    BY <1>1, <1>2 DEF Init, TypeOK, DefState, StepState, ApprovalStatus
  <1>4. References
    BY NilIsNothing DEF Init, References, Reference, Idle, AtWork, Deciding
  <1> QED
    BY <1>3, <1>4
    DEF Init, Grounds, StepsOnGrounds, VerdictOnGrounds, DecidedOnGrounds, Idle, Decision

LEMMA InitAgreement == Init => Agreement
  BY NilIsNothing
  DEF Init, Agreement, ReadsStillHold, StatusMatchesSteps, HaveSteps, Exists, Idle, ApprovalStatus

-----------------------------------------------------------------------------
(***************************************************************************)
(* Types and references.                                                   *)
(***************************************************************************)

LEMMA DefineTypes ==
  ASSUME TypeOK, Define
  PROVE  def' \in [Definition -> DefState] /\ UNCHANGED <<app, step, req, said, overlap>>
  <1>1. PICK d \in Definition :
           \/ \E active \in BOOLEAN, steps \in Templates :
                 CreateDefinition(d, active, steps) \/ UpdateDefinition(d, active, steps)
           \/ ArchiveDefinition(d)
           \/ RestoreDefinition(d)
    BY DEF Define
  <1>2. ASSUME NEW active \in BOOLEAN, NEW steps \in Templates, CreateDefinition(d, active, steps)
        PROVE  def' \in [Definition -> DefState]
    BY <1>2, TemplatesAssumption DEF TypeOK, CreateDefinition, DefState
  <1>3. ASSUME NEW active \in BOOLEAN, NEW steps \in Templates, UpdateDefinition(d, active, steps)
        PROVE  def' \in [Definition -> DefState]
    BY <1>3, TemplatesAssumption, ZenonT(30) DEF TypeOK, UpdateDefinition, DefState
  <1>4. ASSUME ArchiveDefinition(d) PROVE def' \in [Definition -> DefState]
    BY <1>4, ZenonT(30) DEF TypeOK, ArchiveDefinition, DefState
  <1>5. ASSUME RestoreDefinition(d) PROVE def' \in [Definition -> DefState]
    BY <1>5 DEF TypeOK, RestoreDefinition, DefState
  <1> QED
    BY <1>1, <1>2, <1>3, <1>4, <1>5
    DEF CreateDefinition, UpdateDefinition, ArchiveDefinition, RestoreDefinition

LEMMA IdleType == Idle \in ReqState
  BY DEF Idle, ReqState, Pc, NoSteps, Template

\* What the end of the requests P leaves of req.
Ending(P) == req' = [q \in Request |-> IF q \in P THEN Idle ELSE req[q]]

LEMMA EndTypes ==
  ASSUME TypeOK, References, NEW P, Ending(P),
         app' \in [Approval -> ApprovalStatus \cup {"none"}],
         step' \in [Approval -> [Order -> StepState]],
         \A b \in Approval : Exists(b) => Exists(b)',
         \A b \in Approval : Steps(b)' = Steps(b),
         UNCHANGED def, said' \in [Approval -> SUBSET (Order \X Decision)],
         overlap' \subseteq Approval
  PROVE  TypeOK' /\ References'
  <1>1. TypeOK'
    BY IdleType DEF TypeOK, Ending
  <1> QED
    BY <1>1, NilIsNothing DEF TypeOK, References, Reference, Ending, Idle, AtWork, Deciding

GivenWay(r) == Ending({r}) /\ UNCHANGED <<def, app, step, said, overlap>>

\* The fields that cancel, reopen and settle leave behind.
Cancelled(r) ==
    LET a == req[r].a IN
    /\ a \in Approval
    /\ Ending({r} \cup Holders(a, Open(a)))
    /\ \A b \in Approval : app'[b] = IF b = a THEN "CANCELLED" ELSE app[b]
    /\ \A b \in Approval, i \in Order :
          step'[b][i].st = IF b = a /\ i \in Open(a) THEN "CANCELLED" ELSE step[b][i].st
    /\ UNCHANGED <<def, said, overlap>>

Reopened(r) ==
    LET a == req[r].a IN
    /\ a \in Approval
    /\ Ending({r} \cup Holders(a, Steps(a)))
    /\ \A b \in Approval : app'[b] = IF b = a THEN "PENDING" ELSE app[b]
    /\ \A b \in Approval, i \in Order :
          step'[b][i].st = IF b = a THEN "PENDING" ELSE step[b][i].st
    /\ \A b \in Approval : said'[b] = IF b = a THEN {} ELSE said[b]
    /\ overlap' = IF On(a) = {r} THEN overlap \ {a} ELSE overlap

Settled(r) ==
    LET a == req[r].a IN
    /\ a \in Approval /\ req[r].i \in Steps(a) /\ req[r].as \in Decision
    /\ req[r].next \in ApprovalStatus /\ req[r].pc = "settle"
    /\ Ending({r})
    /\ \A b \in Approval : app'[b] = IF b = a THEN req[r].next ELSE app[b]
    /\ \A b \in Approval, i \in Order :
          step'[b][i].st = IF b = a /\ i = req[r].i THEN req[r].as ELSE step[b][i].st
    /\ \A b \in Approval :
          said'[b] = IF b = a THEN said[a] \cup {<<req[r].i, req[r].as>>} ELSE said[b]
    /\ UNCHANGED <<def, overlap>>

LEMMA GiveWayEffect ==
  ASSUME TypeOK, NEW r \in Request, NEW S, GiveWay(r, S)
  PROVE  GivenWay(r)
  BY DEF GiveWay, GivenWay, Ending, TypeOK

\* The write of cancel or reopen: the approval, and the status of its steps.
LEMMA CancelEffect ==
  ASSUME TypeOK, References, NEW r \in Request, CancelApproval(r)
  PROVE  /\ \E P \in SUBSET Request : Ending(P)
         /\ app' \in [Approval -> ApprovalStatus \cup {"none"}]
         /\ step' \in [Approval -> [Order -> StepState]]
         /\ \A b \in Approval : Exists(b) => Exists(b)'
         /\ \A b \in Approval : Steps(b)' = Steps(b) /\ Required(b)' = Required(b)
         /\ GivenWay(r) \/ Cancelled(r)
         /\ UNCHANGED def
         /\ said' \in [Approval -> SUBSET (Order \X Decision)]
         /\ overlap' \subseteq Approval
  <1>1. CASE GiveWay(r, Open(req[r].a))
    BY <1>1, GiveWayEffect DEF GivenWay, TypeOK, Exists, Steps, Required
  <1>2. CASE ~GiveWay(r, Open(req[r].a))
    <2>1. /\ app' = [app EXCEPT ![req[r].a] = "CANCELLED"]
          /\ step' = [step EXCEPT ![req[r].a] =
                        [i \in Order |-> IF i \in Open(req[r].a)
                                         THEN [step[req[r].a][i] EXCEPT !.st = "CANCELLED"]
                                         ELSE step[req[r].a][i]]]
          /\ Overrule(r, Open(req[r].a))
          /\ UNCHANGED <<def, said, overlap>>
      BY <1>2 DEF CancelApproval
    <2>2. req[r].a \in Approval
      BY DEF CancelApproval, References, Reference, AtWork
    <2>3. Ending({r} \cup Holders(req[r].a, Open(req[r].a)))
      BY <2>1 DEF Overrule, Ending
    <2>4. {r} \cup Holders(req[r].a, Open(req[r].a)) \in SUBSET Request
      BY DEF Holders, On
    <2>5. step' \in [Approval -> [Order -> StepState]]
      <3> DEFINE new == [i \in Order |-> IF i \in Open(req[r].a)
                                         THEN [step[req[r].a][i] EXCEPT !.st = "CANCELLED"]
                                         ELSE step[req[r].a][i]]
      <3>1. \A i \in Order : step[req[r].a][i] \in StepState
        BY <2>2 DEF TypeOK
      <3>2. \A i \in Order : [step[req[r].a][i] EXCEPT !.st = "CANCELLED"] \in StepState
        BY <3>1 DEF StepState, ApprovalStatus
      <3>3. new \in [Order -> StepState]
        BY <3>1, <3>2
      <3> QED BY <2>1, <3>3 DEF TypeOK
    <2>6. app' \in [Approval -> ApprovalStatus \cup {"none"}]
      BY <2>1, <2>2 DEF TypeOK, ApprovalStatus
    <2>7. \A b \in Approval, i \in Order : step'[b][i].need = step[b][i].need
      BY <2>1, <2>2 DEF TypeOK, StepState
    <2>8. \A b \in Approval : Exists(b) => Exists(b)'
      BY <2>1, <2>2 DEF TypeOK, Exists, ApprovalStatus
    <2>9. \A b \in Approval : Steps(b)' = Steps(b) /\ Required(b)' = Required(b)
      BY <2>7 DEF Steps, Required
    <2>10. \A b \in Approval, i \in Order :
             step'[b][i].st =
                IF b = req[r].a /\ i \in Open(req[r].a) THEN "CANCELLED" ELSE step[b][i].st
      BY <2>1, <2>2 DEF TypeOK, StepState
    <2>11. \A b \in Approval : app'[b] = IF b = req[r].a THEN "CANCELLED" ELSE app[b]
      BY <2>1, <2>2 DEF TypeOK
    <2>12. Cancelled(r)
      BY <2>1, <2>2, <2>3, <2>10, <2>11 DEF Cancelled
    <2> QED
      BY <2>1, <2>3, <2>4, <2>5, <2>6, <2>8, <2>9, <2>12 DEF TypeOK
  <1> QED BY <1>1, <1>2

LEMMA ReopenEffect ==
  ASSUME TypeOK, References, NEW r \in Request, ReopenApproval(r)
  PROVE  /\ \E P \in SUBSET Request : Ending(P)
         /\ app' \in [Approval -> ApprovalStatus \cup {"none"}]
         /\ step' \in [Approval -> [Order -> StepState]]
         /\ \A b \in Approval : Exists(b) => Exists(b)'
         /\ \A b \in Approval : Steps(b)' = Steps(b) /\ Required(b)' = Required(b)
         /\ GivenWay(r) \/ Reopened(r)
         /\ UNCHANGED def
         /\ said' \in [Approval -> SUBSET (Order \X Decision)]
         /\ overlap' \subseteq Approval
  <1>1. CASE GiveWay(r, Steps(req[r].a))
    BY <1>1, GiveWayEffect DEF GivenWay, TypeOK, Exists, Steps, Required
  <1>2. CASE ~GiveWay(r, Steps(req[r].a))
    <2>1. /\ app' = [app EXCEPT ![req[r].a] = "PENDING"]
          /\ step' = [step EXCEPT ![req[r].a] =
                        [i \in Order |-> [step[req[r].a][i] EXCEPT !.st = "PENDING"]]]
          /\ said' = [said EXCEPT ![req[r].a] = {}]
          /\ Overrule(r, Steps(req[r].a))
          /\ overlap' = IF On(req[r].a) = {r} THEN overlap \ {req[r].a} ELSE overlap
          /\ UNCHANGED def
      BY <1>2 DEF ReopenApproval
    <2>2. req[r].a \in Approval
      BY DEF ReopenApproval, References, Reference, AtWork
    <2>3. Ending({r} \cup Holders(req[r].a, Steps(req[r].a)))
      BY <2>1 DEF Overrule, Ending
    <2>4. {r} \cup Holders(req[r].a, Steps(req[r].a)) \in SUBSET Request
      BY DEF Holders, On
    <2>5. step' \in [Approval -> [Order -> StepState]]
      <3>1. \A i \in Order : step[req[r].a][i] \in StepState
        BY <2>2 DEF TypeOK
      <3>2. \A i \in Order : [step[req[r].a][i] EXCEPT !.st = "PENDING"] \in StepState
        BY <3>1 DEF StepState, ApprovalStatus
      <3> QED BY <2>1, <3>2 DEF TypeOK
    <2>6. app' \in [Approval -> ApprovalStatus \cup {"none"}]
      BY <2>1, <2>2 DEF TypeOK, ApprovalStatus
    <2>7. \A b \in Approval, i \in Order : step'[b][i].need = step[b][i].need
      BY <2>1, <2>2 DEF TypeOK, StepState
    <2>8. \A b \in Approval : Exists(b) => Exists(b)'
      BY <2>1, <2>2 DEF TypeOK, Exists, ApprovalStatus
    <2>9. said' \in [Approval -> SUBSET (Order \X Decision)]
      BY <2>1, <2>2 DEF TypeOK
    <2>10. overlap' \subseteq Approval
      BY <2>1 DEF TypeOK
    <2>11. \A b \in Approval : Steps(b)' = Steps(b) /\ Required(b)' = Required(b)
      BY <2>7 DEF Steps, Required
    <2>12. \A b \in Approval, i \in Order :
             step'[b][i].st = IF b = req[r].a THEN "PENDING" ELSE step[b][i].st
      BY <2>1, <2>2 DEF TypeOK, StepState
    <2>13. \A b \in Approval : /\ app'[b] = IF b = req[r].a THEN "PENDING" ELSE app[b]
                               /\ said'[b] = IF b = req[r].a THEN {} ELSE said[b]
      BY <2>1, <2>2 DEF TypeOK
    <2>14. Reopened(r)
      BY <2>1, <2>2, <2>3, <2>12, <2>13 DEF Reopened
    <2> QED
      BY <2>1, <2>3, <2>4, <2>5, <2>6, <2>8, <2>9, <2>10, <2>11, <2>14
  <1> QED BY <1>1, <1>2

LEMMA SettleEffect ==
  ASSUME TypeOK, References, NEW r \in Request, Settle(r)
  PROVE  /\ Settled(r)
         /\ app' \in [Approval -> ApprovalStatus \cup {"none"}]
         /\ step' \in [Approval -> [Order -> StepState]]
         /\ said' \in [Approval -> SUBSET (Order \X Decision)]
         /\ \A b \in Approval : Exists(b) => Exists(b)'
         /\ \A b \in Approval : Steps(b)' = Steps(b) /\ Required(b)' = Required(b)
  <1> DEFINE a == req[r].a
             i == req[r].i
  <1>1. req[r].pc = "settle" /\ Reference(req[r])
    BY DEF Settle, References
  <1>2. /\ a \in Approval /\ i \in Steps(a) /\ i \in Order
        /\ req[r].as \in Decision /\ req[r].next \in ApprovalStatus
    <2>1. a \in Approval /\ i \in Steps(a)
      BY <1>1 DEF Reference, AtWork, Deciding
    <2> QED BY <1>1, <2>1 DEF Reference, Deciding, Steps
  <1>3. /\ step' = [step EXCEPT ![a][i].st = req[r].as]
        /\ app' = [app EXCEPT ![a] = req[r].next]
        /\ said' = [said EXCEPT ![a] = @ \cup {<<i, req[r].as>>}]
        /\ req' = [req EXCEPT ![r] = Idle]
        /\ UNCHANGED <<def, overlap>>
    BY DEF Settle
  <1>4. \A b \in Approval, j \in Order :
           step'[b][j] = IF b = a /\ j = i THEN [step[a][i] EXCEPT !.st = req[r].as]
                         ELSE step[b][j]
    BY <1>2, <1>3 DEF TypeOK
  <1>5. \A b \in Approval, j \in Order :
           /\ step'[b][j] \in StepState
           /\ step'[b][j].need = step[b][j].need
           /\ step'[b][j].st = IF b = a /\ j = i THEN req[r].as ELSE step[b][j].st
    <2> SUFFICES ASSUME NEW b \in Approval, NEW j \in Order
                 PROVE  /\ step'[b][j] \in StepState
                        /\ step'[b][j].need = step[b][j].need
                        /\ step'[b][j].st = IF b = a /\ j = i THEN req[r].as ELSE step[b][j].st
      OBVIOUS
    <2>1. step[b][j] \in StepState
      BY DEF TypeOK
    <2> QED BY <1>2, <1>4, <2>1 DEF StepState, Decision, ApprovalStatus
  <1>6. step' \in [Approval -> [Order -> StepState]]
    <2>1. \A b \in Approval : step'[b] = IF b = a THEN [step[a] EXCEPT ![i].st = req[r].as]
                                         ELSE step[b]
      BY <1>2, <1>3 DEF TypeOK
    <2>2. \A b \in Approval : step'[b] \in [Order -> StepState]
      BY <1>2, <1>5, <2>1 DEF TypeOK
    <2> QED BY <1>3, <2>2 DEF TypeOK
  <1>7. \A b \in Approval : Steps(b)' = Steps(b) /\ Required(b)' = Required(b)
    BY <1>5 DEF Steps, Required
  <1>8. /\ app' \in [Approval -> ApprovalStatus \cup {"none"}]
        /\ said' \in [Approval -> SUBSET (Order \X Decision)]
    BY <1>2, <1>3 DEF TypeOK
  <1>9. \A b \in Approval :
           /\ app'[b] = IF b = a THEN req[r].next ELSE app[b]
           /\ said'[b] = IF b = a THEN said[a] \cup {<<i, req[r].as>>} ELSE said[b]
    BY <1>2, <1>3 DEF TypeOK
  <1>10. \A b \in Approval : Exists(b) => Exists(b)'
    BY <1>2, <1>9 DEF Exists
  <1>11. Settled(r)
    BY <1>1, <1>2, <1>3, <1>5, <1>9 DEF Settled, Ending, TypeOK
  <1> QED BY <1>6, <1>7, <1>8, <1>10, <1>11

\* Request r begins, or goes on, or prepares a creation: it is at there next.
LEMMA MoveTypes ==
  ASSUME TypeOK, References, NEW r \in Request, NEW there \in ReqState, Reference(there),
         req' = [req EXCEPT ![r] = there], UNCHANGED <<def, app, step, said>>,
         overlap' \subseteq Approval
  PROVE  TypeOK' /\ References'
  <1>1. TypeOK'
    BY DEF TypeOK
  <1>2. ASSUME NEW q \in ReqState, Reference(q) PROVE Reference(q)'
    BY <1>2 DEF Reference, Exists, Steps
  <1>3. ASSUME NEW q \in Request PROVE Reference(req[q])'
    <2>1. PICK x \in ReqState : x = req'[q] /\ Reference(x)
      BY DEF TypeOK, References
    <2>2. Reference(x)'
      BY <1>2, <2>1
    <2> QED BY <2>1, <2>2 DEF Reference
  <1> QED BY <1>1, <1>3 DEF References

LEMMA StepTypes ==
  ASSUME TypeOK, References, [Next]_vars
  PROVE  TypeOK' /\ References'
  <1> USE NilIsNothing
  <1>1. CASE UNCHANGED vars
    BY <1>1 DEF vars, TypeOK, References, Reference, Exists, Steps
  <1>2. CASE Define
    BY <1>2, DefineTypes DEF TypeOK, References, Reference, Exists, Steps
  <1>3. ASSUME NEW r \in Request, NEW steps \in Template, PrepareCreate(r, steps)
        PROVE  TypeOK' /\ References'
    <2>1. PICK there \in ReqState :
             there = [Idle EXCEPT !.pc = "create", !.steps = steps]
      BY IdleType DEF ReqState, Pc
    <2>2. Reference(there)
      BY <1>3, <2>1 DEF Reference, PrepareCreate, Idle, AtWork, Deciding
    <2> QED BY <1>3, <2>1, <2>2, MoveTypes DEF PrepareCreate, TypeOK
  <1>4. ASSUME NEW r \in Request, NEW a \in Approval, InsertApproval(r, a)
        PROVE  TypeOK' /\ References'
    <2>1. req[r].steps \in Template
      BY DEF TypeOK, ReqState
    <2>2. [i \in Order |-> [need |-> req[r].steps[i], st |-> "PENDING"]] \in [Order -> StepState]
      BY <2>1 DEF Template, StepState, ApprovalStatus
    <2>3. TypeOK'
      BY <1>4, <2>2, IdleType DEF TypeOK, InsertApproval, ApprovalStatus
    <2> QED
      BY <1>4, <2>3
      DEF TypeOK, References, Reference, InsertApproval, Idle, AtWork, Deciding, Exists, Steps,
          ApprovalStatus
  <1>5. ASSUME NEW r \in Request, NEW a \in Approval, NEW i \in Order, NEW as \in Decision,
               DecideRead(r, a, i, as)
        PROVE  TypeOK' /\ References'
    <2>1. PICK there \in ReqState :
             there = [Idle EXCEPT !.pc = "decide", !.a = a, !.i = i, !.as = as]
      BY IdleType DEF ReqState, Pc
    <2>2. Reference(there)
      BY <1>5, <2>1 DEF Reference, DecideRead, Idle, AtWork, Deciding, Exists, ApprovalStatus
    <2>3. there.a = a
      BY <2>1 DEF Idle
    <2>4. Begin(r, there)
      BY <1>5, <2>1 DEF DecideRead
    <2>5. /\ req' = [req EXCEPT ![r] = there]
          /\ UNCHANGED <<def, app, step, said>>
          /\ overlap' \subseteq Approval
      BY <2>3, <2>4 DEF Begin, TypeOK
    <2> QED BY <2>1, <2>2, <2>5, MoveTypes
  <1>6. ASSUME NEW r \in Request, LockStep(r)
        PROVE  TypeOK' /\ References'
    <2>1. req[r] \in ReqState /\ Reference(req[r])
      BY DEF TypeOK, References
    <2>2. PICK there \in ReqState : there = [req[r] EXCEPT !.pc = "tally"]
      BY <2>1 DEF ReqState, Pc, Deciding
    <2>3. Reference(there)
      BY <1>6, <2>1, <2>2 DEF Reference, LockStep, AtWork, Deciding, ReqState
    <2>4. req' = [req EXCEPT ![r] = there]
      BY <1>6, <2>2 DEF LockStep, TypeOK
    <2> QED BY <1>6, <2>3, <2>4, MoveTypes DEF LockStep, TypeOK
  <1>7. ASSUME NEW r \in Request, Tally(r)
        PROVE  TypeOK' /\ References'
    <2>1. Verdict(Required(req[r].a), Seen(r)) \in ApprovalStatus
      BY DEF Verdict, ApprovalStatus
    <2>2. PICK v \in ApprovalStatus :
             req' = [req EXCEPT ![r].pc = "settle", ![r].next = v]
      BY <1>7, <2>1 DEF Tally
    <2>3. req[r] \in ReqState /\ Reference(req[r])
      BY DEF TypeOK, References
    <2>4. PICK there \in ReqState : there = [req[r] EXCEPT !.pc = "settle", !.next = v]
      BY <2>3 DEF ReqState, Pc, Deciding
    <2>5. Reference(there)
      BY <1>7, <2>3, <2>4 DEF Reference, Tally, AtWork, Deciding, ReqState
    <2>6. req' = [req EXCEPT ![r] = there]
      BY <2>2, <2>4 DEF TypeOK
    <2> QED BY <1>7, <2>5, <2>6, MoveTypes DEF Tally, TypeOK
  <1>8. ASSUME NEW r \in Request, Settle(r)
        PROVE  TypeOK' /\ References'
    BY <1>8, SettleEffect, EndTypes DEF Settled, TypeOK
  <1>9. ASSUME NEW r \in Request, NEW a \in Approval, CancelRead(r, a) \/ ReopenRead(r, a)
        PROVE  TypeOK' /\ References'
    <2>1. PICK where \in {"cancel", "reopen"} :
             Begin(r, [Idle EXCEPT !.pc = where, !.a = a]) /\ Exists(a)
      BY <1>9 DEF CancelRead, ReopenRead, Exists, ApprovalStatus
    <2>2. PICK there \in ReqState : there = [Idle EXCEPT !.pc = where, !.a = a]
      BY IdleType DEF ReqState, Pc
    <2>3. Reference(there)
      BY <2>1, <2>2 DEF Reference, Idle, AtWork, Deciding
    <2>4. there.a = a
      BY <2>2 DEF Idle
    <2>5. /\ req' = [req EXCEPT ![r] = there]
          /\ UNCHANGED <<def, app, step, said>>
          /\ overlap' \subseteq Approval
      BY <2>1, <2>2, <2>4 DEF Begin, TypeOK
    <2> QED BY <2>2, <2>3, <2>5, MoveTypes
  <1>10. ASSUME NEW r \in Request, CancelApproval(r) PROVE TypeOK' /\ References'
    BY <1>10, CancelEffect, EndTypes
  <1>11. ASSUME NEW r \in Request, ReopenApproval(r) PROVE TypeOK' /\ References'
    BY <1>11, ReopenEffect, EndTypes
  <1>12. ASSUME NEW r \in Request, Abandon(r) PROVE TypeOK' /\ References'
    <2>1. Ending({r})
      BY <1>12 DEF Abandon, Ending, TypeOK
    <2> QED
      BY <1>12, <2>1, EndTypes DEF Abandon, TypeOK, Steps, Exists
  <1>13. ASSUME NEW r \in Request, Create(r) PROVE TypeOK' /\ References'
    <2>1. \A d \in Definition : def[d].steps \in Template
      BY DEF TypeOK, DefState
    <2> QED
      BY <1>13, <1>3, <1>4, <2>1, TemplatesAssumption
      DEF Create, CreateFromSteps, CreateFromDefinition
  <1> QED
    BY <1>1, <1>2, <1>5, <1>6, <1>7, <1>8, <1>9, <1>10, <1>11, <1>12, <1>13 DEF Next, Decide

-----------------------------------------------------------------------------
(***************************************************************************)
(* Decisions rest on grounds.  No request settles an approval from before  *)
(* it was reopened: reopen waits for the steps that decisions hold, and    *)
(* one of the two is ended.                                                *)
(***************************************************************************)

\* What the parts of Grounds need of a step that writes no approval.
LEMMA QuietGrounds ==
  ASSUME TypeOK, References, StepsOnGrounds, VerdictOnGrounds, DecidedOnGrounds,
         UNCHANGED <<app, step, said>>,
         \A q \in Request : req'[q].pc = "settle" => req'[q] = req[q]
  PROVE  StepsOnGrounds' /\ VerdictOnGrounds' /\ DecidedOnGrounds'
  <1>1. StepsOnGrounds' /\ DecidedOnGrounds'
    BY DEF StepsOnGrounds, DecidedOnGrounds, Required
  <1>2. VerdictOnGrounds'
    BY DEF VerdictOnGrounds, Required, Backed
  <1> QED BY <1>1, <1>2

LEMMA InsertGrounds ==
  ASSUME Grounds, NEW r \in Request, NEW a \in Approval, InsertApproval(r, a)
  PROVE  StepsOnGrounds' /\ VerdictOnGrounds' /\ DecidedOnGrounds'
  <1>1. /\ \A b \in Approval : app'[b] = IF b = a THEN "PENDING" ELSE app[b]
        /\ \A b \in Approval : b # a => step'[b] = step[b]
        /\ \A i \in Order : step'[a][i].st = "PENDING"
        /\ \A q \in Request : req'[q] = IF q = r THEN Idle ELSE req[q]
        /\ said' = said
    BY DEF Grounds, TypeOK, InsertApproval
  <1>2. \A q \in Request : req[q].a # a
    BY DEF Grounds, References, Reference, InsertApproval, Exists, ApprovalStatus
  <1>3. \A b \in Approval : b # a => Required(b)' = Required(b)
    BY <1>1 DEF Required
  <1>4. StepsOnGrounds'
    BY <1>1 DEF Grounds, StepsOnGrounds, Decision
  <1>5. DecidedOnGrounds'
    BY <1>1, <1>3 DEF Grounds, DecidedOnGrounds
  <1>6. VerdictOnGrounds'
    <2> SUFFICES ASSUME NEW q \in Request, req'[q].pc = "settle"
                 PROVE  /\ req'[q].next = "APPROVED" =>
                             \A j \in Required(req[q].a)' : Backed(q, j, "APPROVED")'
                        /\ req'[q].next = "REJECTED" =>
                             \E j \in Required(req[q].a)' : Backed(q, j, "REJECTED")'
      BY DEF VerdictOnGrounds
    <2>1. q # r /\ req'[q] = req[q]
      BY <1>1 DEF Idle
    <2>2. req[q].a \in Approval /\ req[q].a # a
      BY <1>2, <2>1 DEF Grounds, References, Reference, AtWork, Deciding
    <2>3. Required(req[q].a)' = Required(req[q].a)
      BY <1>3, <2>1, <2>2 DEF Required
    <2>4. \A j, v : Backed(q, j, v)' <=> Backed(q, j, v)
      BY <1>1, <2>1 DEF Backed
    <2> QED BY <2>1, <2>3, <2>4 DEF Grounds, VerdictOnGrounds
  <1> QED BY <1>4, <1>5, <1>6

LEMMA TallyGrounds ==
  ASSUME Grounds, NEW r \in Request, Tally(r)
  PROVE  StepsOnGrounds' /\ VerdictOnGrounds' /\ DecidedOnGrounds'
  <1>1. StepsOnGrounds' /\ DecidedOnGrounds'
    BY DEF Grounds, StepsOnGrounds, DecidedOnGrounds, Required, Tally
  <1>2. VerdictOnGrounds'
    <2> DEFINE a == req[r].a
    <2>1. a \in Approval /\ req[r].i \in Order /\ req[r].as \in Decision
      BY DEF Grounds, References, Reference, Tally, AtWork, Deciding, Steps
    <2>2. /\ req'[r].a = a /\ req'[r].i = req[r].i /\ req'[r].as = req[r].as
          /\ req'[r].next = Verdict(Required(a), Seen(r))
          /\ \A q \in Request : q # r => req'[q] = req[q]
          /\ UNCHANGED <<step, said>>
      BY DEF Grounds, TypeOK, Tally, ReqState
    <2>3. \A j \in Order, v \in Decision : Seen(r)[j] = v => Backed(r, j, v)
      BY <2>1 DEF Seen, Backed, Grounds, StepsOnGrounds
    <2>4. /\ Verdict(Required(a), Seen(r)) = "APPROVED" =>
                \A j \in Required(a) : Seen(r)[j] = "APPROVED"
          /\ Verdict(Required(a), Seen(r)) = "REJECTED" =>
                \E j \in Required(a) : Seen(r)[j] = "REJECTED"
      BY DEF Verdict
    <2>5. Required(a) \subseteq Order
      BY DEF Required
    <2>6. /\ Verdict(Required(a), Seen(r)) = "APPROVED" =>
                \A j \in Required(a) : Backed(r, j, "APPROVED")
          /\ Verdict(Required(a), Seen(r)) = "REJECTED" =>
                \E j \in Required(a) : Backed(r, j, "REJECTED")
      BY <2>3, <2>4, <2>5 DEF Decision
    <2>7. \A b \in Approval : Required(b)' = Required(b)
      BY <2>2 DEF Required
    <2>8. \A q \in Request : req'[q].pc = "settle" => req[q].a \in Approval
      BY <2>1, <2>2 DEF Grounds, References, Reference, AtWork, Deciding
    <2>9. \A q \in Request : \A j, v : req'[q].a = req[q].a /\ (Backed(q, j, v) => Backed(q, j, v)')
      BY <2>2 DEF Backed
    <2> SUFFICES ASSUME NEW q \in Request, req'[q].pc = "settle"
                 PROVE  /\ req'[q].next = "APPROVED" =>
                             \A j \in Required(req[q].a) : Backed(q, j, "APPROVED")
                        /\ req'[q].next = "REJECTED" =>
                             \E j \in Required(req[q].a) : Backed(q, j, "REJECTED")
      BY <2>7, <2>8, <2>9 DEF VerdictOnGrounds
    <2>10. CASE q = r
      BY <2>2, <2>6, <2>10
    <2>11. CASE q # r
      BY <2>2, <2>11 DEF Grounds, VerdictOnGrounds
    <2> QED BY <2>10, <2>11
  <1> QED BY <1>1, <1>2

\* Requests end, and what was said stays said.
LEMMA EndGrounds ==
  ASSUME Grounds, NEW P, Ending(P),
         \A b \in Approval : Required(b)' = Required(b),
         \A q \in Request \ P : req[q].pc = "settle" => said[req[q].a] \subseteq said'[req[q].a]
  PROVE  VerdictOnGrounds'
  <1> SUFFICES ASSUME NEW q \in Request, req'[q].pc = "settle"
               PROVE  /\ req'[q].next = "APPROVED" =>
                           \A j \in Required(req[q].a)' : Backed(q, j, "APPROVED")'
                      /\ req'[q].next = "REJECTED" =>
                           \E j \in Required(req[q].a)' : Backed(q, j, "REJECTED")'
    BY DEF VerdictOnGrounds
  <1>1. q \notin P /\ req'[q] = req[q]
    BY DEF Ending, Idle
  <1>2. req[q].a \in Approval
    BY <1>1 DEF Grounds, References, Reference, AtWork, Deciding
  <1>3. \A j, v : Backed(q, j, v) => Backed(q, j, v)'
    BY <1>1 DEF Backed
  <1>4. Required(req[q].a)' = Required(req[q].a)
    BY <1>1, <1>2 DEF Required
  <1> QED BY <1>1, <1>3, <1>4 DEF Grounds, VerdictOnGrounds

LEMMA SettleGrounds ==
  ASSUME Grounds, NEW r \in Request, Settle(r)
  PROVE  StepsOnGrounds' /\ VerdictOnGrounds' /\ DecidedOnGrounds'
  <1>1. Settled(r) /\ \A b \in Approval : Required(b)' = Required(b)
    BY SettleEffect DEF Grounds
  <1>2. \A b \in Approval : said[b] \subseteq said'[b]
    BY <1>1 DEF Settled
  <1>3. VerdictOnGrounds'
    BY <1>1, <1>2, EndGrounds DEF Settled, Grounds, References, Reference, AtWork, Deciding
  <1>4. StepsOnGrounds'
    BY <1>1, <1>2 DEF Settled, Grounds, StepsOnGrounds
  <1>5. /\ app'[req[r].a] = "APPROVED" =>
              \A j \in Required(req[r].a) : <<j, "APPROVED">> \in said'[req[r].a]
        /\ app'[req[r].a] = "REJECTED" =>
              \E j \in Required(req[r].a) : <<j, "REJECTED">> \in said'[req[r].a]
    BY <1>1 DEF Settled, Grounds, VerdictOnGrounds, Backed
  <1>6. \A b \in Approval : b # req[r].a => app'[b] = app[b] /\ said'[b] = said[b]
    BY <1>1 DEF Settled
  <1>7. DecidedOnGrounds'
    BY <1>1, <1>5, <1>6 DEF Grounds, DecidedOnGrounds
  <1> QED BY <1>3, <1>4, <1>7

LEMMA CancelGrounds ==
  ASSUME Grounds, NEW r \in Request, CancelApproval(r)
  PROVE  StepsOnGrounds' /\ VerdictOnGrounds' /\ DecidedOnGrounds'
  <1>1. /\ GivenWay(r) \/ Cancelled(r)
        /\ \A b \in Approval : Required(b)' = Required(b)
    BY CancelEffect DEF Grounds
  <1>2. CASE GivenWay(r)
    BY <1>2, QuietGrounds DEF GivenWay, Ending, Idle, Grounds
  <1>3. CASE Cancelled(r)
    <2>1. VerdictOnGrounds'
      BY <1>1, <1>3, EndGrounds DEF Cancelled
    <2>2. StepsOnGrounds'
      BY <1>3 DEF Cancelled, Grounds, StepsOnGrounds, Decision
    <2>3. DecidedOnGrounds'
      BY <1>1, <1>3 DEF Cancelled, Grounds, DecidedOnGrounds
    <2> QED BY <2>1, <2>2, <2>3
  <1> QED BY <1>1, <1>2, <1>3

LEMMA ReopenGrounds ==
  ASSUME Grounds, NEW r \in Request, ReopenApproval(r)
  PROVE  StepsOnGrounds' /\ VerdictOnGrounds' /\ DecidedOnGrounds'
  <1>1. /\ GivenWay(r) \/ Reopened(r)
        /\ \A b \in Approval : Required(b)' = Required(b)
    BY ReopenEffect DEF Grounds
  <1>2. CASE GivenWay(r)
    BY <1>2, QuietGrounds DEF GivenWay, Ending, Idle, Grounds
  <1>3. CASE Reopened(r)
    <2> DEFINE P == {r} \cup Holders(req[r].a, Steps(req[r].a))
    <2>1. \A q \in Request \ P : req[q].pc = "settle" =>
             req[q].a \in Approval /\ req[q].a # req[r].a
      BY DEF Grounds, References, Reference, AtWork, Deciding, Holders, On
    <2>2. \A q \in Request \ P : req[q].pc = "settle" => said'[req[q].a] = said[req[q].a]
      BY <1>3, <2>1 DEF Reopened
    <2>3. VerdictOnGrounds'
      BY <1>1, <1>3, <2>2, EndGrounds DEF Reopened
    <2>4. StepsOnGrounds'
      BY <1>3 DEF Reopened, Grounds, StepsOnGrounds, Decision
    <2>5. DecidedOnGrounds'
      BY <1>1, <1>3 DEF Reopened, Grounds, DecidedOnGrounds
    <2> QED BY <2>3, <2>4, <2>5
  <1> QED BY <1>1, <1>2, <1>3

LEMMA StepGrounds ==
  ASSUME Grounds, [Next]_vars
  PROVE  Grounds'
  <1> DEFINE Kept == StepsOnGrounds' /\ VerdictOnGrounds' /\ DecidedOnGrounds'
  <1>1. TypeOK' /\ References'
    BY StepTypes DEF Grounds
  <1>2. ASSUME UNCHANGED vars PROVE Kept
    <2>1. UNCHANGED <<app, step, said>> /\ req' = req
      BY <1>2 DEF vars
    <2> QED BY <2>1, QuietGrounds DEF Grounds
  <1>3. ASSUME Define PROVE Kept
    <2>1. UNCHANGED <<app, step, said>> /\ req' = req
      BY <1>3, DefineTypes DEF Grounds
    <2> QED BY <2>1, QuietGrounds DEF Grounds
  <1>4. ASSUME NEW r \in Request, Create(r) PROVE Kept
    <2>1. CASE \E a \in Approval : InsertApproval(r, a)
      BY <2>1, InsertGrounds
    <2>2. CASE \E steps : PrepareCreate(r, steps)
      BY <2>2, QuietGrounds DEF PrepareCreate, Grounds, TypeOK, Idle
    <2> QED BY <1>4, <2>1, <2>2 DEF Create, CreateFromSteps, CreateFromDefinition
  <1>5. ASSUME NEW r \in Request, NEW there, there.pc # "settle", Begin(r, there) PROVE Kept
    BY <1>5, QuietGrounds DEF Begin, Grounds, TypeOK
  <1>6. ASSUME NEW r \in Request, LockStep(r) PROVE Kept
    BY <1>6, QuietGrounds DEF LockStep, Grounds, TypeOK, ReqState
  <1>7. ASSUME NEW r \in Request, Decide(r) PROVE Kept
    BY <1>7, <1>5, <1>6, TallyGrounds, SettleGrounds DEF Decide, DecideRead, Idle
  <1>8. ASSUME NEW r \in Request, NEW a \in Approval, CancelRead(r, a) \/ ReopenRead(r, a)
        PROVE  Kept
    BY <1>8, <1>5 DEF CancelRead, ReopenRead, Idle
  <1>9. ASSUME NEW r \in Request, Abandon(r) PROVE Kept
    BY <1>9, QuietGrounds DEF Abandon, Grounds, TypeOK, Idle
  <1> QED
    BY <1>1, <1>2, <1>3, <1>4, <1>7, <1>8, <1>9, CancelGrounds, ReopenGrounds
    DEF Next, Grounds

(***************************************************************************)
(* The invariant behind both: what a request that will write may rely on.  *)
(***************************************************************************)
THEOREM GroundsHold == Spec => []Grounds
  BY InitGrounds, StepGrounds, PTL DEF Spec

(***************************************************************************)
(* Every state of the approvals is well typed.                             *)
(***************************************************************************)
THEOREM ApprovalTypes == Spec => []TypeOK
  BY GroundsHold, PTL DEF Grounds

(***************************************************************************)
(* An approval is approved or rejected only on decisions taken since it    *)
(* was last opened, however decisions, cancels and reopens interleave.     *)
(***************************************************************************)
THEOREM DecisionsOnGrounds == Spec => []DecidedOnGrounds
  BY GroundsHold, PTL DEF Grounds

-----------------------------------------------------------------------------
(***************************************************************************)
(* While requests do not overlap, statuses say what the steps say.         *)
(***************************************************************************)

LEMMA MatchesAll == StatusMatchesSteps <=> \A a \in Approval \ overlap : Matches(a)
  BY DEF StatusMatchesSteps, Matches

\* Approval b is as it was.
SameApproval(b) ==
    /\ app'[b] = app[b]
    /\ \A i \in Order : step'[b][i].st = step[b][i].st
    /\ Steps(b)' = Steps(b) /\ Required(b)' = Required(b)

LEMMA SameMatches ==
  ASSUME NEW b \in Approval, SameApproval(b), Matches(b)
  PROVE  Matches(b)'
  <1>1. Open(b)' = Open(b)
    BY DEF SameApproval, Open, Steps
  <1>2. Required(b) \subseteq Order
    BY DEF Required
  <1> QED BY <1>1, <1>2 DEF SameApproval, Matches

LEMMA SameRead ==
  ASSUME References, NEW q \in Request, NEW b \in Approval, b = req[q].a, SameApproval(b),
         req'[q] = req[q], \A p \in Request : req'[p].a = b => req[p].a = b,
         ReadStillHolds(q)
  PROVE  ReadStillHolds(q)'
  <1>1. /\ app'[b] = app[b]
        /\ \A i \in Order : step'[b][i].st = step[b][i].st
        /\ Required(b)' = Required(b)
    BY DEF SameApproval
  <1>2. Seen(q)' = Seen(q)
    BY <1>1 DEF Seen
  <1>3. req[q].pc \in Deciding \cup {"decide"} => req[q].i \in Order
    BY DEF References, Reference, Steps
  <1> QED BY <1>1, <1>2, <1>3 DEF ReadStillHolds, Verdict, Required

\* Request r writes its approval, and the requests P end.
LEMMA WriteAgreement ==
  ASSUME Grounds, Agreement, NEW r \in Request, NEW a \in Approval, a = req[r].a,
         NEW P, Ending(P), r \in P,
         \A b \in Approval : b # a => SameApproval(b),
         Steps(a)' = Steps(a),
         overlap' = overlap \/ (overlap' = overlap \ {a} /\ On(a) = {r}),
         a \notin overlap' => Matches(a)'
  PROVE  Agreement'
  <1>1. ReadsStillHold'
    <2> SUFFICES ASSUME NEW q \in Request, req'[q].a \in Approval \ overlap'
                 PROVE  ReadStillHolds(q)'
      BY DEF ReadsStillHold
    <2>1. q \notin P /\ req'[q] = req[q]
      BY NilIsNothing DEF Ending, Idle
    <2>2. req[q].a # a
      BY <2>1 DEF Agreement, ReadsStillHold, ReadStillHolds, On
    <2>3. req[q].a \in Approval \ overlap /\ ReadStillHolds(q)
      BY <2>1, <2>2 DEF Agreement, ReadsStillHold
    <2>4. \A p \in Request : req'[p].a = req[q].a => req[p].a = req[q].a
      BY <2>3, NilIsNothing DEF Ending, Idle
    <2> QED BY <2>1, <2>2, <2>3, <2>4, SameRead DEF Grounds
  <1>2. \A b \in Approval \ overlap' : Matches(b)'
    <2> SUFFICES ASSUME NEW b \in Approval \ overlap', b # a PROVE Matches(b)'
      OBVIOUS
    <2>1. Matches(b) /\ SameApproval(b)
      BY MatchesAll DEF Agreement
    <2> QED BY <2>1, SameMatches
  <1>3. StatusMatchesSteps'
    BY <1>2 DEF StatusMatchesSteps, Matches
  <1>4. HaveSteps'
    <2>1. Exists(a)
      BY DEF Grounds, References, Reference
    <2>2. \A b \in Approval : Exists(b)' => Exists(b)
      BY <2>1 DEF SameApproval, Exists
    <2>3. \A b \in Approval : Steps(b)' = Steps(b)
      BY DEF SameApproval
    <2> QED BY <2>2, <2>3 DEF Agreement, HaveSteps
  <1> QED BY <1>1, <1>3, <1>4 DEF Agreement

\* Requests end without a write.
LEMMA EndAgreement ==
  ASSUME Grounds, Agreement, NEW P, Ending(P), UNCHANGED <<app, step, overlap>>
  PROVE  Agreement'
  <1>1. \A b \in Approval : SameApproval(b)
    BY DEF SameApproval, Steps, Required
  <1>2. ReadsStillHold'
    <2> SUFFICES ASSUME NEW q \in Request, req'[q].a \in Approval \ overlap'
                 PROVE  ReadStillHolds(q)'
      BY DEF ReadsStillHold
    <2>1. q \notin P /\ req'[q] = req[q]
      BY NilIsNothing DEF Ending, Idle
    <2>2. req[q].a \in Approval \ overlap /\ ReadStillHolds(q)
      BY <2>1 DEF Agreement, ReadsStillHold
    <2>3. \A p \in Request : req'[p].a = req[q].a => req[p].a = req[q].a
      BY <2>2, NilIsNothing DEF Ending, Idle
    <2> QED BY <1>1, <2>1, <2>2, <2>3, SameRead DEF Grounds
  <1>3. StatusMatchesSteps' /\ HaveSteps'
    BY DEF Agreement, StatusMatchesSteps, HaveSteps, Exists, Steps, Open, Required
  <1> QED BY <1>2, <1>3 DEF Agreement

LEMMA SettleAgreement ==
  ASSUME Grounds, Agreement, NEW r \in Request, Settle(r)
  PROVE  Agreement'
  <1> DEFINE i == req[r].i
  <1>0. PICK a \in Approval : a = req[r].a
    BY SettleEffect DEF Settled, Grounds
  <1>1. /\ Settled(r)
        /\ \A b \in Approval : Steps(b)' = Steps(b) /\ Required(b)' = Required(b)
    BY SettleEffect DEF Grounds
  <1>2. \A b \in Approval : b # a => SameApproval(b)
    BY <1>0, <1>1 DEF Settled, SameApproval
  <1>3. ASSUME a \notin overlap PROVE Matches(a)'
    <2>1. /\ app[a] = "PENDING" /\ req[r].next = Verdict(Required(a), Seen(r))
          /\ Matches(a)
      BY <1>0, <1>1, <1>3, MatchesAll
      DEF Settled, Agreement, ReadsStillHold, ReadStillHolds, Deciding
    <2>2. /\ \A j \in Order : step'[a][j].st = Seen(r)[j]
          /\ app'[a] = Verdict(Required(a), Seen(r))
      BY <1>0, <1>1, <2>1 DEF Settled, Seen
    <2>3. Required(a) \subseteq Steps(a) /\ Steps(a) \subseteq Order
      BY DEF Required, Steps
    <2>4. \A j \in Required(a) : Seen(r)[j] \in {"PENDING", "APPROVED", "REJECTED"}
      BY <1>0, <1>1, <2>1, <2>3 DEF Settled, Seen, Matches, Decision
    <2>5. CASE app'[a] = "PENDING"
      <3>1. \A j \in Required(a) : Seen(r)[j] \in {"PENDING", "APPROVED"}
        BY <2>2, <2>4, <2>5 DEF Verdict
      <3>2. PICK j \in Required(a) : Seen(r)[j] = "PENDING"
        BY <2>2, <2>5, <3>1 DEF Verdict
      <3>3. j \in Open(a)'
        BY <1>0, <1>1, <2>2, <2>3, <3>2 DEF Open, Settled
      <3> QED BY <1>0, <1>1, <2>2, <2>3, <2>5, <3>1, <3>3 DEF Matches, Settled
    <2>6. CASE app'[a] = "APPROVED"
      <3>1. \A j \in Required(a) : Seen(r)[j] = "APPROVED"
        BY <2>2, <2>6 DEF Verdict
      <3> QED BY <1>0, <1>1, <2>2, <2>3, <2>6, <3>1 DEF Matches, Settled
    <2>7. CASE app'[a] = "REJECTED"
      <3>1. \E j \in Required(a) : Seen(r)[j] = "REJECTED"
        BY <2>2, <2>7 DEF Verdict
      <3> QED BY <1>0, <1>1, <2>2, <2>3, <2>7, <3>1 DEF Matches, Settled
    <2>8. app'[a] \in {"PENDING", "APPROVED", "REJECTED"}
      BY <2>2 DEF Verdict
    <2> QED BY <2>5, <2>6, <2>7, <2>8
  <1> QED
    BY <1>0, <1>1, <1>2, <1>3, WriteAgreement DEF Settled

LEMMA CancelAgreement ==
  ASSUME Grounds, Agreement, NEW r \in Request, CancelApproval(r)
  PROVE  Agreement'
  <1>0. PICK a \in Approval : a = req[r].a
    BY DEF CancelApproval, ReopenApproval, Grounds, References, Reference, AtWork
  <1>1. /\ GivenWay(r) \/ Cancelled(r)
        /\ \A b \in Approval : Steps(b)' = Steps(b) /\ Required(b)' = Required(b)
    BY CancelEffect DEF Grounds
  <1>2. CASE GivenWay(r)
    BY <1>2, EndAgreement DEF GivenWay
  <1>3. CASE Cancelled(r)
    <2>1. \A b \in Approval : b # a => SameApproval(b)
      BY <1>0, <1>1, <1>3 DEF Cancelled, SameApproval
    <2>2. Open(a)' = {}
      <3>1. \A i \in Steps(a) : i \in Order /\ (i \notin Open(a) => step[a][i].st # "PENDING")
        BY DEF Open, Steps
      <3>2. \A i \in Steps(a) : step'[a][i].st # "PENDING"
        BY <1>0, <1>3, <3>1 DEF Cancelled
      <3> QED BY <1>1, <3>2 DEF Open
    <2>3. Matches(a)'
      BY <1>0, <1>3, <2>2 DEF Cancelled, Matches
    <2> QED BY <1>0, <1>1, <1>3, <2>1, <2>3, WriteAgreement DEF Cancelled
  <1> QED BY <1>1, <1>2, <1>3

LEMMA ReopenAgreement ==
  ASSUME Grounds, Agreement, NEW r \in Request, ReopenApproval(r)
  PROVE  Agreement'
  <1>0. PICK a \in Approval : a = req[r].a
    BY DEF CancelApproval, ReopenApproval, Grounds, References, Reference, AtWork
  <1>1. /\ GivenWay(r) \/ Reopened(r)
        /\ \A b \in Approval : Steps(b)' = Steps(b) /\ Required(b)' = Required(b)
    BY ReopenEffect DEF Grounds
  <1>2. CASE GivenWay(r)
    BY <1>2, EndAgreement DEF GivenWay
  <1>3. CASE Reopened(r)
    <2>1. \A b \in Approval : b # a => SameApproval(b)
      BY <1>0, <1>1, <1>3 DEF Reopened, SameApproval
    <2>2. Open(a)' = Steps(a)
      BY <1>0, <1>1, <1>3 DEF Reopened, Open, Steps
    <2>3. Steps(a) # {}
      BY <1>0, <1>3 DEF Reopened, Agreement, HaveSteps, Grounds, References, Reference
    <2>4. Matches(a)'
      BY <1>0, <1>3, <2>2, <2>3 DEF Reopened, Matches, Required
    <2> QED BY <1>0, <1>1, <1>3, <2>1, <2>4, WriteAgreement DEF Reopened
  <1> QED BY <1>1, <1>2, <1>3

LEMMA InsertAgreement ==
  ASSUME Grounds, Agreement, NEW r \in Request, NEW a \in Approval, InsertApproval(r, a)
  PROVE  Agreement'
  <1>1. /\ \A b \in Approval : app'[b] = IF b = a THEN "PENDING" ELSE app[b]
        /\ \A b \in Approval : b # a => step'[b] = step[b]
        /\ \A i \in Order : step'[a][i].st = "PENDING" /\ step'[a][i].need = req[r].steps[i]
        /\ \A q \in Request : req'[q] = IF q = r THEN Idle ELSE req[q]
        /\ overlap' = overlap
    BY DEF Grounds, TypeOK, InsertApproval
  <1>2. \A q \in Request : req[q].a # a
    BY DEF Grounds, References, Reference, InsertApproval, Exists, ApprovalStatus
  <1>3. \A b \in Approval : b # a => SameApproval(b)
    BY <1>1 DEF SameApproval, Steps, Required
  <1>4. Steps(a)' # {}
    <2>1. req[r].steps \in Template /\ req[r].steps # NoSteps
      BY DEF Grounds, TypeOK, ReqState, References, Reference, InsertApproval
    <2>2. PICK i \in Order : req[r].steps[i] # "absent"
      BY <2>1 DEF Template, NoSteps
    <2> QED BY <1>1, <2>2 DEF Steps
  <1>5. ReadsStillHold'
    <2> SUFFICES ASSUME NEW q \in Request, req'[q].a \in Approval \ overlap'
                 PROVE  ReadStillHolds(q)'
      BY DEF ReadsStillHold
    <2>1. q # r /\ req'[q] = req[q]
      BY <1>1, NilIsNothing DEF Idle
    <2>2. req[q].a \in Approval \ overlap /\ req[q].a # a /\ ReadStillHolds(q)
      BY <1>1, <1>2, <2>1 DEF Agreement, ReadsStillHold
    <2>3. \A p \in Request : req'[p].a = req[q].a => req[p].a = req[q].a
      BY <1>1, <2>2, NilIsNothing DEF Idle
    <2> QED BY <1>3, <2>1, <2>2, <2>3, SameRead DEF Grounds
  <1>6. \A b \in Approval \ overlap' : Matches(b)'
    <2>1. ASSUME NEW b \in Approval \ overlap', b # a PROVE Matches(b)'
      BY <1>1, <1>3, <2>1, MatchesAll, SameMatches DEF Agreement
    <2>2. Matches(a)'
      <3>1. Open(a)' = Steps(a)' /\ Required(a)' \subseteq Order
        BY <1>1 DEF Open, Steps, Required
      <3> QED BY <1>1, <1>4, <3>1 DEF Matches
    <2> QED BY <2>1, <2>2
  <1>7. StatusMatchesSteps'
    BY <1>6 DEF StatusMatchesSteps, Matches
  <1>8. HaveSteps'
    BY <1>1, <1>3, <1>4 DEF Agreement, HaveSteps, Exists, SameApproval
  <1> QED BY <1>5, <1>7, <1>8 DEF Agreement

\* Request r begins, or goes on, or prepares a creation: it is at there next.
LEMMA MoveAgreement ==
  ASSUME Grounds, Agreement, NEW r \in Request, UNCHANGED <<app, step>>,
         NEW there, req' = [req EXCEPT ![r] = there],
         overlap' = overlap \/ overlap' = overlap \cup {there.a},
         \A q \in Request \ {r} : there.a \in Approval \ overlap' => req[q].a # there.a,
         there.a \in Approval \ overlap' =>
            /\ there.pc \in Deciding \cup {"decide"} =>
                  app[there.a] = "PENDING" /\ step[there.a][there.i].st = "PENDING"
            /\ there.pc = "settle" => there.next = Verdict(Required(there.a), Seen(r)')
            /\ there.pc = "cancel" => app[there.a] = "PENDING"
  PROVE  Agreement'
  <1>1. req'[r] = there /\ \A q \in Request : q # r => req'[q] = req[q]
    BY DEF Grounds, TypeOK
  <1>2. \A b \in Approval : SameApproval(b)
    BY DEF SameApproval, Steps, Required
  <1>3. ReadsStillHold'
    <2> SUFFICES ASSUME NEW q \in Request, req'[q].a \in Approval \ overlap'
                 PROVE  ReadStillHolds(q)'
      BY DEF ReadsStillHold
    <2>1. CASE q = r
      BY <1>1, <2>1 DEF ReadStillHolds, Required
    <2>2. CASE q # r
      <3>1. req'[q] = req[q] /\ req[q].a \in Approval \ overlap /\ ReadStillHolds(q)
        BY <1>1, <2>2 DEF Agreement, ReadsStillHold
      <3>2. there.a # req[q].a
        BY <2>2, <3>1
      <3>3. \A p \in Request : req'[p].a = req[q].a => req[p].a = req[q].a
        BY <1>1, <3>2
      <3> QED BY <1>2, <3>1, <3>3, SameRead DEF Grounds
    <2> QED BY <2>1, <2>2
  <1>4. StatusMatchesSteps' /\ HaveSteps'
    BY DEF Agreement, StatusMatchesSteps, HaveSteps, Exists, Steps, Open, Required
  <1> QED BY <1>3, <1>4 DEF Agreement

LEMMA BeginAgreement ==
  ASSUME Grounds, Agreement, NEW r \in Request, NEW there, there.a \in Approval,
         Begin(r, there), there.pc \in {"decide", "cancel", "reopen"},
         there.pc = "decide" => app[there.a] = "PENDING" /\ step[there.a][there.i].st = "PENDING",
         there.pc = "cancel" => app[there.a] = "PENDING"
  PROVE  Agreement'
  <1>1. overlap' = overlap \/ overlap' = overlap \cup {there.a}
    BY DEF Begin
  <1>2. \A q \in Request \ {r} : there.a \in Approval \ overlap' => req[q].a # there.a
    BY DEF Begin, On
  <1>3. there.pc \notin Deciding
    BY DEF Deciding
  <1> QED BY <1>1, <1>2, <1>3, MoveAgreement DEF Begin, Deciding

LEMMA AdvanceAgreement ==
  ASSUME Grounds, Agreement, NEW r \in Request, LockStep(r) \/ Tally(r)
  PROVE  Agreement'
  <1> DEFINE there == req'[r]
             a == req[r].a
  <1>1. /\ UNCHANGED <<app, step, overlap>>
        /\ req' = [req EXCEPT ![r] = there]
        /\ there.a = a /\ there.i = req[r].i /\ there.as = req[r].as
        /\ req[r].pc \in {"decide", "tally"} /\ there.pc \in Deciding
        /\ there.pc = "settle" => there.next = Verdict(Required(a), Seen(r))
    BY DEF LockStep, Tally, Grounds, TypeOK, ReqState, Deciding
  <1>2. a \in Approval \ overlap => ReadStillHolds(r)
    BY DEF Agreement, ReadsStillHold
  <1>3. Seen(r)' = Seen(r)
    BY <1>1 DEF Seen
  <1>4. a \in Approval \ overlap =>
           /\ \A q \in Request : req[q].a = a => q = r
           /\ app[a] = "PENDING" /\ step[a][req[r].i].st = "PENDING"
    BY <1>1, <1>2 DEF ReadStillHolds, Deciding
  <1> QED BY <1>1, <1>3, <1>4, MoveAgreement

LEMMA StepAgreement ==
  ASSUME Grounds, Agreement, [Next]_vars
  PROVE  Agreement'
  <1>1. ASSUME UNCHANGED <<app, step, req, overlap>> PROVE Agreement'
    <2>1. Ending({})
      BY <1>1 DEF Ending, Grounds, TypeOK
    <2> QED BY <1>1, <2>1, EndAgreement
  <1>2. ASSUME NEW r \in Request, NEW steps, PrepareCreate(r, steps) PROVE Agreement'
    <2> DEFINE there == [Idle EXCEPT !.pc = "create", !.steps = steps]
    <2>1. there.a = Nil /\ there.pc = "create"
      BY DEF Idle
    <2> QED BY <1>2, <2>1, NilIsNothing, MoveAgreement DEF PrepareCreate
  <1>3. ASSUME NEW r \in Request, Create(r) PROVE Agreement'
    BY <1>2, <1>3, InsertAgreement DEF Create, CreateFromSteps, CreateFromDefinition
  <1>4. ASSUME NEW r \in Request, NEW a \in Approval, NEW i \in Order, NEW as \in Decision,
               DecideRead(r, a, i, as)
        PROVE  Agreement'
    <2> DEFINE there == [Idle EXCEPT !.pc = "decide", !.a = a, !.i = i, !.as = as]
    <2>1. there.a = a /\ there.pc = "decide" /\ there.i = i
      BY DEF Idle
    <2> QED BY <1>4, <2>1, BeginAgreement DEF DecideRead
  <1>5. ASSUME NEW r \in Request, NEW a \in Approval, CancelRead(r, a) PROVE Agreement'
    <2> DEFINE there == [Idle EXCEPT !.pc = "cancel", !.a = a]
    <2>1. there.a = a /\ there.pc = "cancel"
      BY DEF Idle
    <2> QED BY <1>5, <2>1, BeginAgreement DEF CancelRead
  <1>6. ASSUME NEW r \in Request, NEW a \in Approval, ReopenRead(r, a) PROVE Agreement'
    <2> DEFINE there == [Idle EXCEPT !.pc = "reopen", !.a = a]
    <2>1. there.a = a /\ there.pc = "reopen"
      BY DEF Idle
    <2> QED BY <1>6, <2>1, BeginAgreement DEF ReopenRead
  <1>7. ASSUME NEW r \in Request, Decide(r) PROVE Agreement'
    BY <1>4, <1>7, AdvanceAgreement, SettleAgreement DEF Decide
  <1>8. ASSUME NEW r \in Request, Abandon(r) PROVE Agreement'
    <2>1. Ending({r})
      BY <1>8 DEF Abandon, Ending, Grounds, TypeOK
    <2> QED BY <1>8, <2>1, EndAgreement DEF Abandon
  <1>9. ASSUME Define PROVE Agreement'
    BY <1>1, <1>9, DefineTypes DEF Grounds
  <1> QED
    BY <1>1, <1>3, <1>5, <1>6, <1>7, <1>8, <1>9, CancelAgreement, ReopenAgreement
    DEF Next, vars

(***************************************************************************)
(* The status of an approval on which requests came one after the other    *)
(* says what its steps say, and a pending one has a step left to decide.   *)
(***************************************************************************)
THEOREM StatusesMatchSteps == Spec => []StatusMatchesSteps
  <1>1. Init => Grounds /\ Agreement
    BY InitGrounds, InitAgreement
  <1>2. Grounds /\ Agreement /\ [Next]_vars => (Grounds /\ Agreement)'
    BY StepGrounds, StepAgreement
  <1>3. Agreement => StatusMatchesSteps
    BY DEF Agreement
  <1> QED BY <1>1, <1>2, <1>3, PTL DEF Spec
=============================================================================
