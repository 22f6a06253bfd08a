----------------------------- MODULE Approvals -----------------------------
(***************************************************************************)
(* Approval requests: the handlers of WorkflowsService that create,        *)
(* decide, cancel and reopen approvals, and edit approval definitions.     *)
(*                                                                         *)
(* A decision reads the approval and checks its guards, and then, in a     *)
(* transaction of its own, updates one step, reads all the steps and       *)
(* writes the approval's status.  The transactions run at Postgres' READ   *)
(* COMMITTED level: a statement sees what was committed when it began and  *)
(* what its own transaction wrote, an updated row is locked until the      *)
(* transaction ends, and nothing keeps what was read from changing.        *)
(***************************************************************************)
EXTENDS Naturals, FiniteSets

CONSTANTS
    Approval,     \* approval rows
    Definition,   \* approval definition rows
    Order,        \* stepOrder values
    Templates,    \* the step lists that requests and definitions bring
    Request,      \* concurrent HTTP requests, and workflow runs that ask for approval
    Nil           \* no approval

ASSUME NilAssumption == Nil \notin Approval /\ Nil \notin Order

VARIABLES
    def,       \* definition rows: exists, isActive, archivedAt, step templates
    app,       \* approval rows: status
    step,      \* step rows: required, status
    req,       \* where each request is and what it carries
    said,      \* history: the decisions taken since an approval was opened
    overlap    \* history: approvals of which two requests were once at work

vars == <<def, app, step, req, said, overlap>>

-----------------------------------------------------------------------------

ApprovalStatus == {"PENDING", "APPROVED", "REJECTED", "CANCELLED"}
Decision == {"APPROVED", "REJECTED"}

\* Step templates: which step orders there are, and which of them are required.
Template == [Order -> {"required", "optional", "absent"}]
NoSteps == [i \in Order |-> "absent"]

ASSUME TemplatesAssumption == Templates \subseteq Template

DefState == [exists : BOOLEAN, active : BOOLEAN, archived : BOOLEAN, steps : Template]
StepState == [need : {"required", "optional", "absent"}, st : ApprovalStatus]

\* A decision is in its transaction from "tally" on: it has updated its step.
Deciding == {"tally", "settle"}
Pc == Deciding \cup {"idle", "create", "decide", "cancel", "reopen"}
ReqState == [pc : Pc, a : Approval \cup {Nil}, i : Order \cup {Nil}, as : Decision \cup {Nil},
             next : ApprovalStatus \cup {Nil}, steps : Template]

Idle == [pc |-> "idle", a |-> Nil, i |-> Nil, as |-> Nil, next |-> Nil, steps |-> NoSteps]

Exists(a) == app[a] \in ApprovalStatus
Steps(a) == {i \in Order : step[a][i].need # "absent"}
Required(a) == {i \in Order : step[a][i].need = "required"}
On(a) == {r \in Request : req[r].a = a}

Init ==
    /\ def = [d \in Definition |->
                [exists |-> FALSE, active |-> FALSE, archived |-> FALSE, steps |-> NoSteps]]
    /\ app = [a \in Approval |-> "none"]
    /\ step = [a \in Approval |-> [i \in Order |-> [need |-> "absent", st |-> "PENDING"]]]
    /\ req = [r \in Request |-> Idle]
    /\ said = [a \in Approval |-> {}]
    /\ overlap = {}

-----------------------------------------------------------------------------
(***************************************************************************)
(* Definitions.  Two overlapping updates may leave the steps of both when  *)
(* no stepOrder occurs twice: the same as one update with all of them.     *)
(***************************************************************************)
CreateDefinition(d, active, steps) ==
    /\ ~def[d].exists /\ steps # NoSteps
    /\ def' = [def EXCEPT ![d] = [exists |-> TRUE, active |-> active,
                                  archived |-> FALSE, steps |-> steps]]
    /\ UNCHANGED <<app, step, req, said, overlap>>

\* isActive and the steps are optional in the request: an update that leaves
\* them out writes the values that are there.
UpdateDefinition(d, active, steps) ==
    /\ def[d].exists
    /\ def' = [def EXCEPT ![d].active = active, ![d].steps = steps]
    /\ UNCHANGED <<app, step, req, said, overlap>>

ArchiveDefinition(d) ==
    /\ def[d].exists
    /\ def' = [def EXCEPT ![d].archived = TRUE, ![d].active = FALSE]
    /\ UNCHANGED <<app, step, req, said, overlap>>

\* restore clears archivedAt only: the definition stays inactive.
RestoreDefinition(d) ==
    /\ def[d].exists
    /\ def' = [def EXCEPT ![d].archived = FALSE]
    /\ UNCHANGED <<app, step, req, said, overlap>>

-----------------------------------------------------------------------------
(***************************************************************************)
(* createApprovalInternal, from a request or from a workflow node: it      *)
(* takes its steps from the request or copies those of a definition,       *)
(* resolves the approvers one await at a time, and inserts the approval    *)
(* with its steps.  The notification that follows may fail; the rows stay. *)
(* (Bound: no more creations than there are approvals left to create.)     *)
(***************************************************************************)
PrepareCreate(r, steps) ==
    /\ req[r].pc = "idle" /\ steps # NoSteps
    /\ Cardinality({q \in Request : req[q].pc = "create"})
          < Cardinality({a \in Approval : app[a] = "none"})
    /\ req' = [req EXCEPT ![r] = [Idle EXCEPT !.pc = "create", !.steps = steps]]
    /\ UNCHANGED <<def, app, step, said, overlap>>

CreateFromSteps(r, steps) == PrepareCreate(r, steps)

CreateFromDefinition(r, d) ==
    /\ def[d].exists /\ def[d].active /\ ~def[d].archived
    /\ PrepareCreate(r, def[d].steps)

InsertApproval(r, a) ==
    /\ req[r].pc = "create"
    /\ app[a] = "none"
    /\ app' = [app EXCEPT ![a] = "PENDING"]
    /\ step' = [step EXCEPT ![a] =
                  [i \in Order |-> [need |-> req[r].steps[i], st |-> "PENDING"]]]
    /\ req' = [req EXCEPT ![r] = Idle]
    /\ UNCHANGED <<def, said, overlap>>

-----------------------------------------------------------------------------

\* A request has read approval a and goes on to write it.
Begin(r, there) ==
    /\ req[r].pc = "idle"
    /\ req' = [req EXCEPT ![r] = there]
    /\ overlap' = IF On(there.a) = {} THEN overlap ELSE overlap \cup {there.a}
    /\ UNCHANGED <<def, app, step, said>>

\* The guards of decideStep.  Nothing asks for the steps before i to be
\* decided; an approver and a manager may decide the same step.
DecideRead(r, a, i, as) ==
    /\ app[a] = "PENDING"
    /\ i \in Steps(a) /\ step[a][i].st = "PENDING"
    /\ Begin(r, [Idle EXCEPT !.pc = "decide", !.a = a, !.i = i, !.as = as])

\* The transaction's first statement: the step row is updated, and locked.
LockStep(r) ==
    /\ req[r].pc = "decide"
    /\ \A q \in On(req[r].a) : req[q].i = req[r].i => req[q].pc \notin Deciding
    /\ req' = [req EXCEPT ![r].pc = "tally"]
    /\ UNCHANGED <<def, app, step, said, overlap>>

\* The steps of its approval as r's transaction sees them.
Seen(r) == [i \in Order |-> IF i = req[r].i THEN req[r].as ELSE step[req[r].a][i].st]

\* What the steps seen say.  With no required step any decision approves.
\* Mutant: one approved step is enough.
AnyApproves(need, seen) ==
    IF \E i \in need : seen[i] = "REJECTED" THEN "REJECTED"
    ELSE IF \E i \in need : seen[i] = "APPROVED" THEN "APPROVED"
    ELSE "PENDING"
Verdict(need, seen) ==
    IF \E i \in need : seen[i] = "REJECTED" THEN "REJECTED"
    ELSE IF \A i \in need : seen[i] = "APPROVED" THEN "APPROVED"
    ELSE "PENDING"

\* The second statement reads the steps.
Tally(r) ==
    /\ req[r].pc = "tally"
    /\ req' = [req EXCEPT ![r].pc = "settle",
                          ![r].next = Verdict(Required(req[r].a), Seen(r))]
    /\ UNCHANGED <<def, app, step, said, overlap>>

\* Mutant: the approval is written before the steps are read.
SettleEarly(r) ==
    LET a == req[r].a IN
    /\ req[r].pc \in Deciding
    /\ step' = [step EXCEPT ![a][req[r].i].st = req[r].as]
    /\ app' = [app EXCEPT ![a] = req[r].next]
    /\ said' = [said EXCEPT ![a] = @ \cup {<<req[r].i, req[r].as>>}]
    /\ req' = [req EXCEPT ![r] = Idle]
    /\ UNCHANGED <<def, overlap>>

\* The third statement writes the approval, whatever its status is by then,
\* and the transaction commits.
Settle(r) ==
    LET a == req[r].a IN
    /\ req[r].pc = "settle"
    /\ step' = [step EXCEPT ![a][req[r].i].st = req[r].as]
    /\ app' = [app EXCEPT ![a] = req[r].next]
    /\ said' = [said EXCEPT ![a] = @ \cup {<<req[r].i, req[r].as>>}]
    /\ req' = [req EXCEPT ![r] = Idle]
    /\ UNCHANGED <<def, overlap>>

\* The guards of cancelApproval and reopenApproval.
CancelRead(r, a) ==
    /\ app[a] = "PENDING"
    /\ Begin(r, [Idle EXCEPT !.pc = "cancel", !.a = a])

ReopenRead(r, a) ==
    /\ Exists(a) /\ app[a] # "PENDING"
    /\ Begin(r, [Idle EXCEPT !.pc = "reopen", !.a = a])

\* Decisions under way that hold the lock of a step in S.
Holders(a, S) == {q \in On(a) : req[q].pc \in Deciding /\ req[q].i \in S}

\* cancel and reopen write the approval and the steps S in one transaction.
\* A decision that holds one of these steps needs the approval next: the two
\* wait for each other, and Postgres ends one of them with an error.
Overrule(r, S) ==
    LET a == req[r].a IN
    req' = [q \in Request |-> IF q = r \/ q \in Holders(a, S) THEN Idle ELSE req[q]]

GiveWay(r, S) ==
    /\ Holders(req[r].a, S) # {}
    /\ req' = [req EXCEPT ![r] = Idle]
    /\ UNCHANGED <<def, app, step, said, overlap>>

Open(a) == {i \in Steps(a) : step[a][i].st = "PENDING"}

\* Mutant: cancelApproval leaves the steps alone.
CancelApprovalOnly(r) ==
    LET a == req[r].a IN
    /\ req[r].pc = "cancel"
    /\ app' = [app EXCEPT ![a] = "CANCELLED"]
    /\ req' = [req EXCEPT ![r] = Idle]
    /\ UNCHANGED <<def, step, said, overlap>>

CancelApproval(r) ==
    LET a == req[r].a IN
    /\ req[r].pc = "cancel"
    /\ \/ /\ app' = [app EXCEPT ![a] = "CANCELLED"]
          /\ step' = [step EXCEPT ![a] =
                        [i \in Order |-> IF i \in Open(a)
                                         THEN [step[a][i] EXCEPT !.st = "CANCELLED"]
                                         ELSE step[a][i]]]
          /\ Overrule(r, Open(a))
          /\ UNCHANGED <<def, said, overlap>>
       \/ GiveWay(r, Open(a))

\* A reopening that nobody interferes with puts everything in order again.
ReopenApproval(r) ==
    LET a == req[r].a IN
    /\ req[r].pc = "reopen"
    /\ \/ /\ app' = [app EXCEPT ![a] = "PENDING"]
          /\ step' = [step EXCEPT ![a] =
                        [i \in Order |-> [step[a][i] EXCEPT !.st = "PENDING"]]]
          /\ said' = [said EXCEPT ![a] = {}]
          /\ Overrule(r, Steps(a))
          /\ overlap' = IF On(a) = {r} THEN overlap \ {a} ELSE overlap
          /\ UNCHANGED def
       \/ GiveWay(r, Steps(a))

\* A request ends without its write: an approver that does not resolve, a
\* database error, the transaction's time limit, or a crash.  Postgres rolls
\* the transaction back.
Abandon(r) ==
    /\ req[r].pc # "idle"
    /\ req' = [req EXCEPT ![r] = Idle]
    /\ UNCHANGED <<def, app, step, said, overlap>>

-----------------------------------------------------------------------------

Define ==
    \E d \in Definition :
        \/ \E active \in BOOLEAN, steps \in Templates :
              CreateDefinition(d, active, steps) \/ UpdateDefinition(d, active, steps)
        \/ ArchiveDefinition(d)
        \/ RestoreDefinition(d)

Decide(r) ==
    \/ \E a \in Approval, i \in Order, as \in Decision : DecideRead(r, a, i, as)
    \/ LockStep(r)
    \/ Tally(r)
    \/ Settle(r)

Create(r) ==
    \/ \E steps \in Templates : CreateFromSteps(r, steps)
    \/ \E d \in Definition : CreateFromDefinition(r, d)
    \/ \E a \in Approval : InsertApproval(r, a)

Next ==
    \/ Define
    \/ \E r \in Request :
          \/ Create(r)
          \/ Decide(r)
          \/ \E a \in Approval : CancelRead(r, a) \/ ReopenRead(r, a)
          \/ CancelApproval(r)
          \/ ReopenApproval(r)
          \/ Abandon(r)

Spec == Init /\ [][Next]_vars

-----------------------------------------------------------------------------

TypeOK ==
    /\ def \in [Definition -> DefState]
    /\ app \in [Approval -> ApprovalStatus \cup {"none"}]
    /\ step \in [Approval -> [Order -> StepState]]
    /\ req \in [Request -> ReqState]
    /\ said \in [Approval -> SUBSET (Order \X Decision)]
    /\ overlap \subseteq Approval

(***************************************************************************)
(* However requests interleave, an approval is approved only if each of    *)
(* its required steps was approved after it was last opened, and rejected  *)
(* only if one of them was rejected since: an approval given before a      *)
(* cancel and reopen never counts again.                                   *)
(***************************************************************************)
DecidedOnGrounds ==
    \A a \in Approval :
        /\ app[a] = "APPROVED" => \A i \in Required(a) : <<i, "APPROVED">> \in said[a]
        /\ app[a] = "REJECTED" => \E i \in Required(a) : <<i, "REJECTED">> \in said[a]

(***************************************************************************)
(* As long as the requests on an approval come one after the other, its    *)
(* status says what its steps say, and an approval that is pending has a   *)
(* step that somebody can still decide.  Reopening restores this after     *)
(* requests that did overlap.                                              *)
(***************************************************************************)
StatusMatchesSteps ==
    \A a \in Approval : a \notin overlap =>
        /\ app[a] = "PENDING" =>
              /\ Open(a) # {}
              /\ \A i \in Required(a) : step[a][i].st \in {"PENDING", "APPROVED"}
        /\ app[a] = "APPROVED" => \A i \in Required(a) : step[a][i].st = "APPROVED"
        /\ app[a] = "REJECTED" => \E i \in Required(a) : step[a][i].st = "REJECTED"
        /\ app[a] = "CANCELLED" => Open(a) = {}

(***************************************************************************)
(* An approval that is decided or cancelled stays as it is until somebody  *)
(* reopens it ("Approval is already decided").                             *)
(***************************************************************************)
DecidedIsFinal ==
    [][\A a \in Approval : app[a] \in {"APPROVED", "REJECTED", "CANCELLED"} =>
          \/ app'[a] = app[a]
          \/ \E r \in Request : req[r].pc = "reopen" /\ req[r].a = a /\ req'[r] = Idle]_vars
=============================================================================
