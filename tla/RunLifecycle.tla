---------------------------- MODULE RunLifecycle ----------------------------
(***************************************************************************)
(* What the workflow engine promises about a run, without handlers, queue  *)
(* or worker slots: a run has a status, a number of executions that are    *)
(* still owed to it (queued, delivered or under way) and a number of       *)
(* cancel requests under way.                                              *)
(*                                                                         *)
(*   - only an owed execution writes RUNNING, COMPLETED or FAILED;         *)
(*   - a run is cancelled only on behalf of a request that saw it open;    *)
(*   - an execution that is over leaves an open run only to another one    *)
(*     that is still owed, unless one was dropped.                         *)
(***************************************************************************)
EXTENDS Naturals

CONSTANT Run

VARIABLES
    st,       \* the status of each run
    owed,     \* executions owed to it
    asks,     \* cancel requests under way
    dropped   \* runs that lost an execution since they were last retried

vars == <<st, owed, asks, dropped>>

Status == {"PENDING", "RUNNING", "COMPLETED", "FAILED", "CANCELLED"}
Open == {"PENDING", "RUNNING"}

TypeOK ==
    /\ st \in [Run -> Status \cup {"none", "gone"}]
    /\ owed \in [Run -> Nat]
    /\ asks \in [Run -> Nat]
    /\ dropped \subseteq Run

Init ==
    /\ st = [r \in Run |-> "none"]
    /\ owed = [r \in Run |-> 0]
    /\ asks = [r \in Run |-> 0]
    /\ dropped = {}

Create(r) ==
    /\ st[r] = "none"
    /\ st' = [st EXCEPT ![r] = "PENDING"]
    /\ owed' = [owed EXCEPT ![r] = @ + 1]
    /\ UNCHANGED <<asks, dropped>>

\* A retry owes one more execution, or fails after it has reset the status.
Retry(r) ==
    /\ st[r] \in Status
    /\ st' = [st EXCEPT ![r] = "PENDING"]
    /\ \/ owed' = [owed EXCEPT ![r] = @ + 1] /\ dropped' = dropped \ {r}
       \/ dropped' = dropped \cup {r} /\ UNCHANGED owed
    /\ UNCHANGED asks

AskCancel(r) ==
    /\ st[r] \in Open
    /\ asks' = [asks EXCEPT ![r] = @ + 1]
    /\ UNCHANGED <<st, owed, dropped>>

Cancel(r) ==
    /\ st[r] \in Status /\ asks[r] > 0
    /\ st' = [st EXCEPT ![r] = "CANCELLED"]
    /\ asks' = [asks EXCEPT ![r] = @ - 1]
    /\ UNCHANGED <<owed, dropped>>

Work(r) ==
    /\ st[r] \in Status /\ owed[r] > 0
    /\ \E s \in {"RUNNING", "COMPLETED", "FAILED"} : st' = [st EXCEPT ![r] = s]
    /\ UNCHANGED <<owed, asks, dropped>>

Finish(r) ==
    /\ owed[r] > 0
    /\ st[r] \in Open => owed[r] > 1 \/ r \in dropped
    /\ owed' = [owed EXCEPT ![r] = @ - 1]
    /\ UNCHANGED <<st, asks, dropped>>

\* The queue delivers a job twice.
Redeliver(r) ==
    /\ owed[r] > 0
    /\ owed' = [owed EXCEPT ![r] = @ + 1]
    /\ UNCHANGED <<st, asks, dropped>>

Delete(R) ==
    /\ st' = [r \in Run |-> IF r \in R THEN "gone" ELSE st[r]]
    /\ UNCHANGED <<owed, asks, dropped>>

\* A crash or an exception ends executions and requests.
Lose ==
    /\ owed' \in [Run -> Nat] /\ asks' \in [Run -> Nat]
    /\ \A r \in Run : owed'[r] <= owed[r] /\ asks'[r] <= asks[r]
    /\ dropped' = dropped \cup {r \in Run : owed'[r] < owed[r]}
    /\ UNCHANGED st

Next ==
    \/ \E r \in Run : \/ Create(r) \/ Retry(r) \/ AskCancel(r) \/ Cancel(r)
                      \/ Work(r) \/ Finish(r) \/ Redeliver(r)
    \/ \E R \in SUBSET {r \in Run : st[r] # "none"} : Delete(R)
    \/ Lose

Spec == Init /\ [][Next]_vars

(***************************************************************************)
(* An open run is still owed an execution, unless one was dropped.         *)
(***************************************************************************)
NoneForgotten == \A r \in Run : st[r] \in Open => owed[r] > 0 \/ r \in dropped
=============================================================================
