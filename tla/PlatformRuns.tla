---------------------------- MODULE PlatformRuns ----------------------------
(***************************************************************************)
(* WorkflowRuns composed with the platform console: the site operations of *)
(* PlatformAdminService write the run rows of every tenant beside the      *)
(* tenants' own requests, and know nothing of the queue.                   *)
(***************************************************************************)
EXTENDS WorkflowRuns

CONSTANT Console    \* concurrent requests of platform administrators

VARIABLE site       \* the operation each of them has checked, and its run

siteVars == <<vars, site>>

Away == [op |-> "none", run |-> Nil]

SiteInit == Init /\ site = [c \in Console |-> Away]

\* The guards of retrySiteWorkflowRun and cancelSiteWorkflowRun.
SiteRead(c, op, r) ==
    /\ site[c] = Away
    /\ Exists(r)
    /\ op = "retry" => run[r].st # "RUNNING"
    /\ op = "cancel" => run[r].st \in Open
    /\ site' = [site EXCEPT ![c] = [op |-> op, run |-> r]]
    /\ UNCHANGED vars

\* Their updates are by id.  The retry adds no job and executes nothing.
SiteWrite(c) ==
    LET r == site[c].run
        st == IF site[c].op = "retry" THEN "PENDING" ELSE "CANCELLED"
    IN
    /\ site[c] # Away
    /\ run' = IF Exists(r) THEN [run EXCEPT ![r].st = st] ELSE run
    /\ site' = [site EXCEPT ![c] = Away]
    /\ UNCHANGED <<rows, queue, pc, cur, ask, todo, ghosts, faults>>

SiteNext ==
    \/ Next /\ UNCHANGED site
    \/ \E c \in Console : \/ \E op \in {"retry", "cancel"}, r \in Run : SiteRead(c, op, r)
                          \/ SiteWrite(c)

SiteSpec == SiteInit /\ [][SiteNext]_siteVars

(***************************************************************************)
(* A retry from the console brings the run back to somebody who executes   *)
(* it ("Retry a failed or cancelled workflow run from the platform         *)
(* console"): a run that it leaves PENDING is in the hands of a request, a *)
(* slot or a job, like every open run of the tenant's own API.             *)
(***************************************************************************)
SiteRetryExecutes ==
    [][\A c \in Console, r \in Run :
          /\ site[c] = [op |-> "retry", run |-> r] /\ site'[c] = Away
          /\ run'[r].st = "PENDING"
          => WorkersOf(r)' # {} \/ JobsOf(r)' # {}]_siteVars
=============================================================================
