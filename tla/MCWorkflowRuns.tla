--------------------------- MODULE MCWorkflowRuns ---------------------------
(***************************************************************************)
(* Instances of WorkflowRuns for TLC.                                      *)
(***************************************************************************)
EXTENDS WorkflowRuns, TLC

CONSTANTS w1, w2, h1, h2, s1, s2, k1

\* Two workflows and two runs with keys, or one of each with nodes and a job.
NodesOrRuns ==
    \/ (\A n \in Node : kind[n] = "none") /\ (\A j \in Job : job[j].st = "none")
    \/ /\ Cardinality({w \in Workflow : wf[w].st # "none"}) <= 1
       /\ Cardinality({r \in Run : run[r].st # "none"}) <= 1
       /\ \A h \in Handler : ask[h].key = NoKey

NoNodes == {<<>>}
ShortLists == {<<>>, <<"CONTINUE">>, <<"STOP", "CONTINUE">>}

Requests == Permutations({h1, h2})
RequestsAndWorkflows == Requests \cup Permutations({w1, w2})
=============================================================================
