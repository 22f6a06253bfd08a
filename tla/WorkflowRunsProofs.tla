------------------------- MODULE WorkflowRunsProofs -------------------------
(***************************************************************************)
(* Proofs about WorkflowRuns, for every set of workflows, keys, requests   *)
(* and slots and every value of the bounds.                                *)
(***************************************************************************)
EXTENDS WorkflowRuns, SequenceTheorems, TLAPS

(***************************************************************************)
(* The references between processes, jobs and rows that the types leave    *)
(* open: a process that works on a run or a workflow has one, a queued job *)
(* has a run and an attempt left, and a row that was created has a         *)
(* workflow.                                                               *)
(***************************************************************************)
References ==
    /\ \A p \in Proc :
          /\ pc[p] \in Working \cup {"answer", "retry", "cancel"} => cur[p] \in Run
          /\ pc[p] \in {"run", "create", "delete"} => ask[p].wf \in Workflow
    /\ \A j \in Job : job[j].st # "none" => job[j].run \in Run
    /\ \A j \in Job : job[j].st \in {"none", "waiting", "active"} => job[j].tries < Attempts
    /\ \A r \in Run : run[r].st # "none" => run[r].wf \in Workflow

Base == TypeOK /\ References /\ LocksMatch

LEMMA EditsOnlyRows == ASSUME Edit PROVE OnlyRows
  <1>1. PICK w \in Workflow :
        \/ \E a \in BOOLEAN, ks \in NodeLists : CreateWorkflow(w, a, ks)
        \/ \E a \in BOOLEAN : UpdateWorkflow(w, a)
        \/ ArchiveWorkflow(w)
        \/ RestoreWorkflow(w)
        \/ \E ks \in NodeLists : ReplaceNodes(w, ks)
        \/ \E i \in 0..MaxNodes, k \in NodeKind : CreateNode(w, i, k)
        \/ \E i, j \in 1..MaxNodes, k \in NodeKind : UpdateNode(w, i, j, k)
        \/ \E i \in 1..MaxNodes : DeleteNode(w, i)
    BY DEF Edit
  <1>2. \A a, ks : CreateWorkflow(w, a, ks) => OnlyRows
    BY DEF CreateWorkflow
  <1>3. \A a : UpdateWorkflow(w, a) => OnlyRows
    BY DEF UpdateWorkflow
  <1>4. ArchiveWorkflow(w) \/ RestoreWorkflow(w) => OnlyRows
    BY DEF ArchiveWorkflow, RestoreWorkflow
  <1>5. \A ks : ReplaceNodes(w, ks) => OnlyRows
    BY DEF ReplaceNodes
  <1>6. \A i, k : CreateNode(w, i, k) => OnlyRows
    BY DEF CreateNode
  <1>7. \A i, j, k : UpdateNode(w, i, j, k) => OnlyRows
    BY DEF UpdateNode
  <1>8. \A i : DeleteNode(w, i) => OnlyRows
    BY DEF DeleteNode
  <1> QED BY <1>1, <1>2, <1>3, <1>4, <1>5, <1>6, <1>7, <1>8

-----------------------------------------------------------------------------

LEMMA InitBase == Init => Base
  BY ProcAssumption, BoundsAssumption, NilAssumption
  DEF Init, Base, TypeOK, References, LocksMatch, WfState, RunState, JobState, Ask, NoAsk,
      Keys, Pc, Working, Executing, Proc, RunStatus, Run, Job

LEMMA ThrowBase ==
  ASSUME Base, NEW p \in Proc, NEW r \in Run \cup {Nil}, Throw(p, r),
         UNCHANGED <<wf, nodes, kind>>, run' \in [Run -> RunState],
         \A q \in Run : run'[q].st # "none" => run'[q].wf \in Workflow,
         grants' \in [Run -> Nat], faults' \in 0..MaxFaults
  PROVE  Base'
  <1>1. job' \in [Job -> JobState]
    <2>1. CASE held[p] = Nil
      BY <2>1 DEF Base, TypeOK, Throw
    <2>2. CASE held[p] # Nil
      <3>1. held[p] \in Job /\ job[held[p]].tries \in 0..(Attempts - 1)
        BY <2>2, BoundsAssumption DEF Base, TypeOK, LocksMatch, References, JobState
      <3>2. \A j \in Job : job'[j] \in JobState
        <4> SUFFICES ASSUME NEW j \in Job PROVE job'[j] \in JobState
          OBVIOUS
        <4>1. CASE j # held[p]
          BY <2>2, <4>1 DEF Base, TypeOK, Throw
        <4>2. CASE j = held[p]
          <5>1. job[j] \in JobState /\ job[j].tries + 1 \in 0..Attempts
            BY <3>1, <4>2, BoundsAssumption, SMTT(30) DEF Base, TypeOK
          <5>2. job'[j] = [job[j] EXCEPT !.st = IF LastTry(p) THEN "dead" ELSE "waiting",
                                         !.tries = job[j].tries + 1]
            BY <2>2, <4>2 DEF Base, TypeOK, Throw
          <5> QED BY <5>1, <5>2 DEF JobState
        <4> QED BY <4>1, <4>2
      <3>3. job' = [j \in Job |-> job'[j]]
        BY <2>2 DEF Base, TypeOK, Throw
      <3> QED BY <3>2, <3>3
    <2> QED BY <2>1, <2>2
  <1>2. ask' \in [Proc -> Ask]
    BY DEF Base, TypeOK, Throw, Ask, NoAsk, Keys
  <1>3. TypeOK'
    <2>1. pc' \in [Proc -> Pc]
      BY DEF Base, TypeOK, Throw, Step, Pc
    <2>2. cur' \in [Proc -> Run \cup {Nil}]
      BY DEF Base, TypeOK, Throw, Forget
    <2>3. held' \in [Proc -> Job \cup {Nil}]
      BY DEF Base, TypeOK, Throw, Forget
    <2>4. todo' \in [Proc -> Seq(Pending)]
      BY DEF Base, TypeOK, Throw, Forget
    <2>5. lost' \subseteq Run
      BY DEF Base, TypeOK, Throw
    <2> QED BY <1>1, <1>2, <2>1, <2>2, <2>3, <2>4, <2>5 DEF Base, TypeOK
  <1>4. \A j \in Job : job'[j].st # "none" => job'[j].run \in Run
    BY DEF Base, TypeOK, References, LocksMatch, Throw, JobState
  <1>5. \A j \in Job : job'[j].st \in {"none", "waiting", "active"} => job'[j].tries < Attempts
    <2> SUFFICES ASSUME NEW j \in Job, job'[j].st \in {"none", "waiting", "active"}
                 PROVE  job'[j].tries < Attempts
      OBVIOUS
    <2>1. CASE held[p] = Nil \/ j # held[p]
      BY <2>1 DEF Base, TypeOK, References, Throw
    <2>2. CASE held[p] # Nil /\ j = held[p]
      BY <2>2, BoundsAssumption DEF Base, TypeOK, Throw, LastTry, JobState
    <2> QED BY <2>1, <2>2
  <1>6. References'
    BY <1>4, <1>5
    DEF Base, TypeOK, References, Throw, Forget, Step, Pc, Working, Executing
  <1>7. LocksMatch'
    BY ProcAssumption, BoundsAssumption, NilAssumption
    DEF Base, TypeOK, References, LocksMatch, Throw, Forget, Step, LastTry, JobState, Ask, NoAsk,
        Keys, Pc, Working, Executing
  <1> QED BY <1>3, <1>6, <1>7 DEF Base

LEMMA ForgetType ==
  ASSUME TypeOK, NEW p \in Proc, Forget(p)
  PROVE  /\ cur' \in [Proc -> Run \cup {Nil}]
         /\ todo' \in [Proc -> Seq(Pending)]
         /\ held' \in [Proc -> Job \cup {Nil}]
  <1>1. cur' \in [Proc -> Run \cup {Nil}]
    BY DEF TypeOK, Forget
  <1>2. todo' \in [Proc -> Seq(Pending)]
    BY DEF TypeOK, Forget
  <1>3. held' \in [Proc -> Job \cup {Nil}]
    BY DEF TypeOK, Forget
  <1> QED BY <1>1, <1>2, <1>3

LEMMA ReturnBase ==
  ASSUME Base, NEW h \in Handler, Return(h),
         UNCHANGED <<lost, grants, faults>>,
         wf' \in [Workflow -> WfState], nodes' \in [Workflow -> Seq(Node)],
         kind' \in [Node -> NodeKind \cup {"none", "gone"}],
         run' \in [Run -> RunState],
         \A q \in Run : run'[q].st # "none" => run'[q].wf \in Workflow
  PROVE  Base'
  <1>0. h \in Proc
    BY DEF Proc
  <1>1. /\ ask' \in [Proc -> Ask]
        /\ pc'[h] \in {"idle", "run"}
        /\ pc' = [pc EXCEPT ![h] = pc'[h]]
        /\ ask' = [ask EXCEPT ![h] = ask'[h]]
        /\ pc'[h] = "run" => ask'[h].wf \in Workflow
    <2>1. CASE ask[h].rest = {}
      <3>1. NoAsk \in Ask
        BY DEF NoAsk, Ask, Keys
      <3>2. pc' = [pc EXCEPT ![h] = "idle"] /\ ask' = [ask EXCEPT ![h] = NoAsk]
        BY <2>1 DEF Return, Step
      <3> QED BY <1>0, <3>1, <3>2 DEF Base, TypeOK
    <2>2. CASE ask[h].rest # {}
      <3>1. PICK w \in ask[h].rest :
              Step(h, "run") /\ ask' = [ask EXCEPT ![h].wf = w, ![h].rest = @ \ {w}]
        BY <2>2 DEF Return
      <3>2. ask[h] \in Ask /\ w \in Workflow
        BY <1>0 DEF Base, TypeOK, Ask
      <3>3. [ask[h] EXCEPT !.wf = w, !.rest = @ \ {w}] \in Ask
        BY <3>2 DEF Ask
      <3>4. ask' = [ask EXCEPT ![h] = [ask[h] EXCEPT !.wf = w, !.rest = @ \ {w}]]
        BY <1>0, <3>1 DEF Base, TypeOK
      <3> QED BY <1>0, <3>1, <3>2, <3>3, <3>4, ZenonT(30) DEF Base, TypeOK, Step, Ask
    <2> QED BY <2>1, <2>2
  <1>2. pc' \in [Proc -> Pc]
    BY <1>0, <1>1 DEF Base, TypeOK, Pc
  <1>3. TypeOK'
    BY <1>0, <1>1, <1>2, ForgetType DEF Base, TypeOK, Return
  <1>4. References'
    BY <1>0, <1>1 DEF Base, TypeOK, References, Return, Forget, Working, Executing
  <1>5. LocksMatch'
    BY <1>0, <1>1, ProcAssumption, NilAssumption
    DEF Base, TypeOK, LocksMatch, Return, Forget, Working, Executing
  <1> QED BY <1>3, <1>4, <1>5 DEF Base

\* A step that changes neither jobs nor processes.
LEMMA RowsBase ==
  ASSUME Base, OnlyRows,
         wf' \in [Workflow -> WfState], nodes' \in [Workflow -> Seq(Node)],
         kind' \in [Node -> NodeKind \cup {"none", "gone"}]
  PROVE  Base'
  BY DEF Base, TypeOK, References, LocksMatch, OnlyRows, queue, ghosts

LEMMA SaveNodesType ==
  ASSUME TypeOK, NEW w \in Workflow, NEW ks \in NodeLists, SaveNodes(w, ks)
  PROVE  /\ nodes' \in [Workflow -> Seq(Node)]
         /\ kind' \in [Node -> NodeKind \cup {"none", "gone"}]
  <1>1. ks \in Seq(NodeKind) /\ Len(ks) \in Nat
    BY NodeListsAssumption
  <1>2. PICK base \in 0..(MaxNodes - Len(ks)) :
          /\ nodes' = [nodes EXCEPT ![w] = [i \in 1..Len(ks) |-> base + i]]
          /\ kind' = [n \in Node |->
                        IF \E i \in 1..Len(nodes[w]) : nodes[w][i] = n THEN "gone"
                        ELSE IF n - base \in 1..Len(ks) THEN ks[n - base]
                        ELSE kind[n]]
    BY DEF SaveNodes
  <1>3. [i \in 1..Len(ks) |-> base + i] \in Seq(Node)
    BY <1>1, BoundsAssumption DEF Node
  <1>4. \A i \in 1..Len(ks) : ks[i] \in NodeKind
    BY <1>1
  <1> QED BY <1>2, <1>3, <1>4 DEF TypeOK

LEMMA EditBase == ASSUME Base, Edit PROVE Base'
  <1> PICK w \in Workflow :
        \/ \E a \in BOOLEAN, ks \in NodeLists : CreateWorkflow(w, a, ks)
        \/ \E a \in BOOLEAN : UpdateWorkflow(w, a)
        \/ ArchiveWorkflow(w)
        \/ RestoreWorkflow(w)
        \/ \E ks \in NodeLists : ReplaceNodes(w, ks)
        \/ \E i \in 0..MaxNodes, k \in NodeKind : CreateNode(w, i, k)
        \/ \E i, j \in 1..MaxNodes, k \in NodeKind : UpdateNode(w, i, j, k)
        \/ \E i \in 1..MaxNodes : DeleteNode(w, i)
    BY DEF Edit
  <1> USE DEF Base
  <1>0. wf \in [Workflow -> WfState] /\ nodes[w] \in Seq(Node) /\ TypeOK
    BY DEF TypeOK
  <1>1. CASE \E a \in BOOLEAN, ks \in NodeLists : CreateWorkflow(w, a, ks)
    <2>1. wf' \in [Workflow -> WfState]
      BY <1>0, <1>1 DEF CreateWorkflow, WfState
    <2> QED BY <1>0, <1>1, <2>1, SaveNodesType, RowsBase DEF CreateWorkflow
  <1>2. CASE \E a \in BOOLEAN : UpdateWorkflow(w, a)
    <2>1. wf' \in [Workflow -> WfState]
      BY <1>0, <1>2 DEF UpdateWorkflow, WfState
    <2> QED BY <1>2, <2>1, RowsBase DEF UpdateWorkflow, TypeOK
  <1>3. CASE ArchiveWorkflow(w)
    <2>1. wf' \in [Workflow -> WfState]
      BY <1>0, <1>3 DEF ArchiveWorkflow, Archived, WfState
    <2> QED BY <1>3, <2>1, RowsBase DEF ArchiveWorkflow, TypeOK
  <1>4. CASE RestoreWorkflow(w)
    <2>1. wf' \in [Workflow -> WfState]
      BY <1>0, <1>4 DEF RestoreWorkflow, WfState
    <2> QED BY <1>4, <2>1, RowsBase DEF RestoreWorkflow, TypeOK
  <1>5. CASE \E ks \in NodeLists : ReplaceNodes(w, ks)
    BY <1>0, <1>5, SaveNodesType, RowsBase DEF ReplaceNodes
  <1>6. CASE \E i \in 0..MaxNodes, k \in NodeKind : CreateNode(w, i, k)
    <2> PICK i \in 0..MaxNodes, k \in NodeKind : CreateNode(w, i, k)
      BY <1>6
    <2> PICK n \in Node :
          /\ kind' = [kind EXCEPT ![n] = k]
          /\ nodes' = [nodes EXCEPT ![w] =
                         SubSeq(@, 1, i) \o <<n>> \o SubSeq(@, i + 1, Len(@))]
      BY DEF CreateNode
    <2>1. SubSeq(nodes[w], 1, i) \in Seq(Node) /\ SubSeq(nodes[w], i + 1, Len(nodes[w])) \in Seq(Node)
      BY <1>0, BoundsAssumption, SubSeqProperties DEF CreateNode
    <2>2. SubSeq(nodes[w], 1, i) \o <<n>> \o SubSeq(nodes[w], i + 1, Len(nodes[w])) \in Seq(Node)
      BY <2>1, ConcatProperties
    <2> QED BY <2>2, RowsBase DEF CreateNode, TypeOK
  <1>7. CASE \E i, j \in 1..MaxNodes, k \in NodeKind : UpdateNode(w, i, j, k)
    <2> PICK i \in 1..MaxNodes, j \in 1..MaxNodes, k \in NodeKind : UpdateNode(w, i, j, k)
      BY <1>7
    <2>1. [nodes[w] EXCEPT ![i] = nodes[w][j], ![j] = nodes[w][i]] \in Seq(Node)
      BY <1>0 DEF UpdateNode
    <2>2. nodes' = [nodes EXCEPT ![w] = [nodes[w] EXCEPT ![i] = nodes[w][j], ![j] = nodes[w][i]]]
      BY <1>0 DEF UpdateNode, TypeOK
    <2>3. nodes' \in [Workflow -> Seq(Node)]
      BY <2>1, <2>2 DEF TypeOK
    <2> QED BY <2>3, RowsBase DEF UpdateNode, TypeOK
  <1>8. CASE \E i \in 1..MaxNodes : DeleteNode(w, i)
    <2> PICK i \in 1..MaxNodes : DeleteNode(w, i)
      BY <1>8
    <2>1. SubSeq(nodes[w], 1, i - 1) \in Seq(Node) /\ SubSeq(nodes[w], i + 1, Len(nodes[w])) \in Seq(Node)
      BY <1>0, BoundsAssumption, SubSeqProperties DEF DeleteNode
    <2>2. SubSeq(nodes[w], 1, i - 1) \o SubSeq(nodes[w], i + 1, Len(nodes[w])) \in Seq(Node)
      BY <2>1, ConcatProperties
    <2> QED BY <2>2, RowsBase DEF DeleteNode, TypeOK
  <1> QED BY <1>1, <1>2, <1>3, <1>4, <1>5, <1>6, <1>7, <1>8

\* A step that moves one process and changes neither its run, nor its locks,
\* nor the jobs.
LEMMA StepBase ==
  ASSUME Base, NEW p \in Proc, NEW there \in Pc, Step(p, there),
         UNCHANGED <<wf, nodes, kind, job, held>>,
         lost' \subseteq Run, grants' \in [Run -> Nat], faults' \in 0..MaxFaults,
         run' \in [Run -> RunState],
         \A q \in Run : run'[q].st # "none" => run'[q].wf \in Workflow,
         todo' \in [Proc -> Seq(Pending)],
         cur' \in [Proc -> Run \cup {Nil}],
         \A q \in Proc \ {p} : cur'[q] = cur[q] /\ ask'[q] = ask[q],
         held[p] # Nil => there \in Executing /\ cur'[p] = cur[p],
         there \in Working \cup {"answer", "retry", "cancel"} => cur'[p] \in Run,
         ask' \in [Proc -> Ask],
         there \in {"run", "create", "delete"} => ask'[p].wf \in Workflow
  PROVE  Base'
  <1>1. pc' = [pc EXCEPT ![p] = there]
    BY DEF Step
  <1>2. TypeOK'
    BY <1>1 DEF Base, TypeOK
  <1>3. References'
    BY <1>1 DEF Base, TypeOK, References
  <1>4. LocksMatch'
    BY <1>1 DEF Base, TypeOK, LocksMatch
  <1> QED BY <1>2, <1>3, <1>4 DEF Base

LEMMA ReceiveBase == ASSUME Base, NEW h \in Handler, Receive(h) PROVE Base'
  <1>0. h \in Proc /\ h \notin Slot /\ held[h] = Nil
    BY ProcAssumption DEF Proc, Base, LocksMatch
  <1>1. ASSUME NEW ws \in SUBSET Workflow, NEW k \in Keys, Request(h, ws, k) PROVE Base'
    <2>1. PICK w \in ws : ask' = [ask EXCEPT ![h] = [wf |-> w, key |-> k, rest |-> ws \ {w}]]
      BY <1>1 DEF Request
    <2>2. [wf |-> w, key |-> k, rest |-> ws \ {w}] \in Ask
      BY DEF Ask
    <2>3. ask' \in [Proc -> Ask] /\ ask'[h].wf \in Workflow /\ \A q \in Proc \ {h} : ask'[q] = ask[q]
      BY <1>0, <2>1, <2>2 DEF Base, TypeOK
    <2> QED
      BY <1>0, <1>1, <2>3, StepBase
      DEF Request, Base, TypeOK, References, queue, rows, ghosts, Pc, Working, Executing
  <1>2. ASSUME NEW r \in Run \cup {Nil}, NEW w \in Workflow \cup {Nil},
               NEW there \in {"retry", "cancel", "delete"}, Ready(h, there, r, w),
               there = "delete" => w \in Workflow,
               there # "delete" => r \in Run
        PROVE  Base'
    <2>1. ask' = [ask EXCEPT ![h] = [ask[h] EXCEPT !.wf = w]] /\ ask[h] \in Ask
      BY <1>0, <1>2 DEF Ready, Base, TypeOK
    <2>2. [ask[h] EXCEPT !.wf = w] \in Ask /\ [ask[h] EXCEPT !.wf = w].wf = w
      BY <2>1 DEF Ask
    <2>3. /\ ask' \in [Proc -> Ask] /\ ask'[h].wf = w /\ \A q \in Proc \ {h} : ask'[q] = ask[q]
      BY <1>0, <2>1, <2>2 DEF Base, TypeOK
    <2>4. cur' \in [Proc -> Run \cup {Nil}] /\ cur'[h] = r /\ \A q \in Proc \ {h} : cur'[q] = cur[q]
      BY <1>0, <1>2 DEF Ready, Base, TypeOK
    <2> QED
      BY <1>0, <1>2, <2>3, <2>4, StepBase
      DEF Ready, Base, TypeOK, References, queue, rows, ghosts, Pc, Working, Executing
  <1>3. CASE \E w \in Workflow, k \in Keys : RequestRun(h, w, k)
    BY <1>1, <1>3 DEF RequestRun
  <1>4. CASE \E k \in Keys : TriggerEvent(h, k)
    BY <1>1, <1>4 DEF TriggerEvent
  <1>5. CASE \E r \in Run : RetryRead(h, r)
    BY <1>2, <1>5 DEF RetryRead
  <1>6. CASE \E r \in Run : CancelRead(h, r)
    BY <1>2, <1>6 DEF CancelRead
  <1>7. CASE \E w \in Workflow : DeleteRead(h, w)
    BY <1>2, <1>7 DEF DeleteRead
  <1>8. CASE \E w \in Workflow : ArchiveInstead(h, w)
    <2>1. PICK w \in Workflow : ArchiveWorkflow(w)
      BY <1>8 DEF ArchiveInstead
    <2> QED BY <2>1, EditBase DEF Edit
  <1> QED BY <1>3, <1>4, <1>5, <1>6, <1>7, <1>8 DEF Receive

LEMMA AddJobType ==
  ASSUME Base, NEW r \in Run, AddJob(r)
  PROVE  /\ job' \in [Job -> JobState]
         /\ \A i \in Job : job'[i].st # "none" => job'[i].run \in Run
         /\ \A i \in Job : job'[i].st \in {"none", "waiting", "active"} => job'[i].tries < Attempts
         /\ \A i \in Job : job[i].st # "none" => job'[i] = job[i]
  <1>1. PICK j \in Job : NextJob(j) /\ job' = [job EXCEPT ![j].st = "waiting", ![j].run = r]
    BY DEF AddJob
  <1>2. job[j] \in JobState /\ job' = [job EXCEPT ![j] = [job[j] EXCEPT !.st = "waiting", !.run = r]]
    BY <1>1 DEF Base, TypeOK
  <1>3. [job[j] EXCEPT !.st = "waiting", !.run = r] \in JobState
    BY <1>2 DEF JobState
  <1>4. job' \in [Job -> JobState]
    BY <1>2, <1>3 DEF Base, TypeOK
  <1> QED BY <1>1, <1>2, <1>3, <1>4 DEF Base, TypeOK, References, NextJob, JobState

LEMMA WriteStatus ==
  ASSUME Base, NEW r \in Run, NEW status \in RunStatus, Exists(r),
         run' = [run EXCEPT ![r].st = status]
  PROVE  /\ run' \in [Run -> RunState]
         /\ \A q \in Run : run'[q].st # "none" => run'[q].wf \in Workflow
  <1>1. run[r] \in RunState /\ run' = [run EXCEPT ![r] = [run[r] EXCEPT !.st = status]]
    BY DEF Base, TypeOK
  <1>2. [run[r] EXCEPT !.st = status] \in RunState
    BY <1>1 DEF RunState
  <1>3. run[r].wf \in Workflow /\ [run[r] EXCEPT !.st = status].wf = run[r].wf
    BY <1>1 DEF Base, References, Exists, RunStatus, RunState
  <1> QED BY <1>1, <1>2, <1>3 DEF Base, TypeOK, References

LEMMA HandleBase == ASSUME Base, NEW h \in Handler, Handle(h) PROVE Base'
  <1>0. /\ h \in Proc /\ h \notin Slot /\ held[h] = Nil
        /\ TypeOK /\ pc[h] \in Pc /\ cur[h] \in Run \cup {Nil}
        /\ wf \in [Workflow -> WfState] /\ nodes \in [Workflow -> Seq(Node)]
        /\ kind \in [Node -> NodeKind \cup {"none", "gone"}]
        /\ run \in [Run -> RunState] /\ grants \in [Run -> Nat]
        /\ faults \in 0..MaxFaults /\ lost \subseteq Run
        /\ \A q \in Run : run[q].st # "none" => run[q].wf \in Workflow
    BY ProcAssumption DEF Proc, Base, LocksMatch, TypeOK, References
  <1>1. CASE RunWorkflow(h)
    <2>1. CASE Return(h) /\ UNCHANGED <<rows, run, grants, faults, lost>>
      BY <1>0, <2>1, ReturnBase DEF rows
    <2>2. CASE Step(h, "create") /\ pc[h] = "run"
               /\ UNCHANGED <<queue, cur, ask, todo, rows, run, grants, faults, lost>>
      BY <1>0, <2>2, StepBase
      DEF Base, TypeOK, References, queue, rows, Pc, Working, Executing
    <2>3. CASE Throw(h, Nil) /\ UNCHANGED <<rows, run, grants, faults>>
      BY <1>0, <2>3, ThrowBase DEF rows
    <2> QED BY <1>1, <2>1, <2>2, <2>3 DEF RunWorkflow
  <1>2. CASE CreateRun(h)
    <2>0. pc[h] = "create" /\ ask[h].wf \in Workflow /\ ask[h] \in Ask
      BY <1>0, <1>2 DEF CreateRun, Base, References, TypeOK
    <2>1. CASE Throw(h, Nil) /\ UNCHANGED <<rows, run, grants, faults>>
      BY <1>0, <2>1, ThrowBase DEF rows
    <2>2. CASE ~(Throw(h, Nil) /\ UNCHANGED <<rows, run, grants, faults>>)
      <3>1. PICK r \in Run :
              /\ run' = [run EXCEPT ![r] = [st |-> "PENDING", wf |-> ask[h].wf, key |-> ask[h].key]]
              /\ cur' = [cur EXCEPT ![h] = r]
              /\ grants' = [grants EXCEPT ![r] = 1]
              /\ Step(h, "enqueue")
              /\ UNCHANGED <<queue, ask, todo, lost, rows, faults>>
        BY <1>2, <2>2 DEF CreateRun
      <3>2. [st |-> "PENDING", wf |-> ask[h].wf, key |-> ask[h].key] \in RunState
        BY <2>0 DEF RunState, Ask, RunStatus
      <3>3. /\ run' \in [Run -> RunState] /\ grants' \in [Run -> Nat]
            /\ \A q \in Run : run'[q].st # "none" => run'[q].wf \in Workflow
            /\ cur' \in [Proc -> Run \cup {Nil}] /\ cur'[h] = r
            /\ \A q \in Proc \ {h} : cur'[q] = cur[q]
        BY <1>0, <2>0, <3>1, <3>2 DEF Base, TypeOK
      <3> QED
        BY <1>0, <3>1, <3>3, StepBase
        DEF Base, TypeOK, queue, rows, Pc, Working
    <2> QED BY <2>1, <2>2
  <1>3. CASE EnqueueRun(h)
    <2>0. cur[h] \in Run /\ UNCHANGED <<rows, run, cur, ask, todo, held, lost>> /\ pc[h] = "enqueue"
      BY <1>0, <1>3 DEF EnqueueRun, Base, References, Working
    <2>1. /\ grants' \in [Run -> Nat] /\ faults' \in 0..MaxFaults
          /\ \E there \in {"answer", "start"} : Step(h, there)
          /\ AddJob(cur[h]) \/ UNCHANGED job
      <3>1. CASE grants' = [grants EXCEPT ![cur[h]] = @ + 1] /\ Fault /\ AddJob(cur[h]) /\ Step(h, "start")
        <4>1. grants' \in [Run -> Nat]
          BY <1>0, <2>0, <3>1
        <4>2. faults' \in 0..MaxFaults
          BY <1>0, <3>1, BoundsAssumption DEF Fault
        <4> QED BY <3>1, <4>1, <4>2
      <3>2. CASE UNCHANGED <<grants, faults>>
        BY <1>0, <1>3, <3>2 DEF EnqueueRun
      <3> QED BY <1>3, <3>1, <3>2 DEF EnqueueRun
    <2>2. PICK there \in {"answer", "start"} : pc' = [pc EXCEPT ![h] = there]
      BY <2>1 DEF Step
    <2>3. /\ job' \in [Job -> JobState]
          /\ \A i \in Job : job'[i].st # "none" => job'[i].run \in Run
          /\ \A i \in Job : job'[i].st \in {"none", "waiting", "active"} => job'[i].tries < Attempts
          /\ \A i \in Job : job[i].st # "none" => job'[i] = job[i]
      BY <2>0, <2>1, AddJobType DEF Base, TypeOK, References
    <2>4. TypeOK'
      BY <1>0, <2>0, <2>1, <2>2, <2>3 DEF Base, TypeOK, rows, Pc, Working, Executing
    <2>5. References'
      BY <1>0, <2>0, <2>2, <2>3 DEF Base, TypeOK, References, rows, Pc, Working, Executing
    <2>6. LocksMatch'
      BY <1>0, <2>0, <2>2, <2>3, ZenonT(30) DEF Base, TypeOK, LocksMatch
    <2> QED BY <2>4, <2>5, <2>6 DEF Base
  <1>4. CASE Answer(h)
    <2>1. CASE Return(h) /\ UNCHANGED <<rows, run, grants, faults, lost>>
      BY <1>0, <2>1, ReturnBase DEF rows
    <2>2. CASE Throw(h, Nil) /\ UNCHANGED <<rows, run, grants, faults>>
      BY <1>0, <2>2, ThrowBase DEF rows
    <2> QED BY <1>4, <2>1, <2>2 DEF Answer
  <1>5. CASE RetryWrite(h)
    <2>0. cur[h] \in Run /\ pc[h] = "retry" /\ UNCHANGED rows
      BY <1>0, <1>5 DEF RetryWrite, Base, References
    <2>1. CASE ~Exists(cur[h])
      BY <1>0, <1>5, <2>1, ThrowBase DEF RetryWrite, rows
    <2>2. CASE Exists(cur[h])
      <3>1. run' = [run EXCEPT ![cur[h]].st = "PENDING"] /\ grants' = [grants EXCEPT ![cur[h]] = @ + 1]
        BY <1>5, <2>2 DEF RetryWrite
      <3>2. /\ run' \in [Run -> RunState] /\ grants' \in [Run -> Nat]
            /\ \A q \in Run : run'[q].st # "none" => run'[q].wf \in Workflow
        <4>1. grants' \in [Run -> Nat]
          BY <1>0, <2>0, <3>1
        <4> QED BY <2>0, <2>2, <3>1, <4>1, WriteStatus DEF RunStatus
      <3>3. CASE Step(h, "enqueue") /\ lost' = lost \ {cur[h]} /\ UNCHANGED <<queue, cur, ask, todo, faults>>
        BY <1>0, <2>0, <3>2, <3>3, StepBase
        DEF Base, TypeOK, queue, rows, Pc, Working, Executing
      <3>4. CASE Throw(h, cur[h]) /\ Fault
        <4>1. faults' \in 0..MaxFaults
          BY <1>0, <3>4, BoundsAssumption DEF Fault
        <4> QED BY <1>0, <2>0, <3>2, <3>4, <4>1, ThrowBase DEF rows
      <3> QED BY <1>5, <2>2, <3>3, <3>4 DEF RetryWrite
    <2> QED BY <2>1, <2>2
  <1>6. CASE CancelWrite(h)
    <2>0. cur[h] \in Run /\ UNCHANGED <<rows, grants, faults>>
      BY <1>0, <1>6 DEF CancelWrite, Base, References
    <2>1. CASE Exists(cur[h])
      <3>1. run' = [run EXCEPT ![cur[h]].st = "CANCELLED"] /\ Return(h) /\ UNCHANGED lost
        BY <1>6, <2>1 DEF CancelWrite
      <3>2. /\ run' \in [Run -> RunState]
            /\ \A q \in Run : run'[q].st # "none" => run'[q].wf \in Workflow
        BY <2>0, <2>1, <3>1, WriteStatus DEF RunStatus
      <3> QED BY <1>0, <2>0, <3>1, <3>2, ReturnBase DEF rows
    <2>2. CASE ~Exists(cur[h])
      BY <1>0, <1>6, <2>0, <2>2, ThrowBase DEF CancelWrite, rows
    <2> QED BY <2>1, <2>2
  <1>7. CASE DeleteWrite(h)
    <2>0. UNCHANGED <<grants, faults>>
      BY <1>7 DEF DeleteWrite
    <2>1. CASE Throw(h, Nil) /\ UNCHANGED <<rows, run>>
      BY <1>0, <2>0, <2>1, ThrowBase DEF rows
    <2>2. CASE ~(Throw(h, Nil) /\ UNCHANGED <<rows, run>>)
      <3> DEFINE w == ask[h].wf
      <3>1. /\ wf' = [wf EXCEPT ![w].st = "gone"]
            /\ nodes' = [nodes EXCEPT ![w] = <<>>]
            /\ kind' = [n \in Node |->
                          IF \E i \in 1..Len(nodes[w]) : nodes[w][i] = n THEN "gone"
                          ELSE kind[n]]
            /\ run' = [r \in Run |-> IF run[r].wf = w THEN [run[r] EXCEPT !.st = "gone"]
                                     ELSE run[r]]
            /\ Return(h)
            /\ UNCHANGED lost
        BY <1>7, <2>2 DEF DeleteWrite
      <3>2. w \in Workflow
        BY <1>0, <1>7 DEF DeleteWrite, Base, References
      <3>3. wf' \in [Workflow -> WfState]
        BY <1>0, <3>1, <3>2 DEF WfState
      <3>4. nodes' \in [Workflow -> Seq(Node)]
        BY <1>0, <3>1, <3>2
      <3>5. kind' \in [Node -> NodeKind \cup {"none", "gone"}]
        BY <1>0, <3>1
      <3>6. run' \in [Run -> RunState]
        <4>1. \A r \in Run : [run[r] EXCEPT !.st = "gone"] \in RunState
          BY <1>0 DEF RunState
        <4> QED BY <1>0, <3>1, <4>1
      <3>7. \A q \in Run : run'[q].st # "none" => run'[q].wf \in Workflow
        BY <1>0, <3>1, <3>2 DEF RunState
      <3> QED BY <2>0, <3>1, <3>3, <3>4, <3>5, <3>6, <3>7, ReturnBase
    <2> QED BY <2>1, <2>2
  <1> QED BY <1>1, <1>2, <1>3, <1>4, <1>5, <1>6, <1>7 DEF Handle

LEMMA ExecuteBase == ASSUME Base, NEW p \in Proc, Execute(p) PROVE Base'
  <1>0. /\ TypeOK /\ pc[p] \in Pc /\ cur[p] \in Run \cup {Nil}
        /\ wf \in [Workflow -> WfState] /\ nodes \in [Workflow -> Seq(Node)]
        /\ kind \in [Node -> NodeKind \cup {"none", "gone"}]
        /\ run \in [Run -> RunState] /\ grants \in [Run -> Nat]
        /\ faults \in 0..MaxFaults /\ lost \subseteq Run
        /\ todo \in [Proc -> Seq(Pending)] /\ ask \in [Proc -> Ask]
        /\ cur \in [Proc -> Run \cup {Nil}]
        /\ \A q \in Run : run[q].st # "none" => run[q].wf \in Workflow
        /\ pc[p] \in Working => cur[p] \in Run
    BY DEF Base, TypeOK, References
  \* A step of executeRun goes on to another step of it.
  <1>a. ASSUME NEW there \in Executing, Step(p, there), cur[p] \in Run,
               UNCHANGED <<rows, queue, cur, ask, ghosts, faults>>,
               run' \in [Run -> RunState],
               \A q \in Run : run'[q].st # "none" => run'[q].wf \in Workflow,
               todo' \in [Proc -> Seq(Pending)]
        PROVE  Base'
    <2>1. there \in Pc /\ there \notin {"run", "create", "delete"}
      BY <1>a DEF Pc, Working, Executing
    <2> QED BY <1>0, <1>a, <2>1, StepBase DEF rows, queue, ghosts
  <1>1. CASE ExecStart(p)
    <2>0. cur[p] \in Run /\ UNCHANGED <<rows, grants, faults>>
      BY <1>0, <1>1 DEF ExecStart, Working, Executing
    <2>1. CASE Exists(cur[p])
      <3>1. run' = [run EXCEPT ![cur[p]].st = "RUNNING"]
        BY <1>1, <2>1 DEF ExecStart
      <3>2. /\ run' \in [Run -> RunState]
            /\ \A q \in Run : run'[q].st # "none" => run'[q].wf \in Workflow
        BY <2>0, <2>1, <3>1, WriteStatus DEF RunStatus
      <3> QED BY <1>0, <1>1, <1>a, <2>0, <2>1, <3>2 DEF ExecStart, ghosts, Executing
    <2>2. CASE ~Exists(cur[p])
      BY <1>0, <1>1, <2>0, <2>2, ThrowBase DEF ExecStart, rows
    <2> QED BY <2>1, <2>2
  <1>2. CASE ExecLoad(p)
    <2>0. cur[p] \in Run /\ UNCHANGED <<rows, run, grants, faults>>
      BY <1>0, <1>2 DEF ExecLoad, Working, Executing
    <2>1. CASE Exists(cur[p])
      <3> DEFINE w == run[cur[p]].wf
                 snapshot == [i \in 1..Len(nodes[w]) |->
                                [id |-> nodes[w][i], kind |-> kind[nodes[w][i]]]]
      <3>1. w \in Workflow /\ nodes[w] \in Seq(Node)
        BY <1>0, <2>0, <2>1 DEF Exists, RunStatus
      <3>2. \A i \in 1..Len(nodes[w]) :
               nodes[w][i] \in Node /\ kind[nodes[w][i]] \in NodeKind \cup {"none", "gone"}
        BY <1>0, <3>1
      <3>3. snapshot \in Seq(Pending)
        BY <3>1, <3>2 DEF Pending
      <3>4. todo' = [todo EXCEPT ![p] = snapshot] /\ Step(p, "nodes")
            /\ UNCHANGED <<queue, cur, ask, lost>>
        BY <1>2, <2>1 DEF ExecLoad
      <3>5. todo' \in [Proc -> Seq(Pending)]
        BY <1>0, <3>3, <3>4
      <3> QED BY <1>0, <1>a, <2>0, <3>4, <3>5 DEF ghosts, Executing
    <2>2. CASE ~Exists(cur[p])
      BY <1>0, <1>2, <2>0, <2>2, ThrowBase DEF ExecLoad, rows
    <2> QED BY <2>1, <2>2
  <1>3. CASE ExecNode(p)
    <2>0. cur[p] \in Run /\ todo[p] \in Seq(Pending) /\ todo[p] # <<>> /\ pc[p] = "nodes"
      BY <1>0, <1>3 DEF ExecNode, Working, Executing
    <2>1. Tail(todo[p]) \in Seq(Pending)
      BY <2>0
    <2>2. todo' \in [Proc -> Seq(Pending)]
      BY <1>0, <1>3, <2>1 DEF ExecNode
    <2>3. Step(p, "nodes") \/ Step(p, "failing")
      BY <1>0, <1>3, <2>0 DEF ExecNode, Step, Base, TypeOK
    <2> QED BY <1>0, <1>3, <1>a, <2>0, <2>2, <2>3 DEF ExecNode, Executing
  <1>4. CASE ExecComplete(p)
    <2>0. cur[p] \in Run
      BY <1>0, <1>4 DEF ExecComplete, Working, Executing
    <2>1. /\ run' \in [Run -> RunState]
          /\ \A q \in Run : run'[q].st # "none" => run'[q].wf \in Workflow
      BY <1>0, <1>4, <2>0, WriteStatus DEF ExecComplete, RunStatus
    <2> QED BY <1>0, <1>4, <1>a, <2>0, <2>1 DEF ExecComplete, Executing
  <1>5. CASE ExecFail(p)
    <2>0. cur[p] \in Run /\ UNCHANGED <<rows, grants, faults>>
      BY <1>0, <1>5 DEF ExecFail, Working, Executing
    <2>1. CASE Exists(cur[p])
      <3>1. run' = [run EXCEPT ![cur[p]].st = "FAILED"]
        BY <1>5, <2>1 DEF ExecFail
      <3>2. /\ run' \in [Run -> RunState]
            /\ \A q \in Run : run'[q].st # "none" => run'[q].wf \in Workflow
        BY <2>0, <2>1, <3>1, WriteStatus DEF RunStatus
      <3> QED BY <1>0, <1>5, <1>a, <2>0, <2>1, <3>2 DEF ExecFail, ghosts, Executing
    <2>2. CASE ~Exists(cur[p])
      BY <1>0, <1>5, <2>0, <2>2, ThrowBase DEF ExecFail, rows
    <2> QED BY <2>1, <2>2
  <1>6. CASE ExecEnd(p)
    <2>0. cur[p] \in Run /\ UNCHANGED <<rows, run, grants, faults>> /\ pc[p] \in Executing
      BY <1>0, <1>6 DEF ExecEnd, Working, Executing
    <2>1. CASE Step(p, "failing") /\ UNCHANGED <<queue, cur, ask, todo, lost>>
      BY <1>0, <1>a, <2>0, <2>1 DEF ghosts, Executing
    <2>2. CASE Throw(p, cur[p])
      BY <1>0, <2>0, <2>2, ThrowBase DEF rows
    <2>3. CASE p \in Handler /\ Step(p, "answer") /\ UNCHANGED <<queue, cur, ask, todo, lost>>
      <3>1. held[p] = Nil
        BY <2>3, ProcAssumption DEF Base, LocksMatch, Proc
      <3> QED BY <1>0, <2>0, <2>3, <3>1, StepBase
              DEF rows, queue, ghosts, Pc, Working, Executing
    <2>4. CASE Forget(p) /\ Step(p, "idle") /\ UNCHANGED <<ask, lost>>
               /\ job' = IF held[p] = Nil THEN job ELSE [job EXCEPT ![held[p]].st = "done"]
      <3>1. job' \in [Job -> JobState]
        <4>1. CASE held[p] = Nil
          BY <2>4, <4>1 DEF Base, TypeOK
        <4>2. CASE held[p] # Nil
          <5>1. held[p] \in Job /\ job[held[p]] \in JobState
            BY <4>2 DEF Base, TypeOK
          <5>2. job' = [job EXCEPT ![held[p]] = [job[held[p]] EXCEPT !.st = "done"]]
            BY <2>4, <4>2 DEF Base, TypeOK
          <5>3. [job[held[p]] EXCEPT !.st = "done"] \in JobState
            BY <5>1 DEF JobState
          <5> QED BY <5>1, <5>2, <5>3 DEF Base, TypeOK
        <4> QED BY <4>1, <4>2
      <3>2. pc' \in [Proc -> Pc]
        BY <2>4 DEF Step, Base, TypeOK, Pc
      <3>3. TypeOK'
        BY <1>0, <2>0, <2>4, <3>1, <3>2, ForgetType DEF TypeOK, rows
      <3>4. References'
        BY <2>0, <2>4 DEF Base, TypeOK, References, Forget, Step, Pc, Working, Executing, JobState, LocksMatch
      <3>5. LocksMatch'
        BY <2>4, NilAssumption DEF Base, TypeOK, LocksMatch, Forget, Step, JobState
      <3> QED BY <3>3, <3>4, <3>5 DEF Base
    <2> QED BY <1>6, <2>0, <2>1, <2>2, <2>3, <2>4 DEF ExecEnd
  <1> QED BY <1>1, <1>2, <1>3, <1>4, <1>5, <1>6 DEF Execute

LEMMA DbErrorBase == ASSUME Base, NEW p \in Proc, DbError(p) PROVE Base'
  <1>0. /\ TypeOK /\ pc[p] \in Pc /\ run \in [Run -> RunState] /\ grants \in [Run -> Nat]
        /\ faults' \in 0..MaxFaults /\ UNCHANGED <<rows, run, grants>>
        /\ \A q \in Run : run[q].st # "none" => run[q].wf \in Workflow
        /\ pc[p] \in Working => cur[p] \in Run
    BY BoundsAssumption DEF DbError, Fault, Base, TypeOK, References
  <1>1. CASE /\ pc[p] \in {"nodes", "completed"} /\ Step(p, "failing")
             /\ UNCHANGED <<queue, cur, ask, todo, lost>>
    BY <1>0, <1>1, StepBase
    DEF rows, queue, Base, TypeOK, Pc, Working, Executing
  <1>2. CASE pc[p] \in {"start", "load", "failing", "failed"} /\ Throw(p, cur[p])
    BY <1>0, <1>2, ThrowBase DEF rows, Working, Executing
  <1>3. CASE Throw(p, Nil)
    BY <1>0, <1>3, ThrowBase DEF rows
  <1> QED BY <1>1, <1>2, <1>3 DEF DbError

LEMMA CrashBase == ASSUME Base, NEW P \in SUBSET Proc, Crash(P) PROVE Base'
  <1>0. faults' \in 0..MaxFaults /\ UNCHANGED <<rows, run, job, grants>>
    BY BoundsAssumption DEF Crash, Fault, Base, TypeOK
  <1>1. pc' \in [Proc -> Pc] /\ cur' \in [Proc -> Run \cup {Nil}]
    BY DEF Crash, Base, TypeOK, Pc
  <1>2. todo' \in [Proc -> Seq(Pending)]
    BY DEF Crash, Base, TypeOK
  <1>3. ask' \in [Proc -> Ask]
    <2>1. NoAsk \in Ask
      BY DEF NoAsk, Ask, Keys
    <2> QED BY <2>1 DEF Crash, Base, TypeOK
  <1>4. held' \in [Proc -> Job \cup {Nil}]
    BY DEF Crash, Base, TypeOK
  <1>5. lost' \subseteq Run
    BY DEF Crash, Base, TypeOK, References
  <1>6. TypeOK'
    BY <1>0, <1>1, <1>2, <1>3, <1>4, <1>5 DEF Base, TypeOK, rows
  <1>7. References'
    BY <1>0 DEF Crash, Base, TypeOK, References, Working, Executing
  <1>8. LocksMatch'
    BY <1>0 DEF Crash, Base, TypeOK, LocksMatch
  <1> QED BY <1>6, <1>7, <1>8 DEF Base

LEMMA TakeBase == ASSUME Base, NEW s \in Slot, NEW j \in Job, TakeJob(s, j) PROVE Base'
  <1>0. /\ s \in Proc /\ pc[s] = "idle" /\ held[s] = Nil /\ job[j].st = "waiting"
        /\ UNCHANGED <<rows, run, ask, todo, ghosts, faults>>
        /\ job' = [job EXCEPT ![j].st = "active"]
        /\ held' = [held EXCEPT ![s] = j]
        /\ cur' = [cur EXCEPT ![s] = job[j].run]
        /\ pc' = [pc EXCEPT ![s] = "start"]
    BY DEF TakeJob, Take, Proc, Base, LocksMatch, Executing, Step
  <1>1. job[j] \in JobState /\ job' = [job EXCEPT ![j] = [job[j] EXCEPT !.st = "active"]]
    BY <1>0 DEF Base, TypeOK
  <1>2. [job[j] EXCEPT !.st = "active"] \in JobState /\ job[j].run \in Run
    BY <1>0, <1>1 DEF JobState, Base, References
  <1>3. TypeOK'
    BY <1>0, <1>1, <1>2 DEF Base, TypeOK, rows, ghosts, Pc, Working, Executing
  <1>4. References'
    BY <1>0, <1>1, <1>2 DEF Base, TypeOK, References, JobState, Working, Executing
  <1>5. LocksMatch'
    BY <1>0, <1>1, NilAssumption DEF Base, TypeOK, LocksMatch, JobState, Executing
  <1> QED BY <1>3, <1>4, <1>5 DEF Base

LEMMA RequeueType ==
  ASSUME Base, NEW j \in Job, job[j].st = "active", Requeue(j)
  PROVE  /\ job' \in [Job -> JobState]
         /\ job'[j].st \in {"waiting", "dead"} /\ job'[j].run = job[j].run
         /\ job'[j].tries = job[j].tries
         /\ \A i \in Job \ {j} : job'[i] = job[i]
         /\ job[j].stalls < MaxStalled => job'[j].st = "waiting"
  <1>1. job[j] \in JobState /\ job[j].stalls \in 0..MaxStalled
    BY DEF Base, TypeOK, JobState
  <1>2. CASE job[j].stalls < MaxStalled
    <2>1. job' = [job EXCEPT ![j] = [job[j] EXCEPT !.st = "waiting", !.stalls = @ + 1]]
      BY <1>2 DEF Requeue, Base, TypeOK
    <2>2. job[j].stalls + 1 \in 0..MaxStalled
      BY <1>1, <1>2, BoundsAssumption
    <2>3. [job[j] EXCEPT !.st = "waiting", !.stalls = @ + 1] \in JobState
      BY <1>1, <2>2 DEF JobState
    <2> QED BY <1>1, <2>1, <2>3 DEF Base, TypeOK, JobState
  <1>3. CASE ~(job[j].stalls < MaxStalled)
    <2>1. job' = [job EXCEPT ![j] = [job[j] EXCEPT !.st = "dead"]]
      BY <1>3 DEF Requeue, Base, TypeOK
    <2>2. [job[j] EXCEPT !.st = "dead"] \in JobState
      BY <1>1 DEF JobState
    <2> QED BY <1>1, <1>3, <2>1, <2>2 DEF Base, TypeOK, JobState
  <1> QED BY <1>2, <1>3

LEMMA StalledBase == ASSUME Base, NEW j \in Job, StalledJob(j) PROVE Base'
  <1>1. /\ job[j].st = "active" /\ \A s \in Slot : held[s] # j
        /\ job[j].run \in Run
        /\ UNCHANGED <<rows, run, pc, cur, ask, todo, held, grants, faults>>
    BY DEF StalledJob, Unlocked, Base, References
  <1>2. TypeOK'
    BY <1>1, RequeueType DEF StalledJob, Base, TypeOK, rows
  <1>3. References'
    BY <1>1, RequeueType DEF StalledJob, Base, References
  <1>4. LocksMatch'
    BY <1>1, RequeueType DEF StalledJob, Base, TypeOK, LocksMatch
  <1> QED BY <1>2, <1>3, <1>4 DEF Base

LEMMA LostLockBase == ASSUME Base, NEW s \in Slot, LostLock(s) PROVE Base'
  <1>0. /\ s \in Proc /\ held[s] \in Job /\ held[s] # Nil /\ job[held[s]].st = "active"
        /\ cur[s] \in Run /\ Requeue(held[s])
        /\ held' = [held EXCEPT ![s] = Nil]
        /\ grants' = [grants EXCEPT ![cur[s]] = @ + 1]
        /\ UNCHANGED <<rows, run, pc, cur, ask, todo, lost>>
        /\ faults' \in 0..MaxFaults
    BY BoundsAssumption
    DEF LostLock, Fault, Proc, Base, TypeOK, LocksMatch, References, Working
  <1>1. TypeOK'
    <2>1. grants' \in [Run -> Nat] /\ held' \in [Proc -> Job \cup {Nil}]
      BY <1>0 DEF Base, TypeOK
    <2> QED BY <1>0, <2>1, RequeueType DEF Base, TypeOK, rows
  <1>2. References'
    BY <1>0, RequeueType DEF Base, References
  <1>3. LocksMatch'
    BY <1>0, RequeueType DEF Base, TypeOK, LocksMatch
  <1> QED BY <1>1, <1>2, <1>3 DEF Base

LEMMA NextBase == Base /\ [Next]_vars => Base'
  <1> SUFFICES ASSUME Base, [Next]_vars PROVE Base'
    OBVIOUS
  <1>1. CASE Edit
    BY <1>1, EditBase
  <1>2. CASE \E h \in Handler : Receive(h) \/ Handle(h)
    BY <1>2, ReceiveBase, HandleBase
  <1>3. CASE \E p \in Proc : Execute(p) \/ DbError(p)
    BY <1>3, ExecuteBase, DbErrorBase
  <1>4. CASE \E s \in Slot, j \in Job : TakeJob(s, j)
    BY <1>4, TakeBase
  <1>5. CASE \E P \in SUBSET Proc : Crash(P)
    BY <1>5, CrashBase
  <1>6. CASE \E j \in Job : StalledJob(j)
    BY <1>6, StalledBase
  <1>7. CASE \E s \in Slot : LostLock(s)
    BY <1>7, LostLockBase
  <1>8. CASE UNCHANGED vars
    BY <1>8 DEF vars, Base, TypeOK, References, LocksMatch
  <1> QED BY <1>1, <1>2, <1>3, <1>4, <1>5, <1>6, <1>7, <1>8 DEF Next

(***************************************************************************)
(* The variables of the engine keep their types in every behaviour: no     *)
(* job is tried or stalled more often than BullMQ allows, whatever faults  *)
(* occur.                                                                  *)
(***************************************************************************)
THEOREM TypeCorrect == Spec => []TypeOK
  <1>1. Base => TypeOK
    BY DEF Base
  <1> QED BY InitBase, NextBase, <1>1, PTL DEF Spec

(***************************************************************************)
(* No two slots ever hold the lock of the same job, and a lock belongs to  *)
(* the run that its slot executes.                                         *)
(***************************************************************************)
THEOREM LocksAlwaysMatch == Spec => []LocksMatch
  <1>1. Base => LocksMatch
    BY DEF Base
  <1> QED BY InitBase, NextBase, <1>1, PTL DEF Spec

-----------------------------------------------------------------------------
(***************************************************************************)
(* Rows: the two guarantees that rest on the constraints of the database.  *)
(***************************************************************************)
RowsSound == IdempotentKeys /\ RunsHaveWorkflow

\* A step that creates no run, moves none and deletes no workflow.
RowsKept ==
    /\ \A r \in Run : Exists(r)' => Exists(r) /\ run'[r].wf = run[r].wf /\ run'[r].key = run[r].key
    /\ \A w \in Workflow : wf[w].st = "live" => wf'[w].st = "live"

LEMMA KeptSound == ASSUME Base, RowsSound, RowsKept PROVE RowsSound'
  <1>1. \A r \in Run : Exists(r) => run[r].wf \in Workflow
    BY DEF Base, References, Exists, RunStatus
  <1> QED BY <1>1 DEF RowsSound, IdempotentKeys, RunsHaveWorkflow, RowsKept

LEMMA StatusKept ==
  ASSUME Base, NEW r \in Run, NEW status, Exists(r), run' = [run EXCEPT ![r].st = status], UNCHANGED wf
  PROVE  RowsKept
  BY DEF RowsKept, Exists, Base, TypeOK, RunState

LEMMA ArchivedLive ==
  ASSUME Base, NEW w \in Workflow, wf' = Archived(w)
  PROVE  \A v \in Workflow : wf[v].st = "live" => wf'[v].st = "live"
  <1>1. wf' = [wf EXCEPT ![w] = [wf[w] EXCEPT !.archived = TRUE, !.active = FALSE]]
    BY DEF Archived, Base, TypeOK
  <1>2. wf[w] \in WfState
    BY DEF Base, TypeOK
  <1> QED BY <1>1, <1>2 DEF Base, TypeOK, WfState

LEMMA NextRows == Base /\ RowsSound /\ [Next]_vars => RowsSound'
  <1> SUFFICES ASSUME Base, RowsSound, [Next]_vars PROVE RowsSound'
    OBVIOUS
  <1>0. ASSUME UNCHANGED run, \A w \in Workflow : wf[w].st = "live" => wf'[w].st = "live"
        PROVE  RowsSound'
    BY <1>0, KeptSound DEF RowsKept, Exists
  <1>1. CASE Edit
    <2>1. UNCHANGED run
      BY <1>1, EditsOnlyRows
      DEF OnlyRows
    <2>2. PICK w \in Workflow :
            \/ UNCHANGED wf
            \/ \E a \in BOOLEAN :
                  wf' = [wf EXCEPT ![w] = [st |-> "live", active |-> a, archived |-> FALSE]]
            \/ \E a \in BOOLEAN : wf' = [wf EXCEPT ![w].active = a]
            \/ wf' = Archived(w)
            \/ wf' = [wf EXCEPT ![w].archived = FALSE]
      BY <1>1
      DEF Edit, CreateWorkflow, UpdateWorkflow, ArchiveWorkflow, RestoreWorkflow,
          ReplaceNodes, CreateNode, UpdateNode, DeleteNode
    <2>3. wf \in [Workflow -> WfState]
      BY DEF Base, TypeOK
    <2> QED BY <1>0, <2>1, <2>2, <2>3, ArchivedLive DEF WfState
  <1>2. ASSUME NEW h \in Handler, Receive(h) PROVE RowsSound'
    <2>1. UNCHANGED run /\ (UNCHANGED wf \/ \E w \in Workflow : wf' = Archived(w))
      BY <1>2
      DEF Receive, RequestRun, TriggerEvent, Request, RetryRead, CancelRead, DeleteRead, Ready,
          ArchiveInstead, ArchiveWorkflow, OnlyRows, rows
    <2> QED BY <1>0, <2>1, ArchivedLive
  <1>3. ASSUME NEW h \in Handler, Handle(h) PROVE RowsSound'
    <2>0. cur[h] \in Run \/ pc[h] \in {"run", "create", "delete"}
      BY <1>3
      DEF Base, References, Proc, Working, Executing, Handle, RunWorkflow, CreateRun, EnqueueRun, Answer,
          RetryWrite, CancelWrite, DeleteWrite
    <2>1. CASE RunWorkflow(h) \/ EnqueueRun(h) \/ Answer(h)
      BY <1>0, <2>1 DEF RunWorkflow, EnqueueRun, Answer, rows
    <2>2. CASE RetryWrite(h)
      <3>1. cur[h] \in Run /\ UNCHANGED rows
        BY <2>0, <2>2 DEF RetryWrite
      <3>2. UNCHANGED run \/ (Exists(cur[h]) /\ run' = [run EXCEPT ![cur[h]].st = "PENDING"])
        BY <2>2 DEF RetryWrite
      <3> QED BY <1>0, <3>1, <3>2, StatusKept, KeptSound DEF rows
    <2>3. CASE CancelWrite(h)
      <3>1. cur[h] \in Run /\ UNCHANGED rows
        BY <2>0, <2>3 DEF CancelWrite
      <3>2. UNCHANGED run \/ (Exists(cur[h]) /\ run' = [run EXCEPT ![cur[h]].st = "CANCELLED"])
        BY <2>3 DEF CancelWrite
      <3> QED BY <1>0, <3>1, <3>2, StatusKept, KeptSound DEF rows
    <2>4. CASE CreateRun(h)
      <3> DEFINE w == ask[h].wf
      <3>1. CASE UNCHANGED run
        BY <1>0, <2>4, <3>1 DEF CreateRun, rows
      <3>2. CASE ~UNCHANGED run
        <4>1. PICK r \in Run :
                NextRun(r) /\ run' = [run EXCEPT ![r] = [st |-> "PENDING", wf |-> w, key |-> ask[h].key]]
          BY <2>4, <3>2 DEF CreateRun
        <4>2. ~KeyTaken(w, ask[h].key) /\ wf[w].st = "live" /\ UNCHANGED wf
          BY <2>4, <3>2 DEF CreateRun, UniqueViolation, ForeignKeyViolation, rows
        <4>3. \A q \in Run : q # r => run'[q] = run[q]
          BY <4>1 DEF Base, TypeOK
        <4>4. run'[r].wf = w /\ run'[r].key = ask[h].key
          BY <4>1 DEF Base, TypeOK
        <4>5. IdempotentKeys'
          BY <4>2, <4>3, <4>4 DEF RowsSound, IdempotentKeys, KeyTaken, Exists
        <4>6. RunsHaveWorkflow'
          BY <4>2, <4>3, <4>4 DEF RowsSound, RunsHaveWorkflow, Exists
        <4> QED BY <4>5, <4>6 DEF RowsSound
      <3> QED BY <3>1, <3>2
    <2>5. CASE DeleteWrite(h)
      <3> DEFINE w == ask[h].wf
      <3>1. CASE UNCHANGED <<wf, run>>
        BY <1>0, <3>1
      <3>2. CASE ~UNCHANGED <<wf, run>>
        <4>1. /\ wf' = [wf EXCEPT ![w].st = "gone"]
              /\ run' = [r \in Run |-> IF run[r].wf = w THEN [run[r] EXCEPT !.st = "gone"] ELSE run[r]]
          BY <2>5, <3>2 DEF DeleteWrite, rows
        <4>2. \A r \in Run : Exists(r)' => run[r].wf # w /\ run'[r] = run[r] /\ Exists(r)
          BY <4>1 DEF Exists, RunStatus, Base, TypeOK, RunState
        <4>3. \A r \in Run : Exists(r) => run[r].wf \in Workflow
          BY DEF Base, References, Exists, RunStatus
        <4>4. \A v \in Workflow : v # w => wf'[v] = wf[v]
          BY <4>1 DEF Base, TypeOK
        <4>5. IdempotentKeys'
          BY <4>2 DEF RowsSound, IdempotentKeys
        <4>6. RunsHaveWorkflow'
          BY <4>2, <4>3, <4>4 DEF RowsSound, RunsHaveWorkflow
        <4> QED BY <4>5, <4>6 DEF RowsSound
      <3> QED BY <3>1, <3>2
    <2> QED BY <1>3, <2>1, <2>2, <2>3, <2>4, <2>5 DEF Handle
  <1>4. ASSUME NEW p \in Proc, Execute(p) PROVE RowsSound'
    <2>0. cur[p] \in Run /\ UNCHANGED rows
      BY <1>4
      DEF Base, References, Working, Executing, Execute, ExecStart, ExecLoad, ExecNode, ExecComplete,
          ExecFail, ExecEnd
    <2>1. UNCHANGED run \/ \E status : Exists(cur[p]) /\ run' = [run EXCEPT ![cur[p]].st = status]
      BY <1>4 DEF Execute, ExecStart, ExecLoad, ExecNode, ExecComplete, ExecFail, ExecEnd
    <2> QED BY <1>0, <2>0, <2>1, StatusKept, KeptSound DEF rows
  <1>5. CASE \E p \in Proc : DbError(p)
    BY <1>0, <1>5 DEF DbError, rows
  <1>6. CASE \E s \in Slot, j \in Job : TakeJob(s, j)
    BY <1>0, <1>6 DEF TakeJob, Take, rows
  <1>7. CASE (\E P \in SUBSET Proc : Crash(P)) \/ (\E j \in Job : StalledJob(j)) \/ \E s \in Slot : LostLock(s)
    BY <1>0, <1>7 DEF Crash, StalledJob, LostLock, rows
  <1>8. CASE UNCHANGED vars
    BY <1>0, <1>8 DEF vars
  <1> QED BY <1>1, <1>2, <1>3, <1>4, <1>5, <1>6, <1>7, <1>8 DEF Next

LEMMA InitRows == Init => RowsSound
  BY DEF Init, RowsSound, IdempotentKeys, RunsHaveWorkflow, Exists, RunStatus

(***************************************************************************)
(* Two runs of a workflow never share an idempotency key, however the      *)
(* requests that look the key up and insert the run interleave.            *)
(***************************************************************************)
THEOREM KeysAreIdempotent == Spec => []IdempotentKeys
  <1>1. RowsSound => IdempotentKeys
    BY DEF RowsSound
  <1> QED BY InitBase, NextBase, InitRows, NextRows, <1>1, PTL DEF Spec

(***************************************************************************)
(* A run never outlives its workflow, however deletes and inserts race.    *)
(***************************************************************************)
THEOREM RunsAlwaysHaveWorkflow == Spec => []RunsHaveWorkflow
  <1>1. RowsSound => RunsHaveWorkflow
    BY DEF RowsSound
  <1> QED BY InitBase, NextBase, InitRows, NextRows, <1>1, PTL DEF Spec

-----------------------------------------------------------------------------
(***************************************************************************)
(* Nothing is forgotten.  NoneForgotten is not inductive: a slot that has  *)
(* written COMPLETED still counts as working on the run, and another       *)
(* execution may set the run back to RUNNING before that slot leaves.  The *)
(* inductive form counts only those that will still write an end status.   *)
(***************************************************************************)
Carrying == Working \ {"completed", "failed"}

Carried(r) ==
    \/ r \in lost
    \/ \E p \in Proc : cur[p] = r /\ pc[p] \in Carrying
    \/ \E j \in Job : job[j].run = r /\ (job[j].st = "waiting" \/ Unlocked(j))

OpenCarried == \A r \in Run : run[r].st \in Open => Carried(r)

\* Nobody but p moves, p does not carry r or goes on carrying it, and no job
\* leaves the queue.
LEMMA StillCarried ==
  ASSUME Base, NEW p \in Proc, NEW there \in Pc, Step(p, there), UNCHANGED lost,
         NEW r \in Run, Carried(r),
         pc[p] \in Carrying /\ cur[p] = r => there \in Carrying /\ cur'[p] = r,
         \A q \in Proc \ {p} : cur'[q] = cur[q],
         UNCHANGED held,
         \A j \in Job : job[j].st # "none" => job'[j] = job[j]
  PROVE  Carried(r)'
  <1>1. pc' = [pc EXCEPT ![p] = there]
    BY DEF Step
  <1>2. CASE r \in lost
    BY <1>2 DEF Carried
  <1>3. CASE \E q \in Proc : cur[q] = r /\ pc[q] \in Carrying
    BY <1>1, <1>3 DEF Carried, Base, TypeOK
  <1>4. CASE \E j \in Job : job[j].run = r /\ (job[j].st = "waiting" \/ Unlocked(j))
    BY <1>4 DEF Carried, Unlocked
  <1> QED BY <1>2, <1>3, <1>4 DEF Carried

\* An exception hands the job back to the queue, or loses the run.
LEMMA ThrowCarries ==
  ASSUME Base, NEW p \in Proc, NEW q \in Run \cup {Nil}, Throw(p, q),
         pc[p] \in Carrying => q = cur[p],
         NEW r \in Run, Carried(r)
  PROVE  Carried(r)'
  <1>1. CASE r \in lost
    BY <1>1 DEF Throw, Carried
  <1>2. CASE \E p2 \in Proc : cur[p2] = r /\ pc[p2] \in Carrying
    <2>1. PICK p2 \in Proc : cur[p2] = r /\ pc[p2] \in Carrying
      BY <1>2
    <2>2. CASE p2 # p
      BY <2>1, <2>2 DEF Throw, Step, Forget, Carried, Base, TypeOK
    <2>3. CASE p2 = p /\ LastTry(p)
      BY <2>1, <2>3, NilAssumption DEF Throw, Carried
    <2>4. CASE p2 = p /\ ~LastTry(p)
      <3>1. held[p] \in Job /\ held[p] # Nil /\ job[held[p]].run = r
        BY <2>1, <2>4 DEF LastTry, Base, TypeOK, LocksMatch
      <3>2. job' = [job EXCEPT ![held[p]].st = "waiting", ![held[p]].tries = @ + 1]
        BY <2>4, <3>1 DEF Throw
      <3>3. job'[held[p]].st = "waiting" /\ job'[held[p]].run = r
        BY <3>1, <3>2 DEF Base, TypeOK, JobState
      <3> QED BY <3>1, <3>3 DEF Carried
    <2> QED BY <2>2, <2>3, <2>4
  <1>3. CASE \E j \in Job : job[j].run = r /\ (job[j].st = "waiting" \/ Unlocked(j))
    <2>1. PICK j \in Job : job[j].run = r /\ (job[j].st = "waiting" \/ Unlocked(j))
      BY <1>3
    <2>2. held[p] # j
      BY <2>1, NilAssumption DEF Unlocked, Base, LocksMatch
    <2>3. job'[j] = job[j]
      BY <2>2 DEF Throw, Base, TypeOK
    <2>4. \A s \in Slot : held'[s] # j \/ held[s] = j
      BY NilAssumption DEF Throw, Forget, Base, TypeOK, Proc
    <2> QED BY <2>1, <2>3, <2>4 DEF Carried, Unlocked
  <1> QED BY <1>1, <1>2, <1>3 DEF Carried

\* Also a request's return leaves everybody else alone.
LEMMA ReturnCarries ==
  ASSUME Base, NEW h \in Handler, Return(h), UNCHANGED lost, pc[h] \notin Carrying,
         NEW r \in Run, Carried(r)
  PROVE  Carried(r)'
  <1>0. h \in Proc /\ held[h] = Nil
    BY ProcAssumption DEF Base, LocksMatch, Proc
  <1>1. \A q \in Proc \ {h} : cur'[q] = cur[q] /\ pc'[q] = pc[q]
    BY <1>0 DEF Return, Forget, Step, Base, TypeOK
  <1>2. UNCHANGED <<held, job>>
    BY <1>0 DEF Return, Forget, Base, TypeOK
  <1> QED BY <1>0, <1>1, <1>2 DEF Carried, Unlocked

LEMMA NextCarried == Base /\ OpenCarried /\ [Next]_vars => OpenCarried'
  <1> SUFFICES ASSUME Base, OpenCarried, [Next]_vars, NEW r \in Run, run'[r].st \in Open
               PROVE  Carried(r)'
    BY DEF OpenCarried
  <1> USE DEF Base
  <1>0. ASSUME UNCHANGED run PROVE Carried(r)
    BY <1>0 DEF OpenCarried
  \* A status written into another run does not matter, one that is not open neither.
  <1>w. ASSUME NEW q \in Run, NEW status, run' = [run EXCEPT ![q].st = status], status \notin Open
        PROVE  Carried(r)
    <2>1. run[q] \in RunState /\ run' = [run EXCEPT ![q] = [run[q] EXCEPT !.st = status]]
      BY <1>w DEF TypeOK
    <2>2. r # q
      BY <1>w, <2>1 DEF TypeOK, RunState
    <2> QED BY <2>1, <2>2 DEF OpenCarried, TypeOK
  <1>o. ASSUME NEW q \in Run, NEW status, run' = [run EXCEPT ![q].st = status], r # q
        PROVE  Carried(r)
    BY <1>o DEF OpenCarried, TypeOK
  <1>1. CASE Edit
    <2>1. OnlyRows
      BY <1>1
      DEF Edit, CreateWorkflow, UpdateWorkflow, ArchiveWorkflow, RestoreWorkflow,
          ReplaceNodes, CreateNode, UpdateNode, DeleteNode
    <2> QED BY <1>0, <2>1 DEF OnlyRows, queue, ghosts, Carried, Unlocked
  <1>2. ASSUME NEW h \in Handler, Receive(h) PROVE Carried(r)'
    <2>1. CASE \E w \in Workflow : ArchiveInstead(h, w)
      BY <1>0, <2>1 DEF ArchiveInstead, ArchiveWorkflow, OnlyRows, queue, ghosts, Carried, Unlocked
    <2>2. CASE ~\E w \in Workflow : ArchiveInstead(h, w)
      <3>1. /\ pc[h] = "idle" /\ UNCHANGED <<run, queue, ghosts>>
            /\ \E there \in {"run", "retry", "cancel", "delete"} : Step(h, there)
            /\ \A q \in Proc \ {h} : cur'[q] = cur[q]
        BY <1>2, <2>2
        DEF Receive, RequestRun, TriggerEvent, Request, RetryRead, CancelRead, DeleteRead, Ready,
            TypeOK
      <3> QED BY <1>0, <3>1, StillCarried DEF queue, ghosts, Proc, Pc, Carrying, Working, Executing
    <2> QED BY <2>1, <2>2
  <1>3. ASSUME NEW h \in Handler, Handle(h) PROVE Carried(r)'
    <2>0. h \in Proc
      BY DEF Proc
    <2>1. CASE RunWorkflow(h) \/ Answer(h)
      <3>1. UNCHANGED run /\ pc[h] \notin Carrying
        BY <2>1 DEF RunWorkflow, Answer, Carrying, Working, Executing
      <3>2. CASE Return(h) /\ UNCHANGED lost
        BY <1>0, <3>1, <3>2, ReturnCarries
      <3>3. CASE Throw(h, Nil)
        BY <1>0, <2>0, <3>1, <3>3, ThrowCarries
      <3>4. CASE Step(h, "create") /\ UNCHANGED <<queue, cur, lost>>
        BY <1>0, <2>0, <3>1, <3>4, StillCarried DEF queue, Pc
      <3> QED BY <2>1, <3>2, <3>3, <3>4 DEF RunWorkflow, Answer
    <2>2. CASE CreateRun(h)
      <3>1. CASE Throw(h, Nil) /\ UNCHANGED run
        BY <1>0, <2>0, <2>2, <3>1, ThrowCarries DEF CreateRun, Carrying, Working, Executing
      <3>2. CASE ~(Throw(h, Nil) /\ UNCHANGED run)
        <4>1. PICK q \in Run :
                /\ run' = [run EXCEPT ![q] = [st |-> "PENDING", wf |-> ask[h].wf, key |-> ask[h].key]]
                /\ cur' = [cur EXCEPT ![h] = q]
                /\ Step(h, "enqueue")
                /\ UNCHANGED <<queue, lost>>
                /\ pc[h] = "create"
          BY <2>2, <3>2 DEF CreateRun
        <4>2. CASE r = q
          BY <2>0, <4>1, <4>2 DEF Carried, Step, TypeOK, Carrying, Working
        <4>3. CASE r # q
          <5>1. Carried(r)
            BY <4>1, <4>3 DEF OpenCarried, TypeOK
          <5> QED BY <2>0, <4>1, <5>1, StillCarried
                  DEF queue, Pc, Carrying, Working, Executing, TypeOK
        <4> QED BY <4>2, <4>3
      <3> QED BY <3>1, <3>2
    <2>3. CASE EnqueueRun(h)
      <3>1. cur[h] \in Run /\ pc[h] = "enqueue" /\ UNCHANGED <<run, cur, held, lost>>
        BY <2>0, <2>3 DEF EnqueueRun, References, Working
      <3>2. CASE AddJob(cur[h])
        <4>1. PICK j \in Job : NextJob(j) /\ job' = [job EXCEPT ![j].st = "waiting", ![j].run = cur[h]]
          BY <3>2 DEF AddJob
        <4>2. job'[j].st = "waiting" /\ job'[j].run = cur[h] /\ \A i \in Job \ {j} : job'[i] = job[i]
          BY <4>1 DEF TypeOK, JobState
        <4>3. CASE r = cur[h]
          BY <4>2, <4>3 DEF Carried
        <4>4. CASE r # cur[h]
          <5>1. \A q \in Proc \ {h} : pc'[q] = pc[q]
            BY <2>0, <2>3 DEF EnqueueRun, Step, TypeOK
          <5> QED BY <1>0, <3>1, <4>1, <4>2, <4>4, <5>1 DEF Carried, Unlocked, NextJob
        <4> QED BY <4>3, <4>4
      <3>3. CASE ~AddJob(cur[h])
        BY <1>0, <2>0, <2>3, <3>1, <3>3, StillCarried
        DEF EnqueueRun, Pc, Carrying, Working, Executing
      <3> QED BY <3>2, <3>3
    <2>4. CASE RetryWrite(h)
      <3>0. cur[h] \in Run /\ pc[h] = "retry" /\ pc[h] \notin Carrying
        BY <2>0, <2>4 DEF RetryWrite, References, Carrying, Working, Executing
      <3>1. CASE UNCHANGED run /\ Throw(h, Nil)
        BY <1>0, <2>0, <3>0, <3>1, ThrowCarries
      <3>2. CASE ~(UNCHANGED run /\ Throw(h, Nil))
        <4>1. run' = [run EXCEPT ![cur[h]].st = "PENDING"]
          BY <2>4, <3>2 DEF RetryWrite
        <4>2. CASE Throw(h, cur[h])
          <5>1. CASE r = cur[h]
            <6>1. held[h] = Nil
              BY ProcAssumption DEF LocksMatch, Proc
            <6> QED BY <3>0, <4>2, <5>1, <6>1, NilAssumption DEF Throw, LastTry, Carried
          <5>2. CASE r # cur[h]
            BY <1>o, <2>0, <3>0, <4>1, <4>2, <5>2, ThrowCarries
          <5> QED BY <5>1, <5>2
        <4>3. CASE Step(h, "enqueue") /\ lost' = lost \ {cur[h]} /\ UNCHANGED <<queue, cur>>
          <5>1. CASE r = cur[h]
            BY <2>0, <4>3, <5>1 DEF Step, Carried, Carrying, Working, TypeOK
          <5>2. CASE r # cur[h]
            <6>1. \A q \in Proc \ {h} : pc'[q] = pc[q]
              BY <2>0, <4>3 DEF Step, TypeOK
            <6> QED BY <1>o, <3>0, <4>1, <4>3, <5>2, <6>1 DEF Carried, Unlocked, queue
          <5> QED BY <5>1, <5>2
        <4> QED BY <2>4, <3>2, <4>2, <4>3 DEF RetryWrite
      <3> QED BY <3>1, <3>2
    <2>5. CASE CancelWrite(h)
      <3>0. cur[h] \in Run /\ pc[h] \notin Carrying
        BY <2>0, <2>5 DEF CancelWrite, References, Carrying, Working, Executing
      <3>1. CASE UNCHANGED run /\ Throw(h, Nil)
        BY <1>0, <2>0, <3>0, <3>1, ThrowCarries
      <3>2. CASE run' = [run EXCEPT ![cur[h]].st = "CANCELLED"] /\ Return(h) /\ UNCHANGED lost
        <4>1. "CANCELLED" \notin Open
          BY DEF Open
        <4>2. Carried(r)
          BY <1>w, <3>0, <3>2, <4>1
        <4> QED BY <3>0, <3>2, <4>2, ReturnCarries
      <3> QED BY <2>5, <3>1, <3>2 DEF CancelWrite
    <2>6. CASE DeleteWrite(h)
      <3>0. pc[h] \notin Carrying
        BY <2>6 DEF DeleteWrite, Carrying, Working, Executing
      <3>1. CASE UNCHANGED run /\ Throw(h, Nil)
        BY <1>0, <2>0, <3>0, <3>1, ThrowCarries
      <3>2. CASE ~(UNCHANGED run /\ Throw(h, Nil))
        <4>1. /\ run' = [q \in Run |-> IF run[q].wf = ask[h].wf THEN [run[q] EXCEPT !.st = "gone"]
                                       ELSE run[q]]
              /\ Return(h) /\ UNCHANGED lost
          BY <2>6, <3>2 DEF DeleteWrite
        <4>2. run'[r] = run[r]
          BY <4>1 DEF TypeOK, RunState, Open
        <4> QED BY <3>0, <4>1, <4>2, ReturnCarries DEF OpenCarried
      <3> QED BY <3>1, <3>2
    <2> QED BY <1>3, <2>1, <2>2, <2>3, <2>4, <2>5, <2>6 DEF Handle
  <1>4. ASSUME NEW p \in Proc, Execute(p) PROVE Carried(r)'
    <2>0. cur[p] \in Run /\ pc[p] \in Working
      BY <1>4
      DEF References, Working, Executing, Execute, ExecStart, ExecLoad, ExecNode,
          ExecComplete, ExecFail, ExecEnd
    <2>1. CASE UNCHANGED run /\ Throw(p, cur[p])
      BY <1>0, <2>0, <2>1, ThrowCarries
    <2>2. ASSUME NEW there \in {"nodes", "failing", "answer"}, UNCHANGED run, Step(p, there),
                 UNCHANGED <<queue, cur, lost>>,
                 there \in {"nodes", "failing"} \/ pc[p] \in {"completed", "failed"}
          PROVE  Carried(r)'
      BY <1>0, <2>2, StillCarried DEF queue, Pc, Carrying, Working, Executing
    <2>3. CASE ExecStart(p)
      <3>1. CASE run' = [run EXCEPT ![cur[p]].st = "RUNNING"] /\ Step(p, "load") /\ UNCHANGED <<queue, cur, lost>>
        <4>1. CASE r = cur[p]
          BY <3>1, <4>1 DEF Step, Carried, Carrying, Working, Executing, TypeOK
        <4>2. CASE r # cur[p]
          BY <1>o, <2>0, <3>1, <4>2, StillCarried DEF queue, Pc, Working, Executing
        <4> QED BY <4>1, <4>2
      <3> QED BY <2>1, <2>3, <3>1 DEF ExecStart
    <2>4. CASE ExecLoad(p)
      BY <2>1, <2>2, <2>4 DEF ExecLoad
    <2>5. CASE ExecNode(p)
      <3>1. Step(p, "nodes") \/ Step(p, "failing")
        BY <2>5 DEF ExecNode, Step, TypeOK
      <3> QED BY <2>2, <2>5, <3>1 DEF ExecNode, ghosts
    <2>6. CASE ExecComplete(p)
      <3>1. CASE run' = [run EXCEPT ![cur[p]].st = "COMPLETED"] /\ Step(p, "completed")
        <4>1. r # cur[p]
          BY <2>0, <3>1 DEF TypeOK, RunState, Open
        <4> QED BY <1>o, <2>0, <2>6, <3>1, <4>1, StillCarried DEF ExecComplete, queue, ghosts, Pc, Working, Executing
      <3> QED BY <2>2, <2>6, <3>1 DEF ExecComplete, ghosts
    <2>7. CASE ExecFail(p)
      <3>1. CASE run' = [run EXCEPT ![cur[p]].st = "FAILED"] /\ Step(p, "failed") /\ UNCHANGED <<queue, cur, lost>>
        <4>1. r # cur[p]
          BY <2>0, <3>1 DEF TypeOK, RunState, Open
        <4> QED BY <1>o, <2>0, <3>1, <4>1, StillCarried DEF queue, Pc, Working, Executing
      <3> QED BY <2>1, <2>7, <3>1 DEF ExecFail
    <2>8. CASE ExecEnd(p)
      <3>1. CASE /\ Forget(p) /\ Step(p, "idle") /\ UNCHANGED lost
                 /\ job' = IF held[p] = Nil THEN job ELSE [job EXCEPT ![held[p]].st = "done"]
        <4>0. pc[p] \notin Carrying /\ Carried(r)
          BY <1>0, <2>8 DEF ExecEnd, Carrying
        <4>1. \A q \in Proc \ {p} : cur'[q] = cur[q] /\ pc'[q] = pc[q] /\ held'[q] = held[q]
          BY <3>1 DEF Forget, Step, TypeOK
        <4>2. \A j \in Job : j # held[p] => job'[j] = job[j]
          BY <3>1 DEF TypeOK
        <4>3. \A j \in Job : job[j].st = "waiting" \/ Unlocked(j) => j # held[p]
          BY NilAssumption DEF Unlocked, LocksMatch
        <4>4. held'[p] = Nil
          BY <3>1 DEF Forget, TypeOK
        <4>5. CASE r \in lost
          BY <3>1, <4>5 DEF Carried
        <4>6. CASE \E q \in Proc : cur[q] = r /\ pc[q] \in Carrying
          BY <4>0, <4>1, <4>6 DEF Carried
        <4>7. CASE \E j \in Job : job[j].run = r /\ (job[j].st = "waiting" \/ Unlocked(j))
          <5>1. PICK j \in Job : job[j].run = r /\ (job[j].st = "waiting" \/ Unlocked(j))
            BY <4>7
          <5>2. job'[j] = job[j] /\ \A q \in Slot : held[q] # j => held'[q] # j
            BY <4>1, <4>2, <4>3, <4>4, <5>1, NilAssumption DEF Proc
          <5> QED BY <5>1, <5>2 DEF Carried, Unlocked
        <4> QED BY <4>0, <4>5, <4>6, <4>7 DEF Carried
      <3> QED BY <2>1, <2>2, <2>8, <3>1 DEF ExecEnd
    <2> QED BY <1>4, <2>3, <2>4, <2>5, <2>6, <2>7, <2>8 DEF Execute
  <1>5. ASSUME NEW p \in Proc, DbError(p) PROVE Carried(r)'
    <2>0. UNCHANGED run
      BY <1>5 DEF DbError
    <2>1. CASE pc[p] \in {"nodes", "completed"} /\ Step(p, "failing") /\ UNCHANGED <<queue, cur, lost>>
      BY <1>0, <2>0, <2>1, StillCarried DEF queue, Pc, Carrying, Working, Executing
    <2>2. CASE pc[p] \in {"start", "load", "failing", "failed"} /\ Throw(p, cur[p])
      <3>1. cur[p] \in Run
        BY <2>2 DEF References, Working, Executing
      <3> QED BY <1>0, <2>0, <2>2, <3>1, ThrowCarries
    <2>3. CASE pc[p] \in {"run", "create", "answer", "retry", "cancel", "delete"} /\ Throw(p, Nil)
      BY <1>0, <2>0, <2>3, ThrowCarries DEF Carrying, Working, Executing
    <2> QED BY <1>5, <2>1, <2>2, <2>3 DEF DbError
  <1>6. ASSUME NEW s \in Slot, NEW j \in Job, TakeJob(s, j) PROVE Carried(r)'
    <2>1. /\ s \in Proc /\ pc[s] = "idle" /\ job[j].st = "waiting" /\ UNCHANGED <<run, lost>>
          /\ job' = [job EXCEPT ![j].st = "active"]
          /\ held' = [held EXCEPT ![s] = j]
          /\ cur' = [cur EXCEPT ![s] = job[j].run]
          /\ pc' = [pc EXCEPT ![s] = "start"]
      BY <1>6 DEF TakeJob, Take, Proc, Step, ghosts
    <2>2. CASE job[j].run = r
      BY <2>1, <2>2 DEF Carried, Carrying, Working, Executing, TypeOK
    <2>3. CASE job[j].run # r
      <3>1. \A p \in Proc : cur[p] = r /\ pc[p] \in Carrying => cur'[p] = r /\ pc'[p] \in Carrying
        BY <2>1 DEF Carrying, Working, Executing, TypeOK
      <3>2. \A i \in Job : job[i].run = r /\ (job[i].st = "waiting" \/ Unlocked(i)) =>
                            job'[i] = job[i] /\ (job'[i].st = "waiting" \/ Unlocked(i)')
        BY <2>1, <2>3 DEF Unlocked, TypeOK, Proc
      <3> QED BY <1>0, <2>1, <3>1, <3>2 DEF Carried
    <2> QED BY <2>2, <2>3
  <1>7. ASSUME NEW P \in SUBSET Proc, Crash(P) PROVE Carried(r)'
    <2>0. Carried(r) /\ UNCHANGED job
      BY <1>0, <1>7 DEF Crash
    <2>1. CASE r \in lost
      BY <1>7, <2>1 DEF Crash, Carried
    <2>2. CASE \E p \in Proc : cur[p] = r /\ pc[p] \in Carrying
      <3>1. PICK p \in Proc : cur[p] = r /\ pc[p] \in Carrying
        BY <2>2
      <3>2. CASE p \notin P
        BY <1>7, <3>1, <3>2 DEF Crash, Carried
      <3>3. CASE p \in P /\ held[p] = Nil
        BY <1>7, <3>1, <3>3 DEF Crash, Carried, Carrying
      <3>4. CASE p \in P /\ held[p] # Nil
        <4>1. held[p] \in Job /\ job[held[p]].run = r /\ job[held[p]].st = "active"
          BY <3>1, <3>4 DEF LocksMatch, TypeOK
        <4>2. \A s \in Slot : held'[s] # held[p]
          BY <1>7, <3>4 DEF Crash, LocksMatch, Proc
        <4> QED BY <2>0, <4>1, <4>2 DEF Carried, Unlocked
      <3> QED BY <3>2, <3>3, <3>4
    <2>3. CASE \E j \in Job : job[j].run = r /\ (job[j].st = "waiting" \/ Unlocked(j))
      <3>1. \A s \in Slot : held'[s] = held[s] \/ held'[s] = Nil
        BY <1>7 DEF Crash, Proc
      <3> QED BY <2>0, <2>3, <3>1, NilAssumption DEF Carried, Unlocked
    <2> QED BY <2>0, <2>1, <2>2, <2>3 DEF Carried
  <1>8. ASSUME NEW j \in Job, StalledJob(j) PROVE Carried(r)'
    <2>1. /\ job[j].st = "active" /\ UNCHANGED <<run, pc, cur, held>> /\ lost \subseteq lost'
          /\ job[j].stalls < MaxStalled \/ job[j].run \in lost'
      BY <1>8 DEF StalledJob, Unlocked
    <2>2. CASE job[j].run = r
      BY <1>8, <2>1, <2>2, RequeueType DEF StalledJob, Carried
    <2>3. CASE job[j].run # r
      BY <1>0, <1>8, <2>1, <2>3, RequeueType DEF StalledJob, Carried, Unlocked
    <2> QED BY <2>2, <2>3
  <1>9. ASSUME NEW s \in Slot, LostLock(s) PROVE Carried(r)'
    <2>1. /\ s \in Proc /\ held[s] \in Job /\ held[s] # Nil /\ job[held[s]].st = "active"
          /\ Requeue(held[s]) /\ UNCHANGED <<run, pc, cur, lost>>
          /\ held' = [held EXCEPT ![s] = Nil]
      BY <1>9 DEF LostLock, Proc, TypeOK, LocksMatch
    <2>2. \A j \in Job : job[j].st = "waiting" \/ Unlocked(j) => j # held[s]
      BY <2>1 DEF Unlocked
    <2>3. \A j \in Job : j # held[s] => job'[j] = job[j]
      BY <2>1, RequeueType
    <2>4. \A q \in Slot : held'[q] = held[q] \/ held'[q] = Nil
      BY <2>1 DEF TypeOK, Proc
    <2> QED BY <1>0, <2>1, <2>2, <2>3, <2>4, NilAssumption DEF Carried, Unlocked
  <1>10. CASE UNCHANGED vars
    BY <1>0, <1>10 DEF vars, Carried, Unlocked
  <1> QED BY <1>1, <1>2, <1>3, <1>4, <1>5, <1>6, <1>7, <1>8, <1>9, <1>10 DEF Next

LEMMA InitCarried == Init => OpenCarried
  BY DEF Init, OpenCarried, Open

(***************************************************************************)
(* In every behaviour, with any number of requests, slots, crashes,        *)
(* database errors, lost replies and expired locks, a PENDING or RUNNING   *)
(* run is in somebody's hands or its last executor was lost.               *)
(***************************************************************************)
THEOREM NoneEverForgotten == Spec => []NoneForgotten
  <1>1. OpenCarried => NoneForgotten
    BY DEF OpenCarried, NoneForgotten, Carried, WorkersOf, JobsOf, Carrying
  <1> QED BY InitBase, NextBase, InitCarried, NextCarried, <1>1, PTL DEF Spec

-----------------------------------------------------------------------------
(***************************************************************************)
(* What a step may do to the run rows: write the status of one that        *)
(* exists, insert the next one, or take those of a workflow away.          *)
(***************************************************************************)
RowWritten ==
    \/ UNCHANGED run
    \/ \E r \in Run, status \in RunStatus :
          Exists(r) /\ run' = [run EXCEPT ![r].st = status]
    \/ \E r \in Run, new \in RunState :
          NextRun(r) /\ new.st = "PENDING" /\ run' = [run EXCEPT ![r] = new]
    \/ \E w \in Workflow :
          run' = [r \in Run |-> IF run[r].wf = w THEN [run[r] EXCEPT !.st = "gone"] ELSE run[r]]

LEMMA StepWritesRow == ASSUME Base, [Next]_vars PROVE RowWritten
  <1>1. CASE Edit
    BY <1>1, EditsOnlyRows
    DEF OnlyRows, RowWritten
  <1>2. ASSUME NEW h \in Handler, Receive(h) PROVE RowWritten
    BY <1>2
    DEF Receive, RequestRun, TriggerEvent, Request, RetryRead, CancelRead, DeleteRead, Ready,
        ArchiveInstead, ArchiveWorkflow, OnlyRows, RowWritten
  <1>3. ASSUME NEW h \in Handler, Handle(h) PROVE RowWritten
    <2>0. /\ h \in Proc /\ ask[h] \in Ask
          /\ pc[h] \in {"retry", "cancel"} => cur[h] \in Run
          /\ pc[h] \in {"create", "delete"} => ask[h].wf \in Workflow
      BY DEF Proc, Base, TypeOK, References
    <2>1. CASE RunWorkflow(h) \/ EnqueueRun(h) \/ Answer(h)
      BY <2>1 DEF RunWorkflow, EnqueueRun, Answer, RowWritten
    <2>2. CASE CreateRun(h)
      <3>1. CASE UNCHANGED run
        BY <3>1 DEF RowWritten
      <3>2. CASE ~UNCHANGED run
        <4>1. PICK r \in Run :
                /\ NextRun(r)
                /\ run' = [run EXCEPT ![r] = [st |-> "PENDING", wf |-> ask[h].wf, key |-> ask[h].key]]
          BY <2>2, <3>2 DEF CreateRun
        <4>2. [st |-> "PENDING", wf |-> ask[h].wf, key |-> ask[h].key] \in RunState
          BY <2>0, <2>2 DEF CreateRun, RunState, Ask, RunStatus
        <4> QED BY <4>1, <4>2 DEF RowWritten
      <3> QED BY <3>1, <3>2
    <2>3. CASE RetryWrite(h) \/ CancelWrite(h)
      <3>1. cur[h] \in Run
        BY <2>0, <2>3 DEF RetryWrite, CancelWrite
      <3>2. \/ UNCHANGED run
            \/ \E status \in {"PENDING", "CANCELLED"} :
                  Exists(cur[h]) /\ run' = [run EXCEPT ![cur[h]].st = status]
        BY <2>3 DEF RetryWrite, CancelWrite
      <3> QED BY <3>1, <3>2 DEF RowWritten, RunStatus
    <2>4. CASE DeleteWrite(h)
      BY <2>0, <2>4 DEF DeleteWrite, RowWritten
    <2> QED BY <1>3, <2>1, <2>2, <2>3, <2>4 DEF Handle
  <1>4. ASSUME NEW p \in Proc, Execute(p) PROVE RowWritten
    <2>0. cur[p] \in Run
      BY <1>4
      DEF Base, References, Working, Executing, Execute, ExecStart, ExecLoad, ExecNode, ExecComplete,
          ExecFail, ExecEnd
    <2>1. \/ UNCHANGED run
          \/ \E status \in {"RUNNING", "COMPLETED", "FAILED"} :
                Exists(cur[p]) /\ run' = [run EXCEPT ![cur[p]].st = status]
      BY <1>4 DEF Execute, ExecStart, ExecLoad, ExecNode, ExecComplete, ExecFail, ExecEnd
    <2> QED BY <2>0, <2>1 DEF RowWritten, RunStatus
  <1>5. CASE \/ \E p \in Proc : DbError(p)
             \/ \E s \in Slot, j \in Job : TakeJob(s, j)
             \/ \E P \in SUBSET Proc : Crash(P)
             \/ \E j \in Job : StalledJob(j)
             \/ \E s \in Slot : LostLock(s)
             \/ UNCHANGED vars
    BY <1>5 DEF DbError, TakeJob, Take, Crash, StalledJob, LostLock, vars, RowWritten
  <1> QED BY <1>1, <1>2, <1>3, <1>4, <1>5 DEF Next

\* A row that is gone does not come back, and one that was inserted stays
\* inserted.
LEMMA RowsPersist ==
  ASSUME Base, RowWritten, NEW r \in Run
  PROVE  /\ run[r].st # "none" => run'[r].st # "none" /\ (Exists(r)' => Exists(r))
         /\ run'[r].st = "none" => run'[r] = run[r]
  <1>0. run \in [Run -> RunState] /\ run[r] \in RunState
    BY DEF Base, TypeOK
  <1>1. CASE UNCHANGED run
    BY <1>1 DEF Exists
  <1>2. ASSUME NEW q \in Run, NEW status \in RunStatus, Exists(q),
               run' = [run EXCEPT ![q].st = status]
        PROVE  /\ run[r].st # "none" => run'[r].st # "none" /\ (Exists(r)' => Exists(r))
               /\ run'[r].st = "none" => run'[r] = run[r]
    <2>1. CASE r = q
      <3>1. run'[r] = [run[r] EXCEPT !.st = status]
        BY <1>0, <1>2, <2>1
      <3>2. run'[r].st = status /\ status # "none"
        BY <1>0, <3>1 DEF RunState, RunStatus
      <3> QED BY <1>2, <2>1, <3>2
    <2>2. CASE r # q
      <3>1. run'[r] = run[r]
        BY <1>0, <1>2, <2>2
      <3> QED BY <3>1 DEF Exists
    <2> QED BY <2>1, <2>2
  <1>3. CASE \E q \in Run, new \in RunState :
               NextRun(q) /\ new.st = "PENDING" /\ run' = [run EXCEPT ![q] = new]
    BY <1>0, <1>3 DEF NextRun, Exists
  <1>4. CASE \E w \in Workflow :
               run' = [q \in Run |-> IF run[q].wf = w THEN [run[q] EXCEPT !.st = "gone"] ELSE run[q]]
    <2>1. run'[r] = run[r] \/ run'[r] = [run[r] EXCEPT !.st = "gone"]
      BY <1>4
    <2>2. run'[r] = run[r] \/ run'[r].st = "gone"
      BY <1>0, <2>1 DEF RunState
    <2> QED BY <2>2 DEF Exists, RunStatus
  <1> QED BY <1>1, <1>2, <1>3, <1>4 DEF RowWritten

(***************************************************************************)
(* The runs that processes and jobs refer to have been inserted.           *)
(***************************************************************************)
Known ==
    /\ \A p \in Proc : cur[p] # Nil => run[cur[p]].st # "none"
    /\ \A j \in Job : job[j].st # "none" => run[job[j].run].st # "none"

\* A process lets its run go, keeps it, or takes one that is known; a job
\* keeps its run, and a new one gets the run of the process that adds it.
Referred ==
    /\ \A p \in Proc : \/ cur'[p] \in {Nil, cur[p]}
                       \/ run'[cur'[p]].st # "none"
                       \/ \E j \in Job : job[j].st # "none" /\ cur'[p] = job[j].run
    /\ \A j \in Job : job'[j].st # "none" =>
          \/ job[j].st # "none" /\ job'[j].run = job[j].run
          \/ \E p \in Proc : job'[j].run = cur[p] /\ cur[p] # Nil

LEMMA ThrowRefers ==
  ASSUME Base, NEW p \in Proc, NEW r \in Run \cup {Nil}, Throw(p, r)
  PROVE  Referred
  <1>1. cur' = [cur EXCEPT ![p] = Nil]
    BY DEF Throw, Forget
  <1>2. \A j \in Job : job'[j].st # "none" => job[j].st # "none" /\ job'[j].run = job[j].run
    <2>1. CASE held[p] = Nil
      BY <2>1 DEF Throw
    <2>2. CASE held[p] # Nil
      <3>1. held[p] \in Job /\ job[held[p]].st = "active"
        BY <2>2 DEF Base, TypeOK, LocksMatch
      <3> QED BY <2>2, <3>1 DEF Throw, Base, TypeOK, JobState
    <2> QED BY <2>1, <2>2
  <1> QED BY <1>1, <1>2 DEF Referred, Base, TypeOK

LEMMA StepRefers == ASSUME Base, [Next]_vars PROVE Referred
  <1>a. ASSUME UNCHANGED <<cur, job>> PROVE Referred
    BY <1>a DEF Referred
  <1>b. ASSUME NEW h \in Handler, Return(h) PROVE Referred
    BY <1>b DEF Return, Forget, Proc, Base, TypeOK, Referred
  <1>1. CASE Edit
    BY <1>1, <1>a, EditsOnlyRows
    DEF OnlyRows, queue
  <1>2. ASSUME NEW h \in Handler, Receive(h) PROVE Referred
    <2>1. CASE UNCHANGED <<cur, job>>
      BY <1>a, <2>1
    <2>2. CASE ~UNCHANGED <<cur, job>>
      <3>1. PICK r \in Run \cup {Nil} :
              /\ r # Nil => Exists(r)
              /\ cur' = [cur EXCEPT ![h] = r] /\ UNCHANGED <<run, job>>
        BY <1>2, <2>2, NilAssumption
        DEF Receive, RequestRun, TriggerEvent, Request, RetryRead, CancelRead, DeleteRead, Ready,
            ArchiveInstead, ArchiveWorkflow, OnlyRows, queue, Exists, Open, RunStatus
      <3> QED BY <3>1 DEF Referred, Base, TypeOK, Exists, RunStatus
    <2> QED BY <2>1, <2>2
  <1>3. ASSUME NEW h \in Handler, Handle(h) PROVE Referred
    <2>0. h \in Proc
      BY DEF Proc
    <2>1. CASE (\E q \in {Nil, cur[h]} : Throw(h, q)) \/ Return(h)
      BY <1>b, <2>0, <2>1, ThrowRefers DEF Base, TypeOK
    <2>2. CASE RunWorkflow(h) \/ Answer(h) \/ CancelWrite(h) \/ DeleteWrite(h)
      BY <1>a, <2>1, <2>2 DEF RunWorkflow, Answer, CancelWrite, DeleteWrite, queue
    <2>3. CASE CreateRun(h)
      <3>1. CASE Throw(h, Nil)
        BY <2>1, <3>1
      <3>2. CASE ~Throw(h, Nil)
        <4>1. PICK r \in Run :
                /\ run' = [run EXCEPT ![r] = [st |-> "PENDING", wf |-> ask[h].wf, key |-> ask[h].key]]
                /\ cur' = [cur EXCEPT ![h] = r] /\ UNCHANGED job
          BY <2>3, <3>2 DEF CreateRun, queue
        <4> QED BY <4>1 DEF Referred, Base, TypeOK
      <3> QED BY <3>1, <3>2
    <2>4. CASE EnqueueRun(h)
      <3>1. UNCHANGED cur /\ cur[h] \in Run /\ (UNCHANGED job \/ AddJob(cur[h]))
        BY <2>0, <2>4 DEF EnqueueRun, Base, References, Working
      <3>2. CASE AddJob(cur[h])
        <4>1. PICK j \in Job : job' = [job EXCEPT ![j].st = "waiting", ![j].run = cur[h]]
          BY <3>2 DEF AddJob
        <4>2. job'[j].run = cur[h] /\ \A i \in Job \ {j} : job'[i] = job[i]
          BY <4>1 DEF Base, TypeOK, JobState
        <4> QED BY <2>0, <3>1, <4>2, NilAssumption DEF Referred
      <3> QED BY <1>a, <3>1, <3>2
    <2>5. CASE RetryWrite(h)
      BY <1>a, <2>1, <2>5 DEF RetryWrite, queue
    <2> QED BY <1>3, <2>2, <2>3, <2>4, <2>5 DEF Handle
  <1>4. ASSUME NEW p \in Proc, Execute(p) PROVE Referred
    <2>1. CASE Throw(p, cur[p])
      BY <2>1, ThrowRefers DEF Base, TypeOK
    <2>2. CASE ExecEnd(p)
      <3>1. CASE /\ Forget(p)
                 /\ job' = IF held[p] = Nil THEN job ELSE [job EXCEPT ![held[p]].st = "done"]
        <4>1. held[p] # Nil => held[p] \in Job /\ job[held[p]].st = "active"
          BY DEF Base, TypeOK, LocksMatch
        <4> QED BY <3>1, <4>1 DEF Referred, Forget, Base, TypeOK, JobState
      <3> QED BY <1>a, <2>1, <2>2, <3>1 DEF ExecEnd, queue
    <2> QED BY <1>4, <1>a, <2>1, <2>2
            DEF Execute, ExecStart, ExecLoad, ExecNode, ExecComplete, ExecFail, queue
  <1>5. ASSUME NEW p \in Proc, DbError(p) PROVE Referred
    BY <1>5, <1>a, ThrowRefers DEF DbError, queue, Base, TypeOK
  <1>6. ASSUME NEW s \in Slot, NEW j \in Job, TakeJob(s, j) PROVE Referred
    <2>1. /\ job[j].st = "waiting" /\ job' = [job EXCEPT ![j].st = "active"]
          /\ cur' = [cur EXCEPT ![s] = job[j].run]
      BY <1>6 DEF TakeJob, Take
    <2> QED BY <2>1 DEF Referred, Base, TypeOK, JobState
  <1>7. ASSUME NEW P \in SUBSET Proc, Crash(P) PROVE Referred
    BY <1>7 DEF Crash, Referred
  <1>8. ASSUME NEW j \in Job, StalledJob(j) PROVE Referred
    BY <1>8, RequeueType DEF StalledJob, Unlocked, Referred
  <1>9. ASSUME NEW s \in Slot, LostLock(s) PROVE Referred
    <2>1. held[s] \in Job /\ job[held[s]].st = "active" /\ Requeue(held[s]) /\ UNCHANGED cur
      BY <1>9 DEF LostLock, Proc, Base, TypeOK, LocksMatch
    <2> QED BY <2>1, RequeueType DEF Referred
  <1> QED BY <1>1, <1>2, <1>3, <1>4, <1>5, <1>6, <1>7, <1>8, <1>9, <1>a DEF Next, vars

LEMMA NextKnown == Base /\ Known /\ [Next]_vars => Known'
  <1> SUFFICES ASSUME Base, Known, [Next]_vars PROVE Known'
    OBVIOUS
  <1>1. RowWritten /\ Referred /\ Base'
    BY StepWritesRow, StepRefers, NextBase
  <1>2. \A r \in Run : run[r].st # "none" => run'[r].st # "none"
    BY <1>1, RowsPersist
  <1>3. \A p \in Proc : cur[p] \in Run \cup {Nil} /\ cur'[p] \in Run \cup {Nil}
    BY <1>1 DEF Base, TypeOK
  <1>4. \A j \in Job : job[j].st # "none" => job[j].run \in Run
    BY DEF Base, References
  <1>5. ASSUME NEW p \in Proc, cur'[p] # Nil PROVE run'[cur'[p]].st # "none"
    BY <1>1, <1>2, <1>3, <1>4, <1>5 DEF Referred, Known
  <1>6. ASSUME NEW j \in Job, job'[j].st # "none" PROVE run'[job'[j].run].st # "none"
    BY <1>1, <1>2, <1>3, <1>4, <1>6 DEF Referred, Known
  <1> QED BY <1>5, <1>6 DEF Known

LEMMA InitKnown == Init => Known
  BY DEF Init, Known

-----------------------------------------------------------------------------
(***************************************************************************)
(* Nodes.  A list of nodes after an insertion, and after a removal.        *)
(***************************************************************************)
Inserted(s, i, x) == SubSeq(s, 1, i) \o <<x>> \o SubSeq(s, i + 1, Len(s))
Removed(s, i) == SubSeq(s, 1, i - 1) \o SubSeq(s, i + 1, Len(s))

LEMMA InsertAt ==
  ASSUME NEW S, NEW s \in Seq(S), NEW i \in 0..Len(s), NEW x \in S
  PROVE  /\ Inserted(s, i, x) \in Seq(S) /\ Len(Inserted(s, i, x)) = Len(s) + 1
         /\ \A k \in 1..(Len(s) + 1) :
               Inserted(s, i, x)[k] = IF k <= i THEN s[k] ELSE IF k = i + 1 THEN x ELSE s[k - 1]
  <1> DEFINE a == SubSeq(s, 1, i)
             b == SubSeq(s, i + 1, Len(s))
  <1>1. /\ a \in Seq(S) /\ Len(a) = i /\ \A k \in 1..i : a[k] = s[k]
        /\ b \in Seq(S) /\ Len(b) = Len(s) - i /\ \A k \in 1..(Len(s) - i) : b[k] = s[i + k]
    <2>1. Len(s) \in Nat
      BY LenProperties
    <2> QED BY <2>1, SubSeqProperties
  <1>2. <<x>> \in Seq(S) /\ Len(<<x>>) = 1 /\ <<x>>[1] = x
    OBVIOUS
  <1> HIDE DEF a, b
  <1> DEFINE c == a \o <<x>>
  <1>3. /\ c \in Seq(S) /\ Len(c) = i + 1
        /\ \A k \in 1..(i + 1) : c[k] = IF k <= i THEN s[k] ELSE x
    BY <1>1, <1>2, ConcatProperties
  <1> DEFINE t == c \o b
  <1>4. Inserted(s, i, x) = t
    BY DEF a, b, Inserted
  <1> HIDE DEF c
  <1>5. /\ t \in Seq(S) /\ Len(t) = Len(c) + Len(b)
        /\ \A k \in 1..(Len(c) + Len(b)) : t[k] = IF k <= Len(c) THEN c[k] ELSE b[k - Len(c)]
    BY <1>1, <1>3, ConcatProperties, ZenonT(30)
  <1> HIDE DEF t
  <1>6. Len(s) \in Nat /\ i \in Nat /\ i <= Len(s) /\ Len(t) = Len(s) + 1
    BY <1>1, <1>3, <1>5, LenProperties
  <1>7. ASSUME NEW k \in 1..(Len(s) + 1)
        PROVE  t[k] = IF k <= i THEN s[k] ELSE IF k = i + 1 THEN x ELSE s[k - 1]
    <2>1. CASE k <= i + 1
      BY <1>3, <1>5, <1>6, <2>1
    <2>2. CASE k > i + 1
      <3>1. k - (i + 1) \in 1..(Len(s) - i) /\ i + (k - (i + 1)) = k - 1
        BY <1>6, <2>2
      <3>2. t[k] = b[k - (i + 1)]
        <4>1. Len(c) = i + 1 /\ k \in 1..(Len(c) + Len(b)) /\ ~(k <= Len(c))
          BY <1>1, <1>3, <1>6, <2>2
        <4> QED BY <1>5, <4>1
      <3>3. b[k - (i + 1)] = s[i + (k - (i + 1))]
        BY <1>1, <3>1
      <3> QED BY <1>6, <2>2, <3>1, <3>2, <3>3
    <2> QED BY <1>6, <2>1, <2>2
  <1> QED BY <1>4, <1>5, <1>6, <1>7

LEMMA RemoveAt ==
  ASSUME NEW S, NEW s \in Seq(S), NEW i \in 1..Len(s)
  PROVE  /\ Removed(s, i) \in Seq(S) /\ Len(Removed(s, i)) = Len(s) - 1
         /\ \A k \in 1..(Len(s) - 1) : Removed(s, i)[k] = IF k < i THEN s[k] ELSE s[k + 1]
  <1> DEFINE a == SubSeq(s, 1, i - 1)
             b == SubSeq(s, i + 1, Len(s))
  <1>1. /\ a \in Seq(S) /\ Len(a) = i - 1 /\ \A k \in 1..(i - 1) : a[k] = s[k]
        /\ b \in Seq(S) /\ Len(b) = Len(s) - i /\ \A k \in 1..(Len(s) - i) : b[k] = s[i + k]
    <2>1. Len(s) \in Nat
      BY LenProperties
    <2> QED BY <2>1, SubSeqProperties
  <1> HIDE DEF a, b
  <1>2. /\ a \o b \in Seq(S) /\ Len(a \o b) = Len(s) - 1
        /\ \A k \in 1..(Len(s) - 1) : (a \o b)[k] = IF k <= i - 1 THEN a[k] ELSE b[k - (i - 1)]
    <2>1. /\ a \o b \in Seq(S) /\ Len(a \o b) = Len(a) + Len(b)
          /\ \A k \in 1..(Len(a) + Len(b)) : (a \o b)[k] = IF k <= Len(a) THEN a[k] ELSE b[k - Len(a)]
      BY <1>1, ConcatProperties
    <2>2. Len(s) \in Nat /\ Len(a) + Len(b) = Len(s) - 1
      BY <1>1, LenProperties
    <2> QED BY <1>1, <2>1, <2>2
  <1>3. ASSUME NEW k \in 1..(Len(s) - 1)
        PROVE  (a \o b)[k] = IF k < i THEN s[k] ELSE s[k + 1]
    BY <1>1, <1>2, LenProperties
  <1>4. Removed(s, i) = a \o b
    BY DEF a, b, Removed
  <1> QED BY <1>2, <1>3, <1>4

(***************************************************************************)
(* A node row is listed once, by one workflow, and is there.               *)
(***************************************************************************)
Listed ==
    \A v, w \in Workflow : \A i \in 1..Len(nodes[v]), j \in 1..Len(nodes[w]) :
        /\ kind[nodes[v][i]] \in NodeKind
        /\ nodes[v][i] = nodes[w][j] => v = w /\ i = j

\* A node row that is gone does not come back.
NodesStayGone == \A n \in Node : kind[n] = "gone" => kind'[n] = "gone"

\* The nodes of w become s; what the other workflows list stays.
LEMMA ListWritten ==
  ASSUME TypeOK, Listed, NEW w \in Workflow, NEW s \in Seq(Node),
         nodes' = [nodes EXCEPT ![w] = s],
         \A k \in 1..Len(s) : kind'[s[k]] \in NodeKind,
         \A k, l \in 1..Len(s) : s[k] = s[l] => k = l,
         \A v \in Workflow \ {w} : \A i \in 1..Len(nodes[v]) :
            /\ kind'[nodes[v][i]] \in NodeKind
            /\ \A k \in 1..Len(s) : s[k] # nodes[v][i]
  PROVE  Listed'
  <1>1. nodes'[w] = s /\ \A v \in Workflow \ {w} : nodes'[v] = nodes[v]
    BY DEF TypeOK
  <1> SUFFICES ASSUME NEW u \in Workflow, NEW v \in Workflow,
                      NEW i \in 1..Len(nodes'[u]), NEW j \in 1..Len(nodes'[v])
               PROVE  /\ kind'[nodes'[u][i]] \in NodeKind
                      /\ nodes'[u][i] = nodes'[v][j] => u = v /\ i = j
    BY DEF Listed
  <1>2. CASE u = w /\ v = w
    BY <1>1, <1>2
  <1>3. CASE u = w /\ v # w
    BY <1>1, <1>3
  <1>4. CASE u # w /\ v = w
    BY <1>1, <1>4
  <1>5. CASE u # w /\ v # w
    BY <1>1, <1>5 DEF Listed
  <1> QED BY <1>2, <1>3, <1>4, <1>5

LEMMA SaveListed ==
  ASSUME TypeOK, Listed, NEW w \in Workflow, NEW ks \in NodeLists, SaveNodes(w, ks)
  PROVE  Listed' /\ NodesStayGone
  <1>1. ks \in Seq(NodeKind) /\ Len(ks) \in Nat /\ \A k \in 1..Len(ks) : ks[k] \in NodeKind
    BY NodeListsAssumption
  <1>2. PICK base \in 0..(MaxNodes - Len(ks)) :
          /\ IssuedNodes(base)
          /\ nodes' = [nodes EXCEPT ![w] = [i \in 1..Len(ks) |-> base + i]]
          /\ kind' = [n \in Node |->
                        IF \E i \in 1..Len(nodes[w]) : nodes[w][i] = n THEN "gone"
                        ELSE IF n - base \in 1..Len(ks) THEN ks[n - base]
                        ELSE kind[n]]
    BY DEF SaveNodes
  <1> DEFINE s == [i \in 1..Len(ks) |-> base + i]
  <1>3. s \in Seq(Node) /\ Len(s) = Len(ks) /\ \A k \in 1..Len(s) : s[k] = base + k
    BY <1>1, BoundsAssumption DEF Node
  <1>4. \A v \in Workflow : \A i \in 1..Len(nodes[v]) :
           nodes[v][i] \in Node /\ nodes[v][i] <= base /\ kind[nodes[v][i]] \in NodeKind
    <2>1. \A v \in Workflow : \A i \in 1..Len(nodes[v]) :
             nodes[v][i] \in Node /\ kind[nodes[v][i]] \in NodeKind /\ kind[nodes[v][i]] # "none"
      BY DEF TypeOK, Listed, NodeKind
    <2> QED BY <1>2, <2>1, BoundsAssumption DEF IssuedNodes, Node
  <1>5. \A k \in 1..Len(s) : kind'[s[k]] \in NodeKind
    <2> TAKE k \in 1..Len(s)
    <2>1. s[k] \in Node /\ s[k] = base + k /\ k \in 1..Len(ks)
      BY <1>1, <1>3
    <2>2. s[k] - base = k /\ s[k] > base
      BY <2>1, <1>1
    <2>3. ~\E i \in 1..Len(nodes[w]) : nodes[w][i] = s[k]
      BY <1>4, <2>2
    <2>4. kind'[s[k]] = ks[k]
      BY <1>2, <2>1, <2>2, <2>3
    <2> QED BY <1>1, <2>1, <2>4
  <1>6. \A k, l \in 1..Len(s) : s[k] = s[l] => k = l
    BY <1>1, <1>3
  <1>7. \A v \in Workflow \ {w} : \A i \in 1..Len(nodes[v]) :
            /\ kind'[nodes[v][i]] \in NodeKind
            /\ \A k \in 1..Len(s) : s[k] # nodes[v][i]
    <2> SUFFICES ASSUME NEW v \in Workflow \ {w}, NEW i \in 1..Len(nodes[v])
                 PROVE  /\ kind'[nodes[v][i]] \in NodeKind
                        /\ \A k \in 1..Len(s) : s[k] # nodes[v][i]
      OBVIOUS
    <2> DEFINE n == nodes[v][i]
    <2>1. n \in Node /\ n <= base /\ kind[n] \in NodeKind
      BY <1>4
    <2>2. ~\E l \in 1..Len(nodes[w]) : nodes[w][l] = n
      BY DEF Listed
    <2> HIDE DEF n
    <2>3. n \in Nat /\ n - base \notin 1..Len(ks)
      BY <1>1, <2>1, BoundsAssumption DEF Node
    <2>4. kind'[n] = kind[n]
      BY <1>2, <2>1, <2>2, <2>3
    <2>5. \A k \in 1..Len(s) : s[k] # n
      BY <1>1, <1>3, <2>1, <2>3
    <2> QED BY <2>1, <2>4, <2>5 DEF n
  <1>8. NodesStayGone
    <2> SUFFICES ASSUME NEW n \in Node, kind[n] = "gone" PROVE kind'[n] = "gone"
      BY DEF NodesStayGone
    <2>1. n \in Nat /\ n <= base
      BY <1>2, BoundsAssumption DEF IssuedNodes, Node
    <2>2. n - base \notin 1..Len(ks)
      BY <1>1, <2>1, BoundsAssumption
    <2> QED BY <1>2, <2>2
  <1> HIDE DEF s
  <1>9. nodes' = [nodes EXCEPT ![w] = s]
    BY <1>2 DEF s
  <1>10. Listed'
    BY <1>3, <1>5, <1>6, <1>7, <1>9, ListWritten
  <1> QED BY <1>8, <1>10

LEMMA EditListed ==
  ASSUME TypeOK, Listed, Edit
  PROVE  Listed' /\ NodesStayGone
  <1>1. PICK w \in Workflow :
        \/ \E a \in BOOLEAN, ks \in NodeLists : CreateWorkflow(w, a, ks)
        \/ \E a \in BOOLEAN : UpdateWorkflow(w, a)
        \/ ArchiveWorkflow(w)
        \/ RestoreWorkflow(w)
        \/ \E ks \in NodeLists : ReplaceNodes(w, ks)
        \/ \E i \in 0..MaxNodes, k \in NodeKind : CreateNode(w, i, k)
        \/ \E i, j \in 1..MaxNodes, k \in NodeKind : UpdateNode(w, i, j, k)
        \/ \E i \in 1..MaxNodes : DeleteNode(w, i)
    BY DEF Edit
  <1> DEFINE s == nodes[w]
  <1>0. /\ s \in Seq(Node) /\ Len(s) \in Nat /\ \A i \in 1..Len(s) : s[i] \in Node
        /\ kind \in [Node -> NodeKind \cup {"none", "gone"}]
        /\ \A i \in 1..Len(s) : kind[s[i]] \in NodeKind
        /\ \A i, j \in 1..Len(s) : s[i] = s[j] => i = j
        /\ \A v \in Workflow \ {w} : \A i \in 1..Len(nodes[v]) :
              /\ nodes[v][i] \in Node /\ kind[nodes[v][i]] \in NodeKind
              /\ \A k \in 1..Len(s) : s[k] # nodes[v][i]
    <2>1. s \in Seq(Node) /\ \A v \in Workflow : \A i \in 1..Len(nodes[v]) : nodes[v][i] \in Node
      BY DEF TypeOK
    <2>2. kind \in [Node -> NodeKind \cup {"none", "gone"}]
      BY DEF TypeOK
    <2>3. Len(s) \in Nat
      BY <2>1
    <2> QED BY <2>1, <2>2, <2>3 DEF Listed
  <1>2. CASE UNCHANGED <<nodes, kind>>
    BY <1>2 DEF Listed, NodesStayGone
  <1>3. CASE \E ks \in NodeLists : SaveNodes(w, ks)
    BY <1>3, SaveListed
  <1>4. CASE \E i \in 0..MaxNodes, k \in NodeKind : CreateNode(w, i, k)
    <2>1. PICK i \in 0..Len(s), k \in NodeKind, n \in Node :
            /\ IssuedNodes(n - 1) /\ kind' = [kind EXCEPT ![n] = k]
            /\ nodes' = [nodes EXCEPT ![w] = Inserted(s, i, n)]
      BY <1>4 DEF CreateNode, Inserted
    <2> DEFINE t == Inserted(s, i, n)
    <2>2. /\ t \in Seq(Node) /\ Len(t) = Len(s) + 1
          /\ \A l \in 1..Len(t) : t[l] = IF l <= i THEN s[l] ELSE IF l = i + 1 THEN n ELSE s[l - 1]
      <3> HIDE DEF s
      <3> QED BY <1>0, InsertAt
    <2>3. kind[n] = "none" /\ kind'[n] = k
      BY <1>0, <2>1 DEF IssuedNodes, Node
    <2>4. \A m \in Node : kind[m] # "none" => kind'[m] = kind[m]
      BY <1>0, <2>1, <2>3
    <2>5. (\A l \in 1..Len(s) : s[l] # n) /\ \A v \in Workflow : \A l \in 1..Len(nodes[v]) : nodes[v][l] # n
      BY <2>3 DEF Listed, NodeKind
    <2> HIDE DEF s, t
    <2>6. \A l \in 1..Len(t) : t[l] = n \/ \E m \in 1..Len(s) : t[l] = s[m]
      BY <1>0, <2>2
    <2>7. \A l \in 1..Len(t) : kind'[t[l]] \in NodeKind
      BY <1>0, <2>3, <2>4, <2>6 DEF NodeKind
    <2>8. \A l, m \in 1..Len(t) : t[l] = t[m] => l = m
      <3> TAKE l, m \in 1..Len(t)
      <3>1. l \in Nat /\ m \in Nat /\ i \in Nat /\ l <= Len(s) + 1 /\ m <= Len(s) + 1 /\ l >= 1 /\ m >= 1
        BY <1>0, <2>2
      <3>2. l = i + 1 \/ l \in 1..Len(s) \/ l - 1 \in 1..Len(s)
        BY <1>0, <3>1
      <3>3. CASE l <= i /\ m <= i
        BY <1>0, <2>2, <3>1, <3>3
      <3>4. CASE l > i + 1 /\ m > i + 1
        <4>1. l - 1 \in 1..Len(s) /\ m - 1 \in 1..Len(s)
          BY <1>0, <3>1, <3>4
        <4>2. t[l] = s[l - 1] /\ t[m] = s[m - 1]
          BY <2>2, <3>1, <3>4
        <4>3. s[l - 1] = s[m - 1] => l - 1 = m - 1
          BY <1>0, <4>1
        <4> QED BY <3>1, <4>2, <4>3
      <3>5. CASE l <= i /\ m > i + 1
        <4>1. l \in 1..Len(s) /\ m - 1 \in 1..Len(s) /\ l # m - 1
          BY <1>0, <3>1, <3>5
        <4>2. t[l] = s[l] /\ t[m] = s[m - 1]
          BY <2>2, <3>1, <3>5
        <4> QED BY <1>0, <4>1, <4>2
      <3>6. CASE m <= i /\ l > i + 1
        <4>1. m \in 1..Len(s) /\ l - 1 \in 1..Len(s) /\ m # l - 1
          BY <1>0, <3>1, <3>6
        <4>2. t[m] = s[m] /\ t[l] = s[l - 1]
          BY <2>2, <3>1, <3>6
        <4> QED BY <1>0, <4>1, <4>2
      <3>7. CASE l = i + 1 \/ m = i + 1
        <4>1. ASSUME NEW o \in 1..Len(t), t[o] = n PROVE o = i + 1
          <5>1. o \in Int /\ i \in Int /\ o # i + 1 => o <= i \/ o > i + 1
            OBVIOUS
          <5>2. CASE o <= i
            <6>1. o \in 1..Len(s) /\ t[o] = s[o]
              BY <1>0, <2>2, <5>2
            <6> QED BY <2>5, <4>1, <6>1
          <5>3. CASE o > i + 1
            <6>1. o - 1 \in 1..Len(s) /\ t[o] = s[o - 1]
              BY <1>0, <2>2, <5>3
            <6> QED BY <2>5, <4>1, <6>1
          <5> QED BY <5>1, <5>2, <5>3
        <4>2. t[i + 1] = n
          BY <1>0, <2>2
        <4> QED BY <3>7, <4>1, <4>2
      <3> QED BY <3>1, <3>3, <3>4, <3>5, <3>6, <3>7
    <2>9. \A v \in Workflow \ {w} : \A l \in 1..Len(nodes[v]) :
             kind'[nodes[v][l]] \in NodeKind /\ \A m \in 1..Len(t) : t[m] # nodes[v][l]
      <3> SUFFICES ASSUME NEW v \in Workflow \ {w}, NEW l \in 1..Len(nodes[v])
                   PROVE  kind'[nodes[v][l]] \in NodeKind /\ \A m \in 1..Len(t) : t[m] # nodes[v][l]
        OBVIOUS
      <3>1. /\ nodes[v][l] \in Node /\ kind[nodes[v][l]] \in NodeKind
            /\ \A m \in 1..Len(s) : s[m] # nodes[v][l]
        BY <1>0
      <3>2. kind'[nodes[v][l]] = kind[nodes[v][l]]
        BY <2>4, <3>1 DEF NodeKind
      <3>3. nodes[v][l] # n
        BY <2>5
      <3> QED BY <2>6, <3>1, <3>2, <3>3
    <2>10. nodes' = [nodes EXCEPT ![w] = t]
      BY <2>1 DEF t
    <2>11. Listed'
      BY <2>2, <2>7, <2>8, <2>9, <2>10, ListWritten
    <2> QED BY <2>4, <2>11 DEF NodesStayGone
  <1>5. CASE \E i, j \in 1..MaxNodes, k \in NodeKind : UpdateNode(w, i, j, k)
    <2>1. PICK i \in 1..Len(s), j \in 1..Len(s), k \in NodeKind :
            /\ kind' = [kind EXCEPT ![s[i]] = k]
            /\ nodes' = [nodes EXCEPT ![w][i] = s[j], ![w][j] = s[i]]
      BY <1>5 DEF UpdateNode
    <2> DEFINE t == [s EXCEPT ![i] = s[j], ![j] = s[i]]
    <2>2. nodes' = [nodes EXCEPT ![w] = t]
      BY <2>1 DEF TypeOK
    <2> HIDE DEF s
    <2>3. /\ t \in Seq(Node) /\ Len(t) = Len(s)
          /\ \A l \in 1..Len(s) : t[l] = s[IF l = i THEN j ELSE IF l = j THEN i ELSE l]
      BY <1>0
    <2> HIDE DEF t
    <2> DEFINE at(l) == IF l = i THEN j ELSE IF l = j THEN i ELSE l
    <2>4. \A l \in 1..Len(t) : at(l) \in 1..Len(s) /\ t[l] = s[at(l)]
      BY <2>3
    <2>a. \A l, m \in 1..Len(t) : at(l) = at(m) => l = m
      OBVIOUS
    <2> HIDE DEF at
    <2>b. \A m \in Node : kind[m] \in NodeKind => kind'[m] \in NodeKind
      BY <1>0, <2>1
    <2>c. \A l \in 1..Len(t) : kind'[t[l]] \in NodeKind
      BY <1>0, <2>4, <2>b
    <2>5. \A l, m \in 1..Len(t) : t[l] = t[m] => l = m
      BY <1>0, <2>4, <2>a
    <2>6. \A v \in Workflow \ {w} : \A l \in 1..Len(nodes[v]) :
             kind'[nodes[v][l]] \in NodeKind /\ \A m \in 1..Len(t) : t[m] # nodes[v][l]
      <3> SUFFICES ASSUME NEW v \in Workflow \ {w}, NEW l \in 1..Len(nodes[v])
                   PROVE  kind'[nodes[v][l]] \in NodeKind /\ \A m \in 1..Len(t) : t[m] # nodes[v][l]
        OBVIOUS
      <3>1. /\ nodes[v][l] \in Node /\ kind[nodes[v][l]] \in NodeKind
            /\ \A m \in 1..Len(s) : s[m] # nodes[v][l]
        BY <1>0
      <3> QED BY <2>4, <2>b, <3>1
    <2>7. Listed'
      BY <2>2, <2>3, <2>c, <2>5, <2>6, ListWritten
    <2>8. NodesStayGone
      BY <1>0, <2>1 DEF NodesStayGone, NodeKind
    <2> QED BY <2>7, <2>8
  <1>6. CASE \E i \in 1..MaxNodes : DeleteNode(w, i)
    <2>1. PICK i \in 1..Len(s) :
            /\ kind' = [kind EXCEPT ![s[i]] = "gone"]
            /\ nodes' = [nodes EXCEPT ![w] = Removed(s, i)]
      BY <1>6 DEF DeleteNode, Removed
    <2> DEFINE t == Removed(s, i)
    <2>2. /\ t \in Seq(Node) /\ Len(t) = Len(s) - 1
          /\ \A l \in 1..Len(t) : t[l] = IF l < i THEN s[l] ELSE s[l + 1]
      <3> HIDE DEF s
      <3> QED BY <1>0, RemoveAt
    <2>3. nodes' = [nodes EXCEPT ![w] = t]
      BY <2>1
    <2> HIDE DEF s, t
    <2> DEFINE at(l) == IF l < i THEN l ELSE l + 1
    <2>4. \A l \in 1..Len(t) : at(l) \in 1..Len(s) /\ at(l) # i /\ t[l] = s[at(l)]
      BY <1>0, <2>2
    <2>5. \A l, m \in 1..Len(t) : at(l) = at(m) => l = m
      BY <1>0, <2>2
    <2> HIDE DEF at
    <2>6. \A l \in 1..Len(t) : kind'[t[l]] \in NodeKind
      BY <1>0, <2>1, <2>4
    <2>7. \A l, m \in 1..Len(t) : t[l] = t[m] => l = m
      BY <1>0, <2>4, <2>5
    <2>8. \A v \in Workflow \ {w} : \A l \in 1..Len(nodes[v]) :
             kind'[nodes[v][l]] \in NodeKind /\ \A m \in 1..Len(t) : t[m] # nodes[v][l]
      <3>1. \A m \in Node : kind[m] \in NodeKind /\ m # s[i] => kind'[m] \in NodeKind
        BY <1>0, <2>1
      <3> SUFFICES ASSUME NEW v \in Workflow \ {w}, NEW l \in 1..Len(nodes[v])
                   PROVE  kind'[nodes[v][l]] \in NodeKind /\ \A m \in 1..Len(t) : t[m] # nodes[v][l]
        OBVIOUS
      <3>2. /\ nodes[v][l] \in Node /\ kind[nodes[v][l]] \in NodeKind
            /\ \A m \in 1..Len(s) : s[m] # nodes[v][l]
        BY <1>0
      <3>3. nodes[v][l] # s[i]
        BY <3>2
      <3> QED BY <2>4, <3>1, <3>2, <3>3
    <2>9. Listed'
      BY <2>2, <2>3, <2>6, <2>7, <2>8, ListWritten
    <2>10. NodesStayGone
      BY <1>0, <2>1 DEF NodesStayGone
    <2> QED BY <2>9, <2>10
  <1> QED
    BY <1>1, <1>2, <1>3, <1>4, <1>5, <1>6
    DEF CreateWorkflow, UpdateWorkflow, ArchiveWorkflow, RestoreWorkflow, ReplaceNodes

LEMMA NextListed ==
  ASSUME Base, Listed, [Next]_vars
  PROVE  Listed' /\ NodesStayGone
  <1>a. ASSUME UNCHANGED <<nodes, kind>> PROVE Listed' /\ NodesStayGone
    BY <1>a DEF Listed, NodesStayGone
  <1>1. CASE Edit
    BY <1>1, EditListed DEF Base
  <1>2. ASSUME NEW h \in Handler, Receive(h) PROVE Listed' /\ NodesStayGone
    BY <1>2, <1>a
    DEF Receive, RequestRun, TriggerEvent, Request, RetryRead, CancelRead, DeleteRead, Ready,
        ArchiveInstead, ArchiveWorkflow, rows
  <1>3. ASSUME NEW h \in Handler, Handle(h) PROVE Listed' /\ NodesStayGone
    <2>1. CASE UNCHANGED <<nodes, kind>>
      BY <1>a, <2>1
    <2>2. CASE ~UNCHANGED <<nodes, kind>>
      <3> DEFINE w == ask[h].wf
      <3>1. /\ pc[h] = "delete"
            /\ nodes' = [nodes EXCEPT ![w] = <<>>]
            /\ kind' = [n \in Node |->
                          IF \E i \in 1..Len(nodes[w]) : nodes[w][i] = n THEN "gone" ELSE kind[n]]
        BY <1>3, <2>2
        DEF Handle, RunWorkflow, CreateRun, EnqueueRun, Answer, RetryWrite, CancelWrite, DeleteWrite,
            rows
      <3>2. w \in Workflow
        BY <3>1 DEF Base, References, Proc
      <3>3. \A v \in Workflow \ {w} : \A i \in 1..Len(nodes[v]) :
               kind'[nodes[v][i]] \in NodeKind /\ \A k \in 1..Len(<<>>) : <<>>[k] # nodes[v][i]
        <4> SUFFICES ASSUME NEW v \in Workflow \ {w}, NEW i \in 1..Len(nodes[v])
                     PROVE  kind'[nodes[v][i]] \in NodeKind
          OBVIOUS
        <4>1. nodes[v][i] \in Node /\ kind[nodes[v][i]] \in NodeKind
          BY DEF Base, TypeOK, Listed
        <4>2. ~\E k \in 1..Len(nodes[w]) : nodes[w][k] = nodes[v][i]
          BY <3>2 DEF Listed
        <4> QED BY <3>1, <4>1, <4>2
      <3>4. NodesStayGone
        BY <3>1 DEF NodesStayGone
      <3> HIDE DEF w
      <3> DEFINE none == <<>>
      <3>5. /\ none \in Seq(Node) /\ nodes' = [nodes EXCEPT ![w] = none]
            /\ \A k \in 1..Len(none) : kind'[none[k]] \in NodeKind
            /\ \A k, l \in 1..Len(none) : none[k] = none[l] => k = l
            /\ \A v \in Workflow \ {w} : \A i \in 1..Len(nodes[v]) :
                  kind'[nodes[v][i]] \in NodeKind /\ \A k \in 1..Len(none) : none[k] # nodes[v][i]
        BY <3>1, <3>3
      <3> HIDE DEF none
      <3>6. TypeOK /\ Listed
        BY DEF Base
      <3>7. Listed'
        BY <3>2, <3>5, <3>6, ListWritten
      <3> QED BY <3>4, <3>7
    <2> QED BY <2>1, <2>2
  <1>4. ASSUME NEW p \in Proc, Execute(p) \/ DbError(p) PROVE Listed' /\ NodesStayGone
    BY <1>4, <1>a
    DEF Execute, ExecStart, ExecLoad, ExecNode, ExecComplete, ExecFail, ExecEnd, DbError, rows
  <1>5. CASE \/ \E s \in Slot, j \in Job : TakeJob(s, j)
             \/ \E P \in SUBSET Proc : Crash(P)
             \/ \E j \in Job : StalledJob(j)
             \/ \E s \in Slot : LostLock(s)
             \/ UNCHANGED vars
    BY <1>5, <1>a DEF TakeJob, Take, Crash, StalledJob, LostLock, vars, rows
  <1> QED BY <1>1, <1>2, <1>3, <1>4, <1>5 DEF Next

LEMMA InitListed == Init => Listed
  BY DEF Init, Listed

-----------------------------------------------------------------------------
(***************************************************************************)
(* How a process comes to the catch block: it is there already, a call of  *)
(* its own failed, its run is gone, or the node at hand is a STOP node or  *)
(* one whose row is gone.                                                  *)
(***************************************************************************)
ComesToFail(p) ==
    \/ pc[p] = "failing" /\ UNCHANGED <<cur[p], todo[p]>>
    \/ faults' # 0
    \/ /\ ~Exists(cur[p]) \/ kind[Head(todo[p]).id] = "gone" \/ Head(todo[p]).kind = "STOP"
       /\ Exists(cur[p]) => todo[p] # <<>>
       /\ UNCHANGED <<run, kind, cur[p], todo[p]>>

LEMMA StepFails ==
  ASSUME Base, [Next]_vars, NEW p \in Proc, pc'[p] = "failing"
  PROVE  ComesToFail(p)
  <1>0. pc \in [Proc -> Pc] /\ cur \in [Proc -> Run \cup {Nil}] /\ todo \in [Proc -> Seq(Pending)]
    BY DEF Base, TypeOK
  <1>a. ASSUME UNCHANGED <<pc, cur, todo>> PROVE ComesToFail(p)
    BY <1>a DEF ComesToFail
  <1>b. ASSUME NEW q \in Proc, NEW there \in Pc \ {"failing"}, Step(q, there),
               \A o \in Proc \ {q} : cur'[o] = cur[o] /\ todo'[o] = todo[o]
        PROVE  ComesToFail(p)
    BY <1>0, <1>b DEF Step, ComesToFail
  <1>c. ASSUME NEW q \in Proc, NEW r, Throw(q, r) PROVE ComesToFail(p)
    BY <1>0, <1>b, <1>c DEF Throw, Forget, Pc
  <1>d. ASSUME NEW h \in Handler, Return(h) PROVE ComesToFail(p)
    BY <1>0, <1>b, <1>d DEF Return, Forget, Pc, Proc
  <1>1. CASE Edit
    BY <1>1, <1>a, EditsOnlyRows
    DEF OnlyRows
  <1>2. ASSUME NEW h \in Handler, Receive(h) PROVE ComesToFail(p)
    <2>1. CASE UNCHANGED <<pc, cur, todo>>
      BY <1>a, <2>1
    <2>2. CASE ~UNCHANGED <<pc, cur, todo>>
      <3>1. \E there \in {"run", "retry", "cancel", "delete"} : Step(h, there)
        BY <1>2, <2>2
        DEF Receive, RequestRun, TriggerEvent, Request, RetryRead, CancelRead, DeleteRead, Ready,
            ArchiveInstead, ArchiveWorkflow, OnlyRows
      <3>2. UNCHANGED todo /\ \A o \in Proc \ {h} : cur'[o] = cur[o]
        BY <1>0, <1>2
        DEF Receive, RequestRun, TriggerEvent, Request, RetryRead, CancelRead, DeleteRead, Ready,
            ArchiveInstead, ArchiveWorkflow, OnlyRows
      <3> QED BY <1>b, <3>1, <3>2 DEF Pc, Proc
    <2> QED BY <2>1, <2>2
  <1>3. ASSUME NEW h \in Handler, Handle(h) PROVE ComesToFail(p)
    <2>1. CASE (\E r \in Run \cup {Nil} : Throw(h, r)) \/ Return(h)
      BY <1>c, <1>d, <2>1 DEF Proc
    <2>2. CASE ~((\E r \in Run \cup {Nil} : Throw(h, r)) \/ Return(h))
      <3>1. /\ \E there \in {"create", "enqueue", "start", "answer"} : Step(h, there)
            /\ UNCHANGED todo /\ \A o \in Proc \ {h} : cur'[o] = cur[o]
        <4>1. cur[h] \in Run \cup {Nil}
          BY <1>0 DEF Proc
        <4> QED
          BY <1>0, <1>3, <2>2, <4>1
          DEF Handle, RunWorkflow, CreateRun, EnqueueRun, Answer, RetryWrite, CancelWrite, DeleteWrite
      <3> QED BY <1>b, <3>1 DEF Pc, Working, Executing, Proc
    <2> QED BY <2>1, <2>2
  <1>4. ASSUME NEW q \in Proc, Execute(q) PROVE ComesToFail(p)
    <2>1. CASE Throw(q, cur[q])
      BY <1>c, <2>1
    <2>2. CASE ~Throw(q, cur[q]) /\ \E there \in Pc \ {"failing"} : Step(q, there)
      <3>1. \A o \in Proc \ {q} : cur'[o] = cur[o] /\ todo'[o] = todo[o]
        BY <1>0, <1>4, <2>2
        DEF Execute, ExecStart, ExecLoad, ExecNode, ExecComplete, ExecFail, ExecEnd, Forget
      <3> QED BY <1>b, <2>2, <3>1
    <2>3. CASE UNCHANGED pc
      <3>1. UNCHANGED cur /\ \A o \in Proc : pc[o] # "nodes" => todo'[o] = todo[o]
        BY <1>0, <1>4, <2>3
        DEF Execute, ExecStart, ExecLoad, ExecNode, ExecComplete, ExecFail, ExecEnd, Step, Forget,
            Throw
      <3> QED BY <2>3, <3>1 DEF ComesToFail
    <2>4. CASE Step(q, "failing") /\ ~Throw(q, cur[q])
      <3>1. /\ UNCHANGED <<run, kind, cur, todo>>
            /\ ~Exists(cur[q]) \/ kind[Head(todo[q]).id] = "gone" \/ Head(todo[q]).kind = "STOP"
            /\ Exists(cur[q]) => todo[q] # <<>>
        BY <1>0, <1>4, <2>4
        DEF Execute, ExecStart, ExecLoad, ExecNode, ExecComplete, ExecFail, ExecEnd, Step, rows,
            NodeLogged
      <3> QED BY <1>0, <2>4, <3>1 DEF Step, ComesToFail
    <2> QED
      BY <1>4, <2>1, <2>2, <2>3, <2>4
      DEF Execute, ExecStart, ExecLoad, ExecNode, ExecComplete, ExecFail, ExecEnd, Pc, Working,
          Executing
  <1>5. CASE (\E q \in Proc : DbError(q)) \/ (\E P \in SUBSET Proc : Crash(P)) \/ (\E s \in Slot : LostLock(s))
    <2>1. faults' = faults + 1 /\ faults \in Nat
      BY <1>5, BoundsAssumption DEF DbError, Crash, LostLock, Fault, Base, TypeOK
    <2> QED BY <2>1 DEF ComesToFail
  <1>6. ASSUME NEW s \in Slot, NEW j \in Job, TakeJob(s, j) PROVE ComesToFail(p)
    BY <1>0, <1>6, <1>b DEF TakeJob, Take, Pc, Working, Executing, Proc
  <1>7. CASE (\E j \in Job : StalledJob(j)) \/ UNCHANGED vars
    BY <1>7, <1>a DEF StalledJob, vars
  <1> QED BY <1>1, <1>2, <1>3, <1>4, <1>5, <1>6, <1>7 DEF Next

LEMMA StepFaults == ASSUME Base, [Next]_vars PROVE UNCHANGED faults \/ faults' = faults + 1
  <1>1. CASE Edit
    BY <1>1, EditsOnlyRows
    DEF OnlyRows
  <1>2. ASSUME NEW h \in Handler, Receive(h) \/ Handle(h) PROVE UNCHANGED faults \/ faults' = faults + 1
    BY <1>2
    DEF Receive, RequestRun, TriggerEvent, Request, RetryRead, CancelRead, DeleteRead, Ready,
        ArchiveInstead, ArchiveWorkflow, OnlyRows, Handle, RunWorkflow, CreateRun, EnqueueRun, Answer,
        RetryWrite, CancelWrite, DeleteWrite, Fault
  <1>3. ASSUME NEW p \in Proc, Execute(p) \/ DbError(p) PROVE UNCHANGED faults \/ faults' = faults + 1
    BY <1>3
    DEF Execute, ExecStart, ExecLoad, ExecNode, ExecComplete, ExecFail, ExecEnd, DbError, Fault
  <1>4. CASE \/ \E s \in Slot, j \in Job : TakeJob(s, j)
             \/ \E P \in SUBSET Proc : Crash(P)
             \/ \E j \in Job : StalledJob(j)
             \/ \E s \in Slot : LostLock(s)
             \/ UNCHANGED vars
    BY <1>4 DEF TakeJob, Take, Crash, StalledJob, LostLock, vars, Fault
  <1> QED BY <1>1, <1>2, <1>3, <1>4 DEF Next

LEMMA NextFails ==
  Base /\ Listed /\ Known /\ OnlyStopNodesFail /\ [Next]_vars => OnlyStopNodesFail'
  <1> SUFFICES ASSUME Base, Listed, Known, OnlyStopNodesFail, [Next]_vars,
                      NEW p \in Proc, pc'[p] = "failing", faults' = 0, Exists(cur[p])'
               PROVE  /\ todo'[p] # <<>>
                      /\ Head(todo'[p]).kind = "STOP" \/ kind'[Head(todo'[p]).id] = "gone"
    BY DEF OnlyStopNodesFail
  <1>1. ComesToFail(p) /\ NodesStayGone /\ Base'
    BY StepFails, NextListed, NextBase
  <1>2. CASE pc[p] = "failing" /\ UNCHANGED <<cur[p], todo[p]>>
    <2>1. cur[p] \in Run /\ cur[p] # Nil /\ run[cur[p]].st # "none"
      BY <1>2, NilAssumption DEF Base, References, Working, Executing, Known
    <2>2. Exists(cur[p])
      BY <1>2, <2>1, StepWritesRow, RowsPersist DEF Exists
    <2>3. faults = 0
      BY StepFaults, BoundsAssumption DEF Base, TypeOK
    <2>4. todo[p] # <<>> /\ (Head(todo[p]).kind = "STOP" \/ kind[Head(todo[p]).id] = "gone")
      BY <1>2, <2>2, <2>3 DEF OnlyStopNodesFail
    <2>5. todo[p] \in Seq(Pending)
      BY DEF Base, TypeOK
    <2>6. Head(todo[p]) \in Pending
      BY <2>4, <2>5, HeadTailProperties
    <2>7. Head(todo[p]).id \in Node
      BY <2>6 DEF Pending
    <2> QED BY <1>1, <1>2, <2>4, <2>7 DEF NodesStayGone
  <1>3. CASE UNCHANGED <<run, kind, cur[p], todo[p]>>
    BY <1>1, <1>2, <1>3 DEF ComesToFail, Exists
  <1> QED BY <1>1, <1>2, <1>3 DEF ComesToFail

(***************************************************************************)
(* In every behaviour without faults, with any number of requests, slots   *)
(* and edits, the catch block is reached only for a STOP node, a node whose*)
(* row an edit has removed, or a deleted run.                              *)
(***************************************************************************)
THEOREM OnlyStopNodesEverFail == Spec => []OnlyStopNodesFail
  <1>1. Init => OnlyStopNodesFail
    BY DEF Init, OnlyStopNodesFail
  <1> QED
    BY <1>1, InitBase, NextBase, InitListed, NextListed, InitKnown, NextKnown, NextFails, PTL DEF Spec
=============================================================================
