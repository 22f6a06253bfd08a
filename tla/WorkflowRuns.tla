---------------------------- MODULE WorkflowRuns ----------------------------
(***************************************************************************)
(* The life of a workflow run: the request handlers of WorkflowsService    *)
(* that create, retry and cancel runs and edit or delete their workflow,   *)
(* the BullMQ queue "workflow-runs", and the worker slots that execute the *)
(* runs.  Every handler and every slot is a sequence of awaits on one      *)
(* shared Postgres database, so each await is an action of its own; no     *)
(* write is guarded by the value an earlier await has read.                *)
(*                                                                         *)
(* Postgres gives three guarantees that the model keeps: one statement is  *)
(* atomic, (workflowId, idempotencyKey) is unique, and a run or a run log  *)
(* cannot be inserted for a row that is gone (foreign keys, with cascading *)
(* deletes).                                                               *)
(***************************************************************************)
EXTENDS Integers, Sequences, FiniteSets

CONSTANTS
    Workflow,    \* workflow rows
    Key,         \* idempotency keys that clients send
    NoKey,       \* a request without an idempotency key
    Nil,         \* no run, no workflow, no job
    Handler,     \* concurrent HTTP requests
    Slot,        \* concurrent job processors of the workers
    MaxRuns,     \* bound: run rows created
    MaxJobs,     \* bound: queue jobs added
    MaxNodes,    \* bound: workflow nodes created
    NodeLists,   \* the node lists an editor saves
    Attempts,    \* queue.attempts: how often BullMQ tries a job that throws
    MaxStalled,  \* how often BullMQ re-queues a job whose lock expired
    MaxGrants,   \* bound: executions granted to one run before retries stop
    MaxFaults    \* bound: crashes, database errors and lost replies

Run == 1..MaxRuns
Job == 1..MaxJobs
Node == 1..MaxNodes
Proc == Handler \cup Slot

\* WorkflowNode.enabled and .onFailure: an enabled node that stops the run
\* when it fails, an enabled node that lets it go on, and a disabled node.
NodeKind == {"STOP", "CONTINUE", "OFF"}

Keys == Key \cup {NoKey}

ASSUME ProcAssumption ==
    /\ Handler \cap Slot = {}
    /\ IsFiniteSet(Handler) /\ IsFiniteSet(Slot)
ASSUME BoundsAssumption ==
    /\ MaxRuns \in Nat /\ MaxJobs \in Nat /\ MaxNodes \in Nat
    /\ Attempts \in Nat \ {0} /\ MaxStalled \in Nat
    /\ MaxGrants \in Nat /\ MaxFaults \in Nat
ASSUME NodeListsAssumption == NodeLists \subseteq Seq(NodeKind)
ASSUME NilAssumption ==
    /\ NoKey \notin Key
    /\ Nil \notin Workflow /\ Nil \notin Run /\ Nil \notin Job

VARIABLES
    wf,      \* workflow rows: do they exist, isActive, archivedAt
    nodes,   \* the node rows of each workflow, by sortOrder
    kind,    \* what each node row holds; "none" before, "gone" after its life
    run,     \* run rows: status, workflow and idempotency key
    job,     \* queue jobs: state, run, attempts made, times stalled
    pc,      \* where each handler and slot is
    cur,     \* the run it works on
    ask,     \* a request's workflow, key and the workflows still to trigger
    todo,    \* executeRun's node snapshot, what is left of it
    held,    \* the job whose lock a slot holds
    lost,    \* history: runs whose last executor died or gave up
    grants,  \* history: executions granted to each run
    faults   \* faults so far

rows == <<wf, nodes, kind>>
queue == <<job, held>>
ghosts == <<lost, grants>>
vars == <<wf, nodes, kind, run, job, pc, cur, ask, todo, held, lost, grants,
          faults>>

-----------------------------------------------------------------------------

RunStatus == {"PENDING", "RUNNING", "COMPLETED", "FAILED", "CANCELLED"}
Open == {"PENDING", "RUNNING"}

WfState == [st : {"none", "live", "gone"}, active : BOOLEAN, archived : BOOLEAN]
RunState == [st : RunStatus \cup {"none", "gone"},
             wf : Workflow \cup {Nil}, key : Keys]
JobState == [st : {"none", "waiting", "active", "done", "dead"},
             run : Run \cup {Nil}, tries : 0..Attempts, stalls : 0..MaxStalled]
Ask == [wf : Workflow \cup {Nil}, key : Keys, rest : SUBSET Workflow]
Pending == [id : Node, kind : NodeKind \cup {"none", "gone"}]

\* executeRun from its first statement to its return.
Executing == {"start", "load", "nodes", "completed", "failing", "failed"}
Working == Executing \cup {"enqueue"}
Pc == Working \cup {"idle", "run", "create", "answer", "retry", "cancel", "delete"}

NoAsk == [wf |-> Nil, key |-> NoKey, rest |-> {}]

Exists(r) == run[r].st \in RunStatus
NextRun(r) == run[r].st = "none" /\ \A q \in Run : q < r => run[q].st # "none"
NextJob(j) == job[j].st = "none" /\ \A i \in Job : i < j => job[i].st # "none"

Init ==
    /\ wf = [w \in Workflow |-> [st |-> "none", active |-> FALSE, archived |-> FALSE]]
    /\ nodes = [w \in Workflow |-> <<>>]
    /\ kind = [n \in Node |-> "none"]
    /\ run = [r \in Run |-> [st |-> "none", wf |-> Nil, key |-> NoKey]]
    /\ job = [j \in Job |-> [st |-> "none", run |-> Nil, tries |-> 0, stalls |-> 0]]
    /\ pc = [p \in Proc |-> "idle"]
    /\ cur = [p \in Proc |-> Nil]
    /\ ask = [p \in Proc |-> NoAsk]
    /\ todo = [p \in Proc |-> <<>>]
    /\ held = [p \in Proc |-> Nil]
    /\ lost = {}
    /\ grants = [r \in Run |-> 0]
    /\ faults = 0

-----------------------------------------------------------------------------
(***************************************************************************)
(* Editing workflows.  Each of these handlers reads the workflow only to   *)
(* answer 404, and then makes one write.                                   *)
(***************************************************************************)
OnlyRows == UNCHANGED <<run, queue, pc, cur, ask, todo, ghosts, faults>>

\* Node ids are handed out in order: base of them have been so far.
IssuedNodes(base) == \A n \in Node : kind[n] = "none" <=> n > base

\* A nested or bulk create of the nodes ks for w, after a delete of w's nodes.
SaveNodes(w, ks) ==
    \E base \in 0..(MaxNodes - Len(ks)) :
        /\ IssuedNodes(base)
        /\ nodes' = [nodes EXCEPT ![w] = [i \in 1..Len(ks) |-> base + i]]
        /\ kind' = [n \in Node |->
                      IF \E i \in 1..Len(nodes[w]) : nodes[w][i] = n THEN "gone"
                      ELSE IF n - base \in 1..Len(ks) THEN ks[n - base]
                      ELSE kind[n]]

CreateWorkflow(w, active, ks) ==
    /\ wf[w].st = "none"
    /\ wf' = [wf EXCEPT ![w] = [st |-> "live", active |-> active, archived |-> FALSE]]
    /\ SaveNodes(w, ks)
    /\ OnlyRows

\* updateWorkflow writes isActive on an archived workflow too.
UpdateWorkflow(w, active) ==
    /\ wf[w].st = "live"
    /\ wf' = [wf EXCEPT ![w].active = active]
    /\ UNCHANGED <<nodes, kind>>
    /\ OnlyRows

Archived(w) == [wf EXCEPT ![w].archived = TRUE, ![w].active = FALSE]

ArchiveWorkflow(w) ==
    /\ wf[w].st = "live"
    /\ wf' = Archived(w)
    /\ UNCHANGED <<nodes, kind>>
    /\ OnlyRows

\* restoreWorkflow clears archivedAt only: the workflow stays inactive.
RestoreWorkflow(w) ==
    /\ wf[w].st = "live"
    /\ wf' = [wf EXCEPT ![w].archived = FALSE]
    /\ UNCHANGED <<nodes, kind>>
    /\ OnlyRows

\* replaceNodes deletes every node row and inserts new ones in a transaction.
\* Two that overlap may leave the nodes of both, when no key occurs twice:
\* as one of them followed by a createNode for each node of the other.
ReplaceNodes(w, ks) ==
    /\ wf[w].st = "live"
    /\ SaveNodes(w, ks)
    /\ UNCHANGED wf
    /\ OnlyRows

\* createNode puts one node row at the place its sortOrder says.
CreateNode(w, i, k) ==
    /\ wf[w].st = "live"
    /\ i \in 0..Len(nodes[w])
    /\ \E n \in Node :
          /\ IssuedNodes(n - 1)
          /\ kind' = [kind EXCEPT ![n] = k]
          /\ nodes' = [nodes EXCEPT ![w] =
                         SubSeq(@, 1, i) \o <<n>> \o SubSeq(@, i + 1, Len(@))]
    /\ UNCHANGED wf
    /\ OnlyRows

\* updateNode rewrites enabled and onFailure in place, and sortOrder, which
\* may change places with another node.
UpdateNode(w, i, j, k) ==
    /\ wf[w].st = "live"
    /\ {i, j} \subseteq 1..Len(nodes[w])
    /\ kind' = [kind EXCEPT ![nodes[w][i]] = k]
    /\ nodes' = [nodes EXCEPT ![w][i] = nodes[w][j], ![w][j] = nodes[w][i]]
    /\ UNCHANGED wf
    /\ OnlyRows

DeleteNode(w, i) ==
    /\ wf[w].st = "live"
    /\ i \in 1..Len(nodes[w])
    /\ kind' = [kind EXCEPT ![nodes[w][i]] = "gone"]
    /\ nodes' = [nodes EXCEPT ![w] = SubSeq(@, 1, i - 1) \o SubSeq(@, i + 1, Len(@))]
    /\ UNCHANGED wf
    /\ OnlyRows

-----------------------------------------------------------------------------
(***************************************************************************)
(* How a process leaves its handler.  A request that runs one workflow of  *)
(* an event goes on with the rest; an exception ends it.  BullMQ completes *)
(* or retries the job of a slot that still holds its lock.                 *)
(***************************************************************************)
Fault == faults < MaxFaults /\ faults' = faults + 1
NoFault == UNCHANGED faults

Step(p, there) == pc' = [pc EXCEPT ![p] = there]
Forget(p) ==
    /\ cur' = [cur EXCEPT ![p] = Nil]
    /\ todo' = [todo EXCEPT ![p] = <<>>]
    /\ held' = [held EXCEPT ![p] = Nil]

\* The rest of triggerEvent's loop, or the end of the request.
Return(h) ==
    /\ Forget(h)
    /\ IF ask[h].rest = {} THEN Step(h, "idle") /\ ask' = [ask EXCEPT ![h] = NoAsk]
       ELSE \E w \in ask[h].rest :
               /\ Step(h, "run")
               /\ ask' = [ask EXCEPT ![h].wf = w, ![h].rest = @ \ {w}]
    /\ UNCHANGED job

\* An exception leaves the handler: the request fails, or BullMQ tries the
\* job again until its attempts are used up.  A slot whose lock expired no
\* longer has a say in what happens to the job.
\* Mutant: one attempt too many.
LastTryLate(p) == held[p] = Nil \/ job[held[p]].tries >= Attempts
LastTry(p) == held[p] = Nil \/ job[held[p]].tries + 1 >= Attempts
Throw(p, r) ==
    /\ Forget(p)
    /\ Step(p, "idle")
    /\ ask' = [ask EXCEPT ![p] = NoAsk]
    /\ job' = IF held[p] = Nil THEN job
              ELSE [job EXCEPT ![held[p]].st = IF LastTry(p) THEN "dead" ELSE "waiting",
                               ![held[p]].tries = @ + 1]
    /\ lost' = IF r # Nil /\ LastTry(p) THEN lost \cup {r} ELSE lost

-----------------------------------------------------------------------------
(***************************************************************************)
(* Requests about runs.                                                    *)
(***************************************************************************)

\* POST workflows/:id/run, and POST workflow-events, which runs every active
\* workflow that matches with the key "<key>:<workflow>".  A key stands for
\* what reaches the row of one workflow, whether a client sent it in this
\* form or the event handler formed it.
Request(h, ws, k) ==
    /\ pc[h] = "idle"
    /\ \E w \in ws : ask' = [ask EXCEPT ![h] = [wf |-> w, key |-> k, rest |-> ws \ {w}]]
    /\ Step(h, "run")
    /\ UNCHANGED <<rows, run, queue, cur, todo, ghosts, faults>>

RequestRun(h, w, k) == Request(h, {w}, k)
TriggerEvent(h, k) ==
    LET matched == {w \in Workflow : wf[w].st = "live" /\ wf[w].active /\ ~wf[w].archived}
    IN matched # {} /\ Request(h, matched, k)

\* runWorkflow's reads, as one step: the workflow, then the run of the same key
\* if any.  A run or a deletion that comes between them is one that CreateRun's
\* two keys meet.
KeyTaken(w, k) == k # NoKey /\ \E r \in Run : Exists(r) /\ run[r].wf = w /\ run[r].key = k
RunWorkflow(h) ==
    LET w == ask[h].wf IN
    /\ pc[h] = "run"
    /\ \/ /\ wf[w].st = "live" /\ wf[w].active /\ ~wf[w].archived
          /\ IF KeyTaken(w, ask[h].key) THEN Return(h)
             ELSE Step(h, "create") /\ UNCHANGED <<queue, cur, ask, todo>>
          /\ UNCHANGED lost
       \/ /\ wf[w].st # "live" \/ ~wf[w].active \/ wf[w].archived
          /\ Throw(h, Nil)
    /\ UNCHANGED <<rows, run, grants, faults>>

\* Mutant: the schema without @@unique([workflowId, idempotencyKey]).
NeverViolated(w, k) == FALSE
UniqueViolation(w, k) == KeyTaken(w, k)

\* Mutant: the schema without the relation to the workflow.
NeverMissing(w) == FALSE
ForeignKeyViolation(w) == wf[w].st # "live"

\* The insert fails on a key taken meanwhile, or a workflow deleted meanwhile.
CreateRun(h) ==
    LET w == ask[h].wf IN
    /\ pc[h] = "create"
    /\ IF UniqueViolation(w, ask[h].key) \/ ForeignKeyViolation(w)
       THEN Throw(h, Nil) /\ UNCHANGED <<run, grants>>
       ELSE \E r \in Run :
              /\ NextRun(r)
              /\ run' = [run EXCEPT ![r] = [st |-> "PENDING", wf |-> w, key |-> ask[h].key]]
              /\ cur' = [cur EXCEPT ![h] = r]
              /\ grants' = [grants EXCEPT ![r] = 1]
              /\ Step(h, "enqueue")
              /\ UNCHANGED <<queue, ask, todo, lost>>
    /\ UNCHANGED <<rows, faults>>

\* queueOrExecuteRun: the job is queued; or the queue is unavailable and the
\* request executes the run itself; or the job is queued, the reply is lost,
\* and the request executes the run as well.
AddJob(r) ==
    \E j \in Job : /\ NextJob(j)
                   /\ job' = [job EXCEPT ![j].st = "waiting", ![j].run = r]

\* Mutants: no inline execution when the queue is unavailable; and an inline
\* execution also when the job is queued.
EnqueueOnly(h) ==
    /\ pc[h] = "enqueue"
    /\ AddJob(cur[h]) \/ UNCHANGED job
    /\ Step(h, "answer")
    /\ UNCHANGED <<rows, run, cur, ask, todo, held, ghosts, faults>>
EnqueueAndStart(h) ==
    /\ pc[h] = "enqueue"
    /\ AddJob(cur[h]) \/ UNCHANGED job
    /\ Step(h, "start")
    /\ UNCHANGED <<rows, run, cur, ask, todo, held, ghosts, faults>>

EnqueueRun(h) ==
    /\ pc[h] = "enqueue"
    /\ \/ AddJob(cur[h]) /\ Step(h, "answer") /\ UNCHANGED <<grants, faults>>
       \/ Step(h, "start") /\ UNCHANGED <<job, grants, faults>>
       \/ /\ AddJob(cur[h]) /\ Step(h, "start")
          /\ grants' = [grants EXCEPT ![cur[h]] = @ + 1]
          /\ Fault
    /\ UNCHANGED <<rows, run, cur, ask, todo, held, lost>>

\* getRun at the end of runWorkflow and retryRun.
Answer(h) ==
    /\ pc[h] = "answer"
    /\ IF Exists(cur[h]) THEN Return(h) /\ UNCHANGED lost ELSE Throw(h, Nil)
    /\ UNCHANGED <<rows, run, grants, faults>>

\* retryRun and requeueRun: the read, then the reset to PENDING.
Ready(h, there, r, w) ==
    /\ pc[h] = "idle"
    /\ Step(h, there)
    /\ cur' = [cur EXCEPT ![h] = r]
    /\ ask' = [ask EXCEPT ![h].wf = w]
    /\ UNCHANGED <<rows, run, queue, todo, ghosts, faults>>

RetryRead(h, r) ==
    /\ Exists(r) /\ run[r].st # "RUNNING"
    /\ grants[r] + Cardinality({p \in Handler : pc[p] = "retry" /\ cur[p] = r}) < MaxGrants
    /\ Ready(h, "retry", r, Nil)

RetryWrite(h) ==
    LET r == cur[h] IN
    /\ pc[h] = "retry"
    /\ \/ /\ ~Exists(r)
          /\ Throw(h, Nil)
          /\ UNCHANGED <<run, grants, faults>>
       \/ /\ Exists(r)
          /\ run' = [run EXCEPT ![r].st = "PENDING"]
          /\ grants' = [grants EXCEPT ![r] = @ + 1]
          /\ \/ /\ Step(h, "enqueue")
                /\ lost' = lost \ {r}
                /\ UNCHANGED <<queue, cur, ask, todo, faults>>
             \/ Throw(h, r) /\ Fault    \* the log line fails
    /\ UNCHANGED rows

\* Mutant: cancelRun does not look at the status.
CancelAny(h, r) == Exists(r) /\ Ready(h, "cancel", r, Nil)

CancelRead(h, r) ==
    /\ run[r].st \in Open
    /\ Ready(h, "cancel", r, Nil)

\* The update is by id: it does not look at the status again.
CancelWrite(h) ==
    /\ pc[h] = "cancel"
    /\ IF Exists(cur[h])
       THEN run' = [run EXCEPT ![cur[h]].st = "CANCELLED"] /\ Return(h) /\ UNCHANGED lost
       ELSE Throw(h, Nil) /\ UNCHANGED run
    /\ UNCHANGED <<rows, grants, faults>>

\* deleteWorkflow counts the runs: it archives a workflow that has some, and
\* deletes one that has none, with all that then refers to it.
DeleteRead(h, w) ==
    /\ wf[w].st = "live"
    /\ ~\E r \in Run : Exists(r) /\ run[r].wf = w
    /\ Ready(h, "delete", Nil, w)

ArchiveInstead(h, w) ==
    /\ pc[h] = "idle"
    /\ \E r \in Run : Exists(r) /\ run[r].wf = w
    /\ ArchiveWorkflow(w)

DeleteWrite(h) ==
    LET w == ask[h].wf IN
    /\ pc[h] = "delete"
    /\ IF wf[w].st # "live" THEN Throw(h, Nil) /\ UNCHANGED <<rows, run>>
       ELSE /\ wf' = [wf EXCEPT ![w].st = "gone"]
            /\ nodes' = [nodes EXCEPT ![w] = <<>>]
            /\ kind' = [n \in Node |->
                          IF \E i \in 1..Len(nodes[w]) : nodes[w][i] = n THEN "gone"
                          ELSE kind[n]]
            /\ run' = [r \in Run |-> IF run[r].wf = w THEN [run[r] EXCEPT !.st = "gone"]
                                     ELSE run[r]]
            /\ Return(h)
            /\ UNCHANGED lost
    /\ UNCHANGED <<grants, faults>>

-----------------------------------------------------------------------------
(***************************************************************************)
(* executeRun, in a worker slot or inline in a request.                    *)
(***************************************************************************)

Take(s, j) ==
    /\ pc[s] = "idle"
    /\ job' = [job EXCEPT ![j].st = "active"]
    /\ held' = [held EXCEPT ![s] = j]
    /\ cur' = [cur EXCEPT ![s] = job[j].run]
    /\ Step(s, "start")
    /\ UNCHANGED <<rows, run, ask, todo, ghosts, faults>>

\* Mutants: a worker takes a job that another one is processing; and a worker
\* leaves a job in the queue when its run is no longer PENDING.
TakeAny(s, j) == job[j].st \in {"waiting", "active"} /\ Take(s, j)
TakePending(s, j) == job[j].st = "waiting" /\ run[job[j].run].st = "PENDING" /\ Take(s, j)

\* A worker takes a waiting job.
TakeJob(s, j) == job[j].st = "waiting" /\ Take(s, j)

\* The first statement sets RUNNING whatever the status is; an exception
\* before the try block leaves executeRun.
ExecStart(p) ==
    LET r == cur[p] IN
    /\ pc[p] = "start"
    /\ IF Exists(r)
       THEN /\ run' = [run EXCEPT ![r].st = "RUNNING"]
            /\ Step(p, "load")
            /\ UNCHANGED <<queue, cur, ask, todo, lost>>
       ELSE Throw(p, r) /\ UNCHANGED run
    /\ UNCHANGED <<rows, grants, faults>>

\* The snapshot of the workflow's nodes that this execution works from.
ExecLoad(p) ==
    LET w == run[cur[p]].wf IN
    /\ pc[p] = "load"
    /\ IF Exists(cur[p])
       THEN /\ todo' = [todo EXCEPT ![p] =
                          [i \in 1..Len(nodes[w]) |->
                             [id |-> nodes[w][i], kind |-> kind[nodes[w][i]]]]]
            /\ Step(p, "nodes")
            /\ UNCHANGED <<queue, cur, ask, lost>>
       ELSE Throw(p, cur[p])
    /\ UNCHANGED <<rows, run, grants, faults>>

\* One node of the snapshot: it is disabled; or it runs, or fails and lets
\* the run go on; or it fails and stops the run.  A node row that is gone
\* makes the insert of its log lines fail, also the line that reports a
\* failure, so the run fails whatever onFailure says.
NodeLogged(p) == Exists(cur[p]) /\ kind[Head(todo[p]).id] # "gone"

\* Mutant: a failed node stops the run whatever onFailure says.
ExecNodeStrict(p) ==
    /\ pc[p] = "nodes" /\ todo[p] # <<>>
    /\ \/ /\ Head(todo[p]).kind = "OFF" \/ NodeLogged(p)
          /\ todo' = [todo EXCEPT ![p] = Tail(@)]
          /\ UNCHANGED pc
       \/ /\ Head(todo[p]).kind # "OFF"
          /\ Step(p, "failing")
          /\ UNCHANGED todo
    /\ UNCHANGED <<rows, run, queue, cur, ask, ghosts, faults>>

ExecNode(p) ==
    /\ pc[p] = "nodes" /\ todo[p] # <<>>
    /\ \/ /\ Head(todo[p]).kind = "OFF" \/ NodeLogged(p)
          /\ todo' = [todo EXCEPT ![p] = Tail(@)]
          /\ UNCHANGED pc
       \/ /\ Head(todo[p]).kind = "STOP" \/ ~NodeLogged(p)
          /\ Head(todo[p]).kind # "OFF"
          /\ Step(p, "failing")
          /\ UNCHANGED todo
    /\ UNCHANGED <<rows, run, queue, cur, ask, ghosts, faults>>

ExecComplete(p) ==
    LET r == cur[p] IN
    /\ pc[p] = "nodes" /\ todo[p] = <<>>
    /\ IF Exists(r) THEN run' = [run EXCEPT ![r].st = "COMPLETED"] /\ Step(p, "completed")
       ELSE Step(p, "failing") /\ UNCHANGED run
    /\ UNCHANGED <<rows, queue, cur, ask, todo, ghosts, faults>>

\* Mutant: the catch block logs and does not write the status.
ExecFailSilent(p) ==
    /\ pc[p] = "failing"
    /\ IF Exists(cur[p]) THEN Step(p, "failed") /\ UNCHANGED <<queue, cur, ask, todo, lost>>
       ELSE Throw(p, cur[p])
    /\ UNCHANGED <<rows, run, grants, faults>>

ExecFail(p) ==
    LET r == cur[p] IN
    /\ pc[p] = "failing"
    /\ IF Exists(r)
       THEN /\ run' = [run EXCEPT ![r].st = "FAILED"]
            /\ Step(p, "failed")
            /\ UNCHANGED <<queue, cur, ask, todo, lost>>
       ELSE Throw(p, r) /\ UNCHANGED run
    /\ UNCHANGED <<rows, grants, faults>>

\* The last log line, the audit record (which swallows its errors), and the
\* end of the job or of the inline execution.  The log line needs the run row.
ExecEnd(p) ==
    /\ pc[p] \in {"completed", "failed"}
    /\ \/ /\ ~Exists(cur[p])
          /\ IF pc[p] = "completed" THEN Step(p, "failing") /\ UNCHANGED <<queue, cur, ask, todo, lost>>
             ELSE Throw(p, cur[p])
       \/ /\ Exists(cur[p]) /\ p \in Handler
          /\ Step(p, "answer")
          /\ UNCHANGED <<queue, cur, ask, todo, lost>>
       \/ /\ Exists(cur[p]) /\ p \in Slot
          /\ Forget(p) /\ Step(p, "idle")
          /\ job' = IF held[p] = Nil THEN job ELSE [job EXCEPT ![held[p]].st = "done"]
          /\ UNCHANGED <<ask, lost>>
    /\ UNCHANGED <<rows, run, grants, faults>>

-----------------------------------------------------------------------------
(***************************************************************************)
(* Faults.                                                                 *)
(***************************************************************************)

\* A database call of p fails: inside the try block it fails the run,
\* anywhere else it is an exception that leaves the handler.
DbError(p) ==
    /\ Fault
    /\ \/ /\ pc[p] \in {"nodes", "completed"}
          /\ Step(p, "failing")
          /\ UNCHANGED <<queue, cur, ask, todo, lost>>
       \/ pc[p] \in {"start", "load", "failing", "failed"} /\ Throw(p, cur[p])
       \/ pc[p] \in {"run", "create", "answer", "retry", "cancel", "delete"} /\ Throw(p, Nil)
    /\ UNCHANGED <<rows, run, grants>>

\* An application instance dies with the requests and slots P.  The jobs of
\* its slots stay active until their locks expire.
Crash(P) ==
    /\ Fault
    /\ \A p \in P : pc[p] # "idle"
    /\ P # {}
    /\ pc' = [p \in Proc |-> IF p \in P THEN "idle" ELSE pc[p]]
    /\ cur' = [p \in Proc |-> IF p \in P THEN Nil ELSE cur[p]]
    /\ todo' = [p \in Proc |-> IF p \in P THEN <<>> ELSE todo[p]]
    /\ ask' = [p \in Proc |-> IF p \in P THEN NoAsk ELSE ask[p]]
    /\ held' = [p \in Proc |-> IF p \in P THEN Nil ELSE held[p]]
    /\ lost' = lost \cup {cur[p] : p \in {q \in P : held[q] = Nil /\ pc[q] \in Working}}
    /\ UNCHANGED <<rows, run, job, grants>>

\* BullMQ's stalled check puts a job whose lock expired back to the queue,
\* and fails it after MaxStalled times.  The slot that held the lock is dead,
\* or slow: then it goes on.
Requeue(j) ==
    job' = IF job[j].stalls < MaxStalled
           THEN [job EXCEPT ![j].st = "waiting", ![j].stalls = @ + 1]
           ELSE [job EXCEPT ![j].st = "dead"]
Unlocked(j) == job[j].st = "active" /\ \A s \in Slot : held[s] # j

StalledJob(j) ==
    /\ Unlocked(j)
    /\ Requeue(j)
    /\ lost' = IF job[j].stalls < MaxStalled THEN lost ELSE lost \cup {job[j].run}
    /\ UNCHANGED <<rows, run, pc, cur, ask, todo, held, grants, faults>>

LostLock(s) ==
    LET j == held[s] IN
    /\ Fault
    /\ j # Nil
    /\ Requeue(j)
    /\ held' = [held EXCEPT ![s] = Nil]
    /\ grants' = [grants EXCEPT ![cur[s]] = @ + 1]
    /\ UNCHANGED <<rows, run, pc, cur, ask, todo, lost>>

-----------------------------------------------------------------------------

Edit ==
    \E w \in Workflow :
        \/ \E a \in BOOLEAN, ks \in NodeLists : CreateWorkflow(w, a, ks)
        \/ \E a \in BOOLEAN : UpdateWorkflow(w, a)
        \/ ArchiveWorkflow(w)
        \/ RestoreWorkflow(w)
        \/ \E ks \in NodeLists : ReplaceNodes(w, ks)
        \/ \E i \in 0..MaxNodes, k \in NodeKind : CreateNode(w, i, k)
        \/ \E i, j \in 1..MaxNodes, k \in NodeKind : UpdateNode(w, i, j, k)
        \/ \E i \in 1..MaxNodes : DeleteNode(w, i)

Receive(h) ==
    \/ \E w \in Workflow, k \in Keys : RequestRun(h, w, k)
    \/ \E k \in Keys : TriggerEvent(h, k)
    \/ \E r \in Run : RetryRead(h, r)
    \/ \E r \in Run : CancelRead(h, r)
    \/ \E w \in Workflow : DeleteRead(h, w)
    \/ \E w \in Workflow : ArchiveInstead(h, w)

Handle(h) ==
    \/ RunWorkflow(h)
    \/ CreateRun(h)
    \/ EnqueueRun(h)
    \/ Answer(h)
    \/ RetryWrite(h)
    \/ CancelWrite(h)
    \/ DeleteWrite(h)

Execute(p) ==
    \/ ExecStart(p)
    \/ ExecLoad(p)
    \/ ExecNode(p)
    \/ ExecComplete(p)
    \/ ExecFail(p)
    \/ ExecEnd(p)

Next ==
    \/ Edit
    \/ \E h \in Handler : Receive(h) \/ Handle(h)
    \/ \E p \in Proc : Execute(p) \/ DbError(p)
    \/ \E s \in Slot, j \in Job : TakeJob(s, j)
    \/ \E P \in SUBSET Proc : Crash(P)
    \/ \E j \in Job : StalledJob(j)
    \/ \E s \in Slot : LostLock(s)

Spec == Init /\ [][Next]_vars

\* A handler or slot that has begun goes on (the calls a node makes return),
\* the workers poll the queue, and the stalled check runs on a timer.  Nobody
\* has to send a request, to edit a workflow or to fail.
Fairness ==
    /\ \A h \in Handler : WF_vars(Handle(h) \/ Execute(h))
    /\ \A s \in Slot : WF_vars(Execute(s)) /\ WF_vars(\E j \in Job : TakeJob(s, j))
    /\ \A j \in Job : WF_vars(StalledJob(j))

FairSpec == Spec /\ Fairness

-----------------------------------------------------------------------------

TypeOK ==
    /\ wf \in [Workflow -> WfState]
    /\ nodes \in [Workflow -> Seq(Node)]
    /\ kind \in [Node -> NodeKind \cup {"none", "gone"}]
    /\ run \in [Run -> RunState]
    /\ job \in [Job -> JobState]
    /\ pc \in [Proc -> Pc]
    /\ cur \in [Proc -> Run \cup {Nil}]
    /\ ask \in [Proc -> Ask]
    /\ todo \in [Proc -> Seq(Pending)]
    /\ held \in [Proc -> Job \cup {Nil}]
    /\ lost \subseteq Run
    /\ grants \in [Run -> Nat]
    /\ faults \in 0..MaxFaults

(***************************************************************************)
(* Two runs of a workflow never have the same idempotency key, although    *)
(* runWorkflow looks for the key and inserts the run in two steps.         *)
(***************************************************************************)
IdempotentKeys ==
    \A q, r \in Run :
        Exists(q) /\ Exists(r) /\ run[q].wf = run[r].wf /\ run[q].key = run[r].key
            => q = r \/ run[r].key = NoKey

(***************************************************************************)
(* A run row never outlives its workflow, although deleteWorkflow counts   *)
(* the runs before it deletes, and a run may be inserted in between.       *)
(***************************************************************************)
RunsHaveWorkflow == \A r \in Run : Exists(r) => wf[run[r].wf].st = "live"

\* Who still owes r an execution: requests and slots that have it in hand,
\* and jobs that wait or whose slot is dead.
WorkersOf(r) == {p \in Proc : cur[p] = r /\ pc[p] \in Working}
JobsOf(r) == {j \in Job : job[j].run = r /\ (job[j].st = "waiting" \/ Unlocked(j))}

(***************************************************************************)
(* A PENDING or RUNNING run is in somebody's hands: a request, a slot or a *)
(* job.  The exceptions are the runs whose last executor died in a         *)
(* request, gave up, or used up its attempts.                              *)
(***************************************************************************)
NoneForgotten ==
    \A r \in Run : run[r].st \in Open => r \in lost \/ WorkersOf(r) # {} \/ JobsOf(r) # {}

(***************************************************************************)
(* A run is executed at most as often as it was granted: once when it is   *)
(* created, and once more for each retry, each reply of the queue that was *)
(* lost and each lock that expired under a live slot.  Crashed workers,    *)
(* thrown jobs and stalled checks hand their execution on and never        *)
(* multiply it.                                                            *)
(***************************************************************************)
ExecutionsGranted ==
    \A r \in Run : Cardinality(WorkersOf(r)) + Cardinality(JobsOf(r)) <= grants[r]

(***************************************************************************)
(* A lock is held by one slot, for a job that is active and whose run the  *)
(* slot has in hand.                                                       *)
(***************************************************************************)
LocksMatch ==
    \A p \in Proc : held[p] # Nil =>
        /\ p \in Slot /\ pc[p] \in Executing
        /\ job[held[p]].st = "active" /\ job[held[p]].run = cur[p]
        /\ \A q \in Proc : held[q] = held[p] => q = p

(***************************************************************************)
(* Without faults a run is about to fail only because a node that must not *)
(* fail did, because an edit has removed a node of its snapshot meanwhile, *)
(* or because the run itself was deleted: a node with onFailure CONTINUE   *)
(* never fails it.                                                         *)
(***************************************************************************)
OnlyStopNodesFail ==
    \A p \in Proc : pc[p] = "failing" /\ faults = 0 /\ Exists(cur[p]) =>
        todo[p] # <<>> /\ (Head(todo[p]).kind = "STOP" \/ kind[Head(todo[p]).id] = "gone")

(***************************************************************************)
(* A cancelled run stays cancelled until somebody retries it or its        *)
(* workflow is deleted ("terminal status").                                *)
(***************************************************************************)
CancelledIsTerminal ==
    [][\A r \in Run : run[r].st = "CANCELLED" =>
          \/ run'[r].st \in {"CANCELLED", "gone"}
          \/ \E h \in Handler : pc[h] = "retry" /\ cur[h] = r /\ pc'[h] # "retry"]_vars

(***************************************************************************)
(* Every job that is added is completed or fails for good.                 *)
(***************************************************************************)
JobsSettle == \A j \in Job : job[j].st = "waiting" ~> job[j].st \in {"done", "dead"}

(***************************************************************************)
(* Every open run reaches an end, unless its last executor was lost.       *)
(***************************************************************************)
RunsSettle == \A r \in Run : run[r].st \in Open ~> run[r].st \notin Open \/ r \in lost

Lifecycle == INSTANCE RunLifecycle WITH
    st <- [r \in Run |-> run[r].st],
    owed <- [r \in Run |-> Cardinality(WorkersOf(r)) + Cardinality(JobsOf(r))],
    asks <- [r \in Run |-> Cardinality({h \in Handler : pc[h] = "cancel" /\ cur[h] = r})],
    dropped <- lost

(***************************************************************************)
(* The engine implements RunLifecycle.                                     *)
(***************************************************************************)
RunsRefineLifecycle == Lifecycle!Spec
=============================================================================
