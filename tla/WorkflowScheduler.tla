-------------------------- MODULE WorkflowScheduler --------------------------
(***************************************************************************)
(* The cron of the workflow engine.  Every minute each application         *)
(* instance scans the scheduled workflows and creates a run for each one   *)
(* that is due: a scan is a loop of awaits over a snapshot of the rows, it *)
(* may last longer than a minute, and scans of one or of several instances *)
(* overlap.  What keeps them apart is the key "schedule:<workflow>:<slot>" *)
(* of a run, where the slot is the number of the interval that the scan's  *)
(* clock is in; what makes a workflow due again is lastRunAt, which only   *)
(* an execution that completes writes.                                     *)
(*                                                                         *)
(* WorkflowRuns says how a run is executed.  Here an execution is in the   *)
(* hands of a worker, of the scan itself (the queue was unavailable) or of *)
(* nobody, and ends with or without success.                               *)
(***************************************************************************)
EXTENDS Integers, Sequences, FiniteSets

CONSTANTS
    Workflow,   \* workflow rows
    Scanner,    \* scans that may be under way at a time
    Extra,      \* workflows whose runs users also start or retry themselves
    Minute,     \* units of time between two ticks of the cron
    Config,     \* what editors save as the interval
    Default,    \* the interval of a workflow without a usable one: an hour
    Longest,    \* the longest interval: a day
    Horizon,    \* bound: the end of time
    Patience,   \* a scan and the executions it starts end so many units later
    MaxRuns,    \* bound: scheduled runs created
    MaxEdits,   \* bound: edits of workflows
    MaxFaults   \* bound: ticks missed, scans that die or fail

Time == 0..Horizon
Never == -1

ASSUME TimeAssumption ==
    /\ Minute \in Nat \ {0} /\ Horizon \in Nat /\ Patience \in Nat
    /\ MaxRuns \in Nat /\ MaxEdits \in Nat /\ MaxFaults \in Nat
ASSUME ConfigAssumption ==
    /\ Config \subseteq Nat
    /\ Default \in Nat \ {0} /\ Longest \in Nat \ {0} /\ Default <= Longest
ASSUME ExtraAssumption == Extra \subseteq Workflow

VARIABLES
    now,       \* the clock
    ticked,    \* has the cron fired at this time
    wf,        \* workflow rows
    deleting,  \* workflows that a deleteWorkflow has found without runs
    edits,     \* edits so far
    runs,      \* rows of scheduled runs, in the order of their creation
    scan,      \* scans under way
    since,     \* history: when a workflow was last edited or given a run
    missed,    \* history: ticks without a scan, and scans that broke off
    faults     \* faults so far

rows == <<wf, deleting, edits>>
clock == <<now, ticked>>
vars == <<now, ticked, wf, deleting, edits, runs, scan, since, missed, faults>>

-----------------------------------------------------------------------------

\* A config that is no number, or below one minute, is replaced by an hour,
\* and a day is the most.
\* Mutant: no limit.
NoLimit(config) == IF config < Minute THEN Default ELSE config
ScheduleInterval(config) ==
    IF config < Minute THEN Default ELSE IF config > Longest THEN Longest ELSE config
Interval == 1..Longest

WfState == [st : {"none", "live", "gone"}, active : BOOLEAN, archived : BOOLEAN,
            config : Nat, last : Time \cup {Never}]

\* An execution in somebody's hands; done is when it last completed.
RunState == [wf : Workflow, slot : Nat, at : Time, every : Interval,
             by : {"nobody", "worker", "scan"}, done : Time \cup {Never}]
Row == [wf : Workflow, every : Interval]
ScanState == [pc : {"idle", "loop", "enqueue", "inline"}, at : Time,
              rest : SUBSET Row, run : 0..MaxRuns]

\* isActive and the trigger type SCHEDULE count as one flag.
On(w) == wf[w].st = "live" /\ wf[w].active /\ ~wf[w].archived
Every(w) == ScheduleInterval(wf[w].config)
Gone(r) == wf[runs[r].wf].st # "live"

Absent == [st |-> "none", active |-> FALSE, archived |-> FALSE, config |-> 0,
           last |-> Never]
New(active, c) == [st |-> "live", active |-> active, archived |-> FALSE, config |-> c,
                   last |-> Never]
NoScan == [pc |-> "idle", at |-> 0, rest |-> {}, run |-> 0]

Init ==
    /\ now = 0 /\ ticked = FALSE
    /\ wf \in [Workflow -> {Absent} \cup {New(TRUE, c) : c \in Config}]
    /\ deleting = {} /\ edits = 0
    /\ runs = <<>>
    /\ scan = [c \in Scanner |-> NoScan]
    /\ since = [w \in Workflow |-> 0]
    /\ missed = 0 /\ faults = 0

-----------------------------------------------------------------------------
(***************************************************************************)
(* Edits.                                                                  *)
(***************************************************************************)
Edited(w) ==
    /\ edits < MaxEdits /\ edits' = edits + 1
    /\ since' = [since EXCEPT ![w] = now]
    /\ UNCHANGED <<clock, deleting, runs, scan, missed, faults>>

CreateWorkflow(w, active, c) ==
    /\ wf[w].st = "none"
    /\ wf' = [wf EXCEPT ![w] = New(active, c)]
    /\ Edited(w)

UpdateWorkflow(w, active, c) ==
    /\ wf[w].st = "live"
    /\ wf' = [wf EXCEPT ![w].active = active, ![w].config = c]
    /\ Edited(w)

ArchiveWorkflow(w) ==
    /\ wf[w].st = "live"
    /\ wf' = [wf EXCEPT ![w].archived = TRUE, ![w].active = FALSE]
    /\ Edited(w)

RestoreWorkflow(w) ==
    /\ wf[w].st = "live"
    /\ wf' = [wf EXCEPT ![w].archived = FALSE]
    /\ Edited(w)

\* deleteWorkflow counts the runs, and then deletes the row with all that
\* refers to it.  It archives a workflow with runs.
DeleteRead(w) ==
    /\ wf[w].st = "live" /\ wf[w].last = Never
    /\ \A r \in DOMAIN runs : runs[r].wf # w
    /\ deleting' = deleting \cup {w}
    /\ UNCHANGED <<clock, wf, edits, runs, scan, since, missed, faults>>

DeleteWrite(w) ==
    /\ w \in deleting
    /\ deleting' = deleting \ {w}
    /\ wf' = [wf EXCEPT ![w].st = "gone"]
    /\ UNCHANGED <<clock, edits, runs, scan, since, missed, faults>>

-----------------------------------------------------------------------------
(***************************************************************************)
(* A scan.                                                                 *)
(***************************************************************************)
\* Mutant: due one tick of the cron too early.
DueEarly(w) == wf[w].last = Never \/ now - wf[w].last >= Every(w) - Minute
ScheduleDue(w) == wf[w].last = Never \/ now - wf[w].last >= Every(w)

\* The rows and the clock are read once; rows that are not due are skipped.
ScanStart(c) ==
    /\ scan[c].pc = "idle" /\ now % Minute = 0
    /\ ticked' = TRUE
    /\ scan' = [scan EXCEPT ![c] =
                  [pc |-> "loop", at |-> now, run |-> 0,
                   rest |-> {[wf |-> w, every |-> Every(w)] :
                               w \in {v \in Workflow : On(v) /\ ScheduleDue(v)}}]]
    /\ UNCHANGED <<now, rows, runs, since, missed, faults>>

\* An exception that is no unique violation ends the scan.
BreakOff(c) ==
    /\ scan' = [scan EXCEPT ![c] = NoScan]
    /\ missed' = missed + 1

\* Mutant: the schema without @@unique([workflowId, idempotencyKey]).
NeverTaken(w, slot) == FALSE
SlotTaken(w, slot) == \E r \in DOMAIN runs : runs[r].wf = w /\ runs[r].slot = slot

Slot(c, row) == scan[c].at \div row.every

\* One row, in no particular order: the workflow is gone and the foreign key
\* refuses the run; or the key is taken and the row skipped; or the run is
\* inserted.
\* The user it acts for, the workflow's creator, is always found: no code
\* deletes users.
RefuseRun(c, row) ==
    /\ wf[row.wf].st # "live"
    /\ BreakOff(c)
    /\ UNCHANGED <<clock, rows, runs, since, faults>>

\* Mutant: a taken key ends the scan.
SkipAll(c, row) ==
    /\ wf[row.wf].st = "live" /\ SlotTaken(row.wf, Slot(c, row))
    /\ scan' = [scan EXCEPT ![c] = NoScan]
    /\ UNCHANGED <<clock, rows, runs, since, missed, faults>>

SkipRow(c, row) ==
    /\ wf[row.wf].st = "live" /\ SlotTaken(row.wf, Slot(c, row))
    /\ scan' = [scan EXCEPT ![c].rest = @ \ {row}]
    /\ UNCHANGED <<clock, rows, runs, since, missed, faults>>

InsertRun(c, row) ==
    /\ wf[row.wf].st = "live" /\ ~SlotTaken(row.wf, Slot(c, row))
    /\ Len(runs) < MaxRuns
    /\ runs' = Append(runs, [wf |-> row.wf, slot |-> Slot(c, row), at |-> scan[c].at,
                             every |-> row.every, by |-> "nobody", done |-> Never])
    /\ since' = [since EXCEPT ![row.wf] = now]
    /\ scan' = [scan EXCEPT ![c].pc = "enqueue", ![c].rest = @ \ {row},
                            ![c].run = Len(runs) + 1]
    /\ UNCHANGED <<clock, rows, missed, faults>>

ScanRow(c) ==
    /\ scan[c].pc = "loop"
    /\ \E row \in scan[c].rest : RefuseRun(c, row) \/ SkipRow(c, row) \/ InsertRun(c, row)

\* queueOrExecuteRun: a job for the workers, or an execution that the scan
\* waits for.  The log line needs the run row.
ScanEnqueue(c) ==
    LET r == scan[c].run IN
    /\ scan[c].pc = "enqueue"
    /\ \/ Gone(r) /\ BreakOff(c) /\ UNCHANGED runs
       \/ /\ ~Gone(r)
          /\ \/ /\ runs' = [runs EXCEPT ![r].by = "worker"]
                /\ scan' = [scan EXCEPT ![c].pc = "loop", ![c].run = 0]
             \/ /\ runs' = [runs EXCEPT ![r].by = "scan"]
                /\ scan' = [scan EXCEPT ![c].pc = "inline"]
          /\ UNCHANGED missed
    /\ UNCHANGED <<clock, rows, since, faults>>

\* executeRun returns; it throws when the run row is gone.
ScanReturn(c) ==
    LET r == scan[c].run IN
    /\ scan[c].pc = "inline"
    /\ \/ Gone(r) /\ BreakOff(c)
       \/ /\ ~Gone(r) /\ runs[r].by # "scan"
          /\ scan' = [scan EXCEPT ![c].pc = "loop", ![c].run = 0]
          /\ UNCHANGED missed
    /\ UNCHANGED <<clock, rows, runs, since, faults>>

ScanEnd(c) ==
    /\ scan[c].pc = "loop" /\ scan[c].rest = {}
    /\ scan' = [scan EXCEPT ![c] = NoScan]
    /\ UNCHANGED <<clock, rows, runs, since, missed, faults>>

\* The instance dies, or a call of the database or the queue fails: the run
\* that was just created has a job or has none, and one that the scan was
\* executing is left where it is.  A tick passes with no instance to scan.
Fault == faults < MaxFaults /\ faults' = faults + 1

ScanFails(c) ==
    /\ Fault
    /\ scan[c].pc # "idle"
    /\ BreakOff(c)
    /\ \/ /\ scan[c].pc = "inline" => runs[scan[c].run].by # "scan"
          /\ UNCHANGED runs
       \/ /\ scan[c].pc = "inline" /\ runs[scan[c].run].by = "scan"
          /\ runs' = [runs EXCEPT ![scan[c].run].by = "nobody"]
       \/ /\ scan[c].pc = "enqueue" /\ ~Gone(scan[c].run)
          /\ runs' = [runs EXCEPT ![scan[c].run].by = "worker"]
    /\ UNCHANGED <<clock, rows, since>>

MissTick ==
    /\ Fault
    /\ now % Minute = 0 /\ ~ticked
    /\ ticked' = TRUE
    /\ missed' = missed + 1
    /\ UNCHANGED <<now, rows, runs, scan, since>>

-----------------------------------------------------------------------------
(***************************************************************************)
(* Executions.                                                             *)
(***************************************************************************)
\* The run is COMPLETED and lastRunAt written in one transaction.
ExecComplete(r) ==
    /\ runs[r].by # "nobody" /\ ~Gone(r)
    /\ runs' = [runs EXCEPT ![r].by = "nobody", ![r].done = now]
    /\ wf' = [wf EXCEPT ![runs[r].wf].last = now]
    /\ UNCHANGED <<clock, deleting, edits, scan, since, missed, faults>>

\* FAILED, or the attempts are used up: lastRunAt stays.
ExecFail(r) ==
    /\ runs[r].by # "nobody"
    /\ runs' = [runs EXCEPT ![r].by = "nobody"]
    /\ UNCHANGED <<clock, rows, scan, since, missed, faults>>

\* retryRun.
RetryRun(r) ==
    /\ runs[r].wf \in Extra /\ ~Gone(r) /\ runs[r].by = "nobody"
    /\ runs' = [runs EXCEPT ![r].by = "worker"]
    /\ UNCHANGED <<clock, rows, scan, since, missed, faults>>

\* A run that was not scheduled completes.
OtherRunCompletes(w) ==
    /\ w \in Extra /\ wf[w].st = "live"
    /\ wf' = [wf EXCEPT ![w].last = now]
    /\ UNCHANGED <<clock, deleting, edits, runs, scan, since, missed, faults>>

-----------------------------------------------------------------------------
(***************************************************************************)
(* Time passes: the cron fires every minute, and scans and the executions  *)
(* they start end within Patience.                                         *)
(***************************************************************************)
Tick ==
    /\ now < Horizon
    /\ now % Minute = 0 => ticked
    /\ \A c \in Scanner : scan[c].pc # "idle" => now < scan[c].at + Patience
    /\ \A r \in DOMAIN runs :
          runs[r].by # "nobody" /\ ~Gone(r) /\ runs[r].wf \notin Extra
              => now < runs[r].at + Patience
    /\ now' = now + 1 /\ ticked' = FALSE
    /\ UNCHANGED <<rows, runs, scan, since, missed, faults>>

Edit(w) ==
    \/ \E a \in BOOLEAN, c \in Config : CreateWorkflow(w, a, c) \/ UpdateWorkflow(w, a, c)
    \/ ArchiveWorkflow(w)
    \/ RestoreWorkflow(w)
    \/ DeleteRead(w)
    \/ DeleteWrite(w)

Scan(c) ==
    \/ ScanStart(c)
    \/ ScanRow(c)
    \/ ScanEnqueue(c)
    \/ ScanReturn(c)
    \/ ScanEnd(c)
    \/ ScanFails(c)

Next ==
    \/ \E w \in Workflow : Edit(w) \/ OtherRunCompletes(w)
    \/ \E c \in Scanner : Scan(c)
    \/ \E r \in DOMAIN runs : ExecComplete(r) \/ ExecFail(r) \/ RetryRun(r)
    \/ MissTick
    \/ Tick

Spec == Init /\ [][Next]_vars

-----------------------------------------------------------------------------

TypeOK ==
    /\ now \in Time /\ ticked \in BOOLEAN
    /\ wf \in [Workflow -> WfState]
    /\ deleting \subseteq Workflow /\ edits \in 0..MaxEdits
    /\ runs \in Seq(RunState) /\ Len(runs) <= MaxRuns
    /\ scan \in [Scanner -> ScanState]
    /\ since \in [Workflow -> Time]
    /\ missed \in Nat /\ faults \in 0..MaxFaults

(***************************************************************************)
(* However scans overlap, a workflow has at most one run for a slot, and   *)
(* the slot is the one its scan's clock was in.                            *)
(***************************************************************************)
OneRunPerSlot ==
    \A q, r \in DOMAIN runs :
        /\ runs[r].slot = runs[r].at \div runs[r].every
        /\ runs[q].wf = runs[r].wf /\ runs[q].slot = runs[r].slot => q = r

(***************************************************************************)
(* A scheduled run starts a full interval after the workflow's last        *)
(* completion before its scan, whatever other scans, retries and edits do. *)
(***************************************************************************)
RunsSpaced ==
    \A q, r \in DOMAIN runs :
        runs[q].wf = runs[r].wf /\ runs[q].done # Never /\ runs[q].done < runs[r].at
            => runs[r].at - runs[q].done >= runs[r].every

(***************************************************************************)
(* A workflow that is on gets its next run at most an interval, a minute   *)
(* and two delays after the last one, and a minute later for each scan     *)
(* that was missed or broke off: neither failed executions nor overlapping *)
(* scans nor other workflows hold it up.  When its interval was made       *)
(* longer, the slots that its runs were numbered by come again, and it has *)
(* to wait until the last of those is over, and no longer than that.  The  *)
(* exception are workflows that users also run themselves.                 *)
(***************************************************************************)
UsedUntil(w) ==
    {(runs[r].slot + 1) * Every(w) : r \in {q \in DOMAIN runs : runs[q].wf = w}}
NeverLate ==
    \A w \in Workflow \ Extra : On(w) =>
        \E due \in {since[w] + Every(w) + Patience} \cup UsedUntil(w) :
            now < due + Patience + Minute * (1 + missed)
=============================================================================
