----------------------- MODULE WorkflowSchedulerProofs -----------------------
(***************************************************************************)
(* Proofs about WorkflowScheduler, for every set of workflows and scans,   *)
(* every length of intervals and of a minute, and every delay.             *)
(***************************************************************************)
EXTENDS WorkflowScheduler, SequenceTheorems, FiniteSetTheorems, TLAPS

(***************************************************************************)
(* What is known of a scan under way: its clock is not ahead, the run it   *)
(* has in hand exists, and the rows left to it were due when it began, so  *)
(* that what has completed before that lies an interval back.              *)
(***************************************************************************)
Held == \A c \in Scanner :
    /\ scan[c].at <= now
    /\ scan[c].pc \in {"enqueue", "inline"} => scan[c].run \in 1..Len(runs)
Waiting == \A c \in Scanner, r \in 1..Len(runs) : \A row \in scan[c].rest :
    runs[r].wf = row.wf /\ runs[r].done # Never /\ runs[r].done < scan[c].at
        => scan[c].at - runs[r].done >= row.every

\* lastRunAt is the latest completion, of a scheduled or another run.
Past ==
    /\ \A w \in Workflow : wf[w].last <= now
    /\ \A r \in 1..Len(runs) :
          /\ runs[r].at <= now
          /\ runs[r].done <= wf[runs[r].wf].last
          /\ wf[runs[r].wf].st # "none"

Distinct == \A q, r \in 1..Len(runs) :
    /\ runs[r].slot = runs[r].at \div runs[r].every
    /\ runs[q].wf = runs[r].wf /\ runs[q].slot = runs[r].slot => q = r
Spaced == \A q, r \in 1..Len(runs) :
    runs[q].wf = runs[r].wf /\ runs[q].done # Never /\ runs[q].done < runs[r].at
        => runs[r].at - runs[q].done >= runs[r].every

History == Held /\ Waiting /\ Past /\ Distinct /\ Spaced

-----------------------------------------------------------------------------
(***************************************************************************)
(* Most steps leave the runs where they are, but for who executes them,    *)
(* and take rows from scans or end them.  They preserve History.           *)
(***************************************************************************)
Steady ==
    /\ Len(runs') = Len(runs)
    /\ \A r \in 1..Len(runs) :
          /\ runs'[r].wf = runs[r].wf /\ runs'[r].slot = runs[r].slot
          /\ runs'[r].at = runs[r].at /\ runs'[r].every = runs[r].every
          /\ runs'[r].done = runs[r].done

Shrinking == \A c \in Scanner :
    /\ scan'[c].rest \subseteq scan[c].rest
    /\ scan'[c].at = scan[c].at \/ (scan'[c].rest = {} /\ scan'[c].at = 0)
    /\ scan'[c].pc \in {"enqueue", "inline"} => scan'[c].run \in 1..Len(runs')

Onward ==
    /\ now' >= now
    /\ \A w \in Workflow :
          /\ wf'[w].last <= now'
          /\ wf[w].st # "none" => wf'[w].st # "none" /\ wf'[w].last >= wf[w].last

LEMMA IntervalTypes ==
  /\ \A config \in Nat : ScheduleInterval(config) \in Interval
  /\ \A at \in Time, every \in Interval : at \div every \in Nat
  BY TimeAssumption, ConfigAssumption DEF ScheduleInterval, Interval, Time

LEMMA SteadyHistory ==
  ASSUME TypeOK, TypeOK', History, Steady, Shrinking, Onward
  PROVE  History'
  <1>1. \A r \in 1..Len(runs) : runs[r] \in RunState /\ runs'[r] \in RunState
    BY DEF TypeOK, Steady
  <1>2. \A c \in Scanner : scan[c] \in ScanState /\ scan'[c] \in ScanState
    BY DEF TypeOK
  <1>3. now \in Int /\ now' \in Int /\ now >= 0
    BY TimeAssumption DEF TypeOK, Time
  <1>4. Held'
    BY <1>2, <1>3 DEF History, Held, Shrinking, Onward, ScanState, Time
  <1>5. Waiting'
    BY <1>1, <1>2 DEF History, Waiting, Steady, Shrinking
  <1>6. Past'
    <2>1. \A w \in Workflow : wf[w].last \in Int /\ wf'[w].last \in Int
      <3>1. \A w \in Workflow : wf[w] \in WfState /\ wf'[w] \in WfState
        BY DEF TypeOK
      <3>2. \A x \in WfState : x.last \in Int
        BY DEF WfState, Time, Never
      <3> QED BY <3>1, <3>2
    <2>2. \A r \in 1..Len(runs) : /\ runs[r].wf \in Workflow
                                  /\ runs[r].at \in Int /\ runs[r].done \in Int
      BY <1>1 DEF RunState, Time, Never
    <2>3. \A w \in Workflow : wf'[w].last <= now'
      BY DEF Onward
    <2>4. ASSUME NEW r \in 1..Len(runs)
          PROVE  /\ runs'[r].at <= now'
                 /\ runs'[r].done <= wf'[runs'[r].wf].last
                 /\ wf'[runs'[r].wf].st # "none"
      <3>1. /\ runs[r].at <= now /\ runs[r].done <= wf[runs[r].wf].last
            /\ wf[runs[r].wf].st # "none"
        BY DEF History, Past
      <3>2. /\ runs'[r].at = runs[r].at /\ runs'[r].done = runs[r].done
            /\ runs'[r].wf = runs[r].wf
        BY DEF Steady
      <3>3. now' >= now /\ wf'[runs[r].wf].last >= wf[runs[r].wf].last
            /\ wf'[runs[r].wf].st # "none"
        BY <2>2, <3>1 DEF Onward
      <3> QED BY <1>3, <2>1, <2>2, <3>1, <3>2, <3>3
    <2> QED BY <2>3, <2>4 DEF Past, Steady
  <1>7. Distinct' /\ Spaced'
    BY DEF History, Distinct, Spaced, Steady
  <1> QED BY <1>4, <1>5, <1>6, <1>7 DEF History

\* Writes to the fields of a run, and of a scan.
LEMMA RunWrite ==
  ASSUME TypeOK, NEW r \in 1..Len(runs), NEW x \in RunState, runs' = [runs EXCEPT ![r] = x]
  PROVE  /\ runs' \in Seq(RunState) /\ Len(runs') = Len(runs)
         /\ \A q \in 1..Len(runs) : runs'[q] = IF q = r THEN x ELSE runs[q]
  BY ExceptSeq DEF TypeOK

LEMMA ByWrite ==
  ASSUME TypeOK, NEW r \in 1..Len(runs), NEW b \in {"nobody", "worker", "scan"},
         runs' = [runs EXCEPT ![r].by = b]
  PROVE  runs' \in Seq(RunState) /\ Steady
  <1>1. runs[r] \in RunState
    BY DEF TypeOK
  <1>2. [runs[r] EXCEPT !.by = b] \in RunState
    BY <1>1 DEF RunState
  <1>3. runs' = [runs EXCEPT ![r] = [runs[r] EXCEPT !.by = b]]
    OBVIOUS
  <1>4. /\ runs' \in Seq(RunState) /\ Len(runs') = Len(runs)
        /\ \A q \in 1..Len(runs) :
              runs'[q] = IF q = r THEN [runs[r] EXCEPT !.by = b] ELSE runs[q]
    BY <1>2, <1>3, RunWrite
  <1> QED BY <1>1, <1>4 DEF Steady, RunState

LEMMA NoScanType == NoScan \in ScanState
  BY TimeAssumption DEF NoScan, ScanState, Time

\* Scan c takes a step to x: it stays with its clock and takes no row more.
LEMMA ScanWrite ==
  ASSUME TypeOK, History, NEW c \in Scanner, NEW x \in ScanState,
         scan' = [scan EXCEPT ![c] = x],
         x.rest \subseteq scan[c].rest,
         x.at = scan[c].at \/ (x.rest = {} /\ x.at = 0),
         x.pc \in {"enqueue", "inline"} => x.run \in 1..Len(runs'),
         Len(runs') = Len(runs)
  PROVE  scan' \in [Scanner -> ScanState] /\ Shrinking
  BY DEF TypeOK, History, Held, Shrinking

\* A scan ends or breaks off.
LEMMA ScanStops ==
  ASSUME TypeOK, History, NEW c \in Scanner, scan' = [scan EXCEPT ![c] = NoScan],
         Len(runs') = Len(runs)
  PROVE  scan' \in [Scanner -> ScanState] /\ Shrinking
  <1>1. NoScan.rest = {} /\ NoScan.at = 0 /\ NoScan.pc = "idle"
    BY DEF NoScan
  <1> QED BY <1>1, NoScanType, ScanWrite

-----------------------------------------------------------------------------

LEMMA InitHistory == Init => TypeOK /\ History
  <1> SUFFICES ASSUME Init PROVE TypeOK /\ History
    OBVIOUS
  <1>1. runs \in Seq(RunState) /\ Len(runs) = 0
    BY EmptySeq DEF Init
  <1>2. wf \in [Workflow -> WfState]
    <2>1. Absent \in WfState
      BY DEF Absent, WfState
    <2>2. \A c \in Config : New(TRUE, c) \in WfState
      BY ConfigAssumption DEF New, WfState
    <2>3. {Absent} \cup {New(TRUE, c) : c \in Config} \subseteq WfState
      BY <2>1, <2>2
    <2> QED BY <2>3 DEF Init
  <1>3. TypeOK
    <2>1. scan \in [Scanner -> ScanState]
      BY NoScanType DEF Init
    <2>2. since \in [Workflow -> Time]
      BY TimeAssumption DEF Init, Time
    <2>3. /\ now = 0 /\ ticked = FALSE /\ deleting = {} /\ edits = 0
          /\ missed = 0 /\ faults = 0
      BY DEF Init
    <2>4. now \in Time /\ edits \in 0..MaxEdits /\ missed \in Nat /\ faults \in 0..MaxFaults
      BY <2>3, TimeAssumption DEF Time
    <2>5. Len(runs) <= MaxRuns
      BY <1>1, TimeAssumption
    <2> QED BY <1>1, <1>2, <2>1, <2>2, <2>3, <2>4, <2>5 DEF TypeOK
  <1>4. Held
    BY TimeAssumption DEF Init, Held, NoScan
  <1>5. Waiting /\ Distinct /\ Spaced
    BY <1>1 DEF Waiting, Distinct, Spaced
  <1>6. Past
    BY <1>1 DEF Init, Past, Absent, New, Never
  <1> QED BY <1>3, <1>4, <1>5, <1>6 DEF History

-----------------------------------------------------------------------------

LEMMA UnchangedSteady ==
  ASSUME TypeOK, UNCHANGED runs
  PROVE  Steady
  BY DEF Steady

LEMMA UnchangedShrinking ==
  ASSUME TypeOK, History, UNCHANGED scan, Len(runs') = Len(runs)
  PROVE  Shrinking
  BY DEF Shrinking, History, Held

LEMMA UnchangedOnward ==
  ASSUME TypeOK, History, UNCHANGED <<now, wf>>
  PROVE  Onward
  <1>1. /\ now \in Int
        /\ \A w \in Workflow : wf[w].last \in Int /\ wf[w].last <= now
    BY TimeAssumption DEF TypeOK, WfState, Time, Never, History, Past
  <1> QED BY <1>1 DEF Onward

\* An edit of one workflow.
LEMMA WfWrite ==
  ASSUME TypeOK, History, NEW w \in Workflow, NEW x \in WfState, wf' = [wf EXCEPT ![w] = x],
         UNCHANGED now, x.last <= now,
         wf[w].st # "none" => x.st # "none" /\ x.last >= wf[w].last
  PROVE  wf' \in [Workflow -> WfState] /\ Onward
  <1>1. /\ now \in Int
        /\ \A v \in Workflow : wf[v].last \in Int /\ wf[v].last <= now
    BY TimeAssumption DEF TypeOK, WfState, Time, Never, History, Past
  <1>2. \A v \in Workflow : wf'[v] = IF v = w THEN x ELSE wf[v]
    BY DEF TypeOK
  <1> QED BY <1>1, <1>2 DEF Onward, TypeOK

LEMMA EditSteady ==
  ASSUME TypeOK, History, NEW w \in Workflow, Edit(w)
  PROVE  TypeOK' /\ Steady /\ Shrinking /\ Onward
  <1>0. PICK x \in WfState : x = wf[w]
    BY DEF TypeOK
  <1>1. x.last <= now /\ now \in Time /\ now \in Int /\ x.last \in Int
    BY <1>0, TimeAssumption DEF TypeOK, History, Past, WfState, Time, Never
  <1>2. UNCHANGED <<now, ticked, runs, scan, missed, faults>>
    BY DEF Edit, CreateWorkflow, UpdateWorkflow, ArchiveWorkflow, RestoreWorkflow, Edited,
           DeleteRead, DeleteWrite, clock
  <1>3. /\ since' \in [Workflow -> Time] /\ edits' \in 0..MaxEdits
        /\ deleting' \subseteq Workflow
    <2>1. CASE Edited(w)
      BY <1>1, <2>1, TimeAssumption DEF Edited, TypeOK
    <2>2. CASE DeleteRead(w) \/ DeleteWrite(w)
      BY <2>2 DEF DeleteRead, DeleteWrite, TypeOK
    <2> QED
      BY <2>1, <2>2 DEF Edit, CreateWorkflow, UpdateWorkflow, ArchiveWorkflow, RestoreWorkflow
  <1>4. wf' \in [Workflow -> WfState] /\ Onward
    <2>1. ASSUME NEW a \in BOOLEAN, NEW c \in Config, CreateWorkflow(w, a, c)
          PROVE  wf' \in [Workflow -> WfState] /\ Onward
      <3>1. New(a, c) \in WfState /\ New(a, c).last <= now
        BY <1>1, ConfigAssumption, TimeAssumption DEF New, WfState, Never, Time
      <3> QED BY <1>2, <2>1, <3>1, WfWrite DEF CreateWorkflow
    <2>2. ASSUME NEW a \in BOOLEAN, NEW c \in Config, UpdateWorkflow(w, a, c)
          PROVE  wf' \in [Workflow -> WfState] /\ Onward
      <3>1. PICK y \in WfState : y = [x EXCEPT !.active = a, !.config = c]
        BY ConfigAssumption DEF WfState
      <3>3. y.last = x.last /\ y.st = x.st
        BY <3>1 DEF WfState
      <3>4. wf[w].st # "none" => y.st # "none" /\ y.last >= wf[w].last
        BY <1>0, <1>1, <3>3
      <3>2. wf' = [wf EXCEPT ![w] = y]
        BY <2>2, <1>0, <3>1 DEF UpdateWorkflow, TypeOK
      <3> QED BY <1>1, <1>2, <3>2, <3>3, <3>4, WfWrite
    <2>3. CASE ArchiveWorkflow(w)
      <3>1. PICK y \in WfState : y = [x EXCEPT !.archived = TRUE, !.active = FALSE]
        BY DEF WfState
      <3>3. y.last = x.last /\ y.st = x.st
        BY <3>1 DEF WfState
      <3>4. wf[w].st # "none" => y.st # "none" /\ y.last >= wf[w].last
        BY <1>0, <1>1, <3>3
      <3>2. wf' = [wf EXCEPT ![w] = y]
        BY <2>3, <1>0, <3>1 DEF ArchiveWorkflow, TypeOK
      <3> QED BY <1>1, <1>2, <3>2, <3>3, <3>4, WfWrite
    <2>4. CASE RestoreWorkflow(w)
      <3>1. PICK y \in WfState : y = [x EXCEPT !.archived = FALSE]
        BY DEF WfState
      <3>3. y.last = x.last /\ y.st = x.st
        BY <3>1 DEF WfState
      <3>4. wf[w].st # "none" => y.st # "none" /\ y.last >= wf[w].last
        BY <1>0, <1>1, <3>3
      <3>2. wf' = [wf EXCEPT ![w] = y]
        BY <2>4, <1>0, <3>1 DEF RestoreWorkflow, TypeOK
      <3> QED BY <1>1, <1>2, <3>2, <3>3, <3>4, WfWrite
    <2>5. CASE DeleteRead(w)
      BY <1>2, <2>5, UnchangedOnward DEF DeleteRead, TypeOK
    <2>6. CASE DeleteWrite(w)
      <3>1. PICK y \in WfState : y = [x EXCEPT !.st = "gone"]
        BY DEF WfState
      <3>3. y.last = x.last /\ y.st = "gone"
        BY <3>1 DEF WfState
      <3>4. wf[w].st # "none" => y.st # "none" /\ y.last >= wf[w].last
        BY <1>0, <1>1, <3>3
      <3>2. wf' = [wf EXCEPT ![w] = y]
        BY <2>6, <1>0, <3>1 DEF DeleteWrite, TypeOK
      <3> QED BY <1>1, <1>2, <3>2, <3>3, <3>4, WfWrite
    <2> QED BY <2>1, <2>2, <2>3, <2>4, <2>5, <2>6 DEF Edit
  <1>5. TypeOK'
    BY <1>2, <1>3, <1>4 DEF TypeOK
  <1> QED BY <1>2, <1>4, <1>5, UnchangedSteady, UnchangedShrinking

-----------------------------------------------------------------------------
(***************************************************************************)
(* Scans.                                                                  *)
(***************************************************************************)

\* What a scan does but for starting and inserting a run.
ScanOther(c) ==
    \/ \E row \in scan[c].rest : RefuseRun(c, row) \/ SkipRow(c, row)
    \/ ScanEnqueue(c)
    \/ ScanReturn(c)
    \/ ScanEnd(c)
    \/ ScanFails(c)

LEMMA ScanOtherSteady ==
  ASSUME TypeOK, History, NEW c \in Scanner, ScanOther(c)
  PROVE  TypeOK' /\ Steady /\ Shrinking /\ Onward
  <1>0. PICK x \in ScanState : x = scan[c]
    BY DEF TypeOK
  <1>1. UNCHANGED <<now, ticked, wf, deleting, edits, since>>
    BY DEF ScanOther, RefuseRun, SkipRow, ScanEnqueue, ScanReturn, ScanEnd, ScanFails,
           clock, rows
  <1>2. Onward
    BY <1>1, UnchangedOnward
  <1>3. x.pc \in {"enqueue", "inline"} => x.run \in 1..Len(runs)
    BY <1>0 DEF History, Held
  <1>4. missed' \in Nat /\ faults' \in 0..MaxFaults
    BY TimeAssumption
    DEF TypeOK, ScanOther, RefuseRun, SkipRow, ScanEnqueue, ScanReturn, ScanEnd, ScanFails,
        BreakOff, Fault
  <1>5. runs' \in Seq(RunState) /\ Steady
    <2>1. CASE UNCHANGED runs
      BY <2>1, UnchangedSteady DEF TypeOK
    <2>2. CASE /\ x.pc \in {"enqueue", "inline"}
               /\ \E b \in {"nobody", "worker", "scan"} : runs' = [runs EXCEPT ![x.run].by = b]
      BY <1>3, <2>2, ByWrite
    <2> QED
      BY <1>0, <2>1, <2>2
      DEF ScanOther, RefuseRun, SkipRow, ScanEnqueue, ScanReturn, ScanEnd, ScanFails
  <1>6. scan' \in [Scanner -> ScanState] /\ Shrinking
    <2>1. CASE scan' = [scan EXCEPT ![c] = NoScan]
      BY <1>5, <2>1, ScanStops DEF Steady
    <2>2. ASSUME NEW row, scan' = [scan EXCEPT ![c].rest = @ \ {row}]
          PROVE  scan' \in [Scanner -> ScanState] /\ Shrinking
      <3>1. PICK y \in ScanState : y = [x EXCEPT !.rest = @ \ {row}]
        BY DEF ScanState
      <3>2. y.rest \subseteq x.rest /\ y.at = x.at /\ y.pc = x.pc /\ y.run = x.run
        BY <3>1 DEF ScanState
      <3>3. scan' = [scan EXCEPT ![c] = y]
        BY <1>0, <2>2, <3>1
      <3> QED BY <1>0, <1>3, <1>5, <3>2, <3>3, ScanWrite DEF Steady
    <2>3. CASE scan' = [scan EXCEPT ![c].pc = "loop", ![c].run = 0]
      <3>0. [x EXCEPT !.pc = "loop", !.run = 0] \in ScanState
        <4>1. 0 \in 0..MaxRuns
          BY TimeAssumption
        <4> QED BY <4>1 DEF ScanState
      <3>1. PICK y \in ScanState : y = [x EXCEPT !.pc = "loop", !.run = 0]
        BY <3>0
      <3>2. y.rest = x.rest /\ y.at = x.at /\ y.pc = "loop"
        BY <3>1 DEF ScanState
      <3>3. scan' = [scan EXCEPT ![c] = y]
        BY <1>0, <2>3, <3>1 DEF TypeOK
      <3>4. y.pc \notin {"enqueue", "inline"}
        BY <3>2
      <3>5. Len(runs') = Len(runs)
        BY <1>5 DEF Steady
      <3> QED BY <1>0, <3>2, <3>3, <3>4, <3>5, ScanWrite
    <2>4. CASE scan' = [scan EXCEPT ![c].pc = "inline"] /\ x.pc = "enqueue"
      <3>1. PICK y \in ScanState : y = [x EXCEPT !.pc = "inline"]
        BY DEF ScanState
      <3>2. y.rest = x.rest /\ y.at = x.at /\ y.run = x.run
        BY <3>1 DEF ScanState
      <3>3. scan' = [scan EXCEPT ![c] = y]
        BY <1>0, <2>4, <3>1
      <3> QED BY <1>0, <1>3, <1>5, <2>4, <3>2, <3>3, ScanWrite DEF Steady
    <2> QED
      BY <1>0, <2>1, <2>2, <2>3, <2>4
      DEF ScanOther, RefuseRun, SkipRow, ScanEnqueue, ScanReturn, ScanEnd, ScanFails, BreakOff
  <1>7. TypeOK'
    BY <1>1, <1>4, <1>5, <1>6 DEF TypeOK, Steady
  <1> QED BY <1>2, <1>5, <1>6, <1>7

-----------------------------------------------------------------------------
(***************************************************************************)
(* Executions, time, and faults between scans.                             *)
(***************************************************************************)
LEMMA ByStepSteady ==
  ASSUME TypeOK, History, NEW r \in 1..Len(runs), ExecFail(r) \/ RetryRun(r)
  PROVE  TypeOK' /\ Steady /\ Shrinking /\ Onward
  <1>1. UNCHANGED <<now, ticked, wf, deleting, edits, scan, since, missed, faults>>
    BY DEF ExecFail, RetryRun, clock, rows
  <1>2. runs' \in Seq(RunState) /\ Steady
    BY ByWrite DEF ExecFail, RetryRun
  <1>3. Shrinking /\ Onward
    BY <1>1, <1>2, UnchangedShrinking, UnchangedOnward DEF Steady
  <1> QED BY <1>1, <1>2, <1>3 DEF TypeOK, Steady

LEMMA OtherRunSteady ==
  ASSUME TypeOK, History, NEW w \in Workflow, OtherRunCompletes(w)
  PROVE  TypeOK' /\ Steady /\ Shrinking /\ Onward
  <1>0. PICK x \in WfState : x = wf[w]
    BY DEF TypeOK
  <1>1. /\ now \in Time /\ now \in Int /\ x.last <= now
        /\ UNCHANGED <<now, ticked, deleting, edits, runs, scan, since, missed, faults>>
    BY <1>0, TimeAssumption DEF OtherRunCompletes, clock, TypeOK, Time, History, Past
  <1>2. PICK y \in WfState : y = [x EXCEPT !.last = now]
    BY <1>1 DEF WfState
  <1>3. y.last = now /\ y.st = x.st
    BY <1>2 DEF WfState
  <1>4. wf' = [wf EXCEPT ![w] = y]
    BY <1>0, <1>2 DEF OtherRunCompletes
  <1>5. wf' \in [Workflow -> WfState] /\ Onward
    <2>1. x.last \in Int
      BY DEF WfState, Time, Never
    <2>2. y.last >= x.last /\ y.last <= now
      BY <1>1, <1>3, <2>1
    <2> QED BY <1>0, <1>1, <1>3, <1>4, <2>2, WfWrite
  <1>6. TypeOK'
    BY <1>1, <1>5 DEF TypeOK
  <1> QED BY <1>1, <1>5, <1>6, UnchangedSteady, UnchangedShrinking

LEMMA ClockSteady ==
  ASSUME TypeOK, History, Tick \/ MissTick \/ UNCHANGED vars
  PROVE  TypeOK' /\ Steady /\ Shrinking /\ Onward
  <1>1. UNCHANGED <<wf, deleting, edits, runs, scan, since>>
    BY DEF Tick, MissTick, rows, vars
  <1>2. /\ now \in Int /\ now' \in Time /\ now' \in Int /\ now' >= now
        /\ ticked' \in BOOLEAN /\ missed' \in Nat /\ faults' \in 0..MaxFaults
    <2>1. /\ now \in Time /\ now \in Int /\ now >= 0 /\ Horizon \in Int
          /\ missed \in Nat /\ faults \in 0..MaxFaults
      BY TimeAssumption DEF TypeOK, Time
    <2>2. CASE Tick
      <3>1. /\ now < Horizon /\ now' = now + 1 /\ ticked' = FALSE
            /\ missed' = missed /\ faults' = faults
        BY <2>2 DEF Tick
      <3>2. now' \in 0..Horizon /\ now' \in Int /\ now' >= now
        BY <2>1, <3>1
      <3> QED BY <2>1, <3>1, <3>2 DEF Time
    <2>3. CASE MissTick
      BY <2>1, <2>3, TimeAssumption DEF MissTick, Fault, TypeOK
    <2>4. CASE UNCHANGED vars
      BY <2>1, <2>4 DEF vars, TypeOK
    <2> QED BY <2>2, <2>3, <2>4
  <1>3. \A w \in Workflow : wf[w].last \in Int /\ wf[w].last <= now
    BY <1>2 DEF TypeOK, WfState, Time, Never, History, Past
  <1>4. Onward
    BY <1>1, <1>2, <1>3 DEF Onward
  <1> QED BY <1>1, <1>2, <1>4, UnchangedSteady, UnchangedShrinking DEF TypeOK

-----------------------------------------------------------------------------
(***************************************************************************)
(* The three steps that say something new.  A scan that starts finds only  *)
(* rows whose last completion is an interval old.                          *)
(***************************************************************************)
LEMMA RunFacts ==
  ASSUME TypeOK
  PROVE  /\ now \in Int /\ now >= 0 /\ now \in Time
         /\ \A w \in Workflow : wf[w].last \in Int /\ wf[w].last >= Never
         /\ \A r \in 1..Len(runs) :
               /\ runs[r] \in RunState /\ runs[r].wf \in Workflow
               /\ runs[r].at \in Int /\ runs[r].at >= 0
               /\ runs[r].done \in Int /\ runs[r].done >= Never
               /\ runs[r].every \in Int
         /\ \A c \in Scanner : scan[c].at \in Int /\ scan[c].rest \subseteq Row
  <1>1. now \in Int /\ now >= 0 /\ now \in Time
    BY TimeAssumption DEF TypeOK, Time
  <1>2. \A w \in Workflow : wf[w].last \in Int /\ wf[w].last >= Never
    BY TimeAssumption DEF TypeOK, WfState, Time, Never
  <1>3. \A r \in 1..Len(runs) : runs[r] \in RunState
    BY DEF TypeOK
  <1>4. \A x \in RunState : /\ x.wf \in Workflow /\ x.at \in Int /\ x.at >= 0
                            /\ x.done \in Int /\ x.done >= Never /\ x.every \in Int
    BY TimeAssumption, ConfigAssumption DEF RunState, Time, Never, Interval
  <1>5. \A c \in Scanner : scan[c].at \in Int /\ scan[c].rest \subseteq Row
    BY TimeAssumption DEF TypeOK, ScanState, Time
  <1> QED BY <1>1, <1>2, <1>3, <1>4, <1>5

LEMMA ScanStartHistory ==
  ASSUME TypeOK, History, NEW c \in Scanner, ScanStart(c)
  PROVE  TypeOK' /\ History'
  <1> DEFINE due == {[wf |-> w, every |-> Every(w)] :
                       w \in {v \in Workflow : On(v) /\ ScheduleDue(v)}}
  <1>1. \A w \in Workflow : Every(w) \in Interval
    BY IntervalTypes DEF Every, TypeOK, WfState
  <1>2. due \subseteq Row
    BY <1>1 DEF Row
  <1>3. PICK y \in ScanState : y = [pc |-> "loop", at |-> now, run |-> 0, rest |-> due]
    <2>1. 0 \in 0..MaxRuns
      BY TimeAssumption
    <2> HIDE DEF due
    <2> QED BY <1>2, <2>1, RunFacts DEF ScanState
  <1>4. y.pc = "loop" /\ y.at = now /\ y.rest = due
    BY <1>3
  <1>5. /\ scan' = [scan EXCEPT ![c] = y] /\ ticked' = TRUE
        /\ UNCHANGED <<now, wf, deleting, edits, runs, since, missed, faults>>
    BY <1>3 DEF ScanStart, rows
  <1>6. /\ scan' \in [Scanner -> ScanState]
        /\ \A d \in Scanner : scan'[d] = IF d = c THEN y ELSE scan[d]
    BY <1>5 DEF TypeOK
  <1>7. TypeOK'
    BY <1>5, <1>6 DEF TypeOK
  <1>8. Held'
    BY <1>4, <1>5, <1>6, RunFacts DEF History, Held
  <1>9. ASSUME NEW r \in 1..Len(runs), NEW row \in due,
               runs[r].wf = row.wf, runs[r].done # Never
        PROVE  now - runs[r].done >= row.every
    <2>1. PICK w \in Workflow : row = [wf |-> w, every |-> Every(w)] /\ ScheduleDue(w)
      OBVIOUS
    <2>2. runs[r].done <= wf[w].last
      BY <1>9, <2>1 DEF History, Past
    <2>3. Every(w) \in Int
      BY <1>1 DEF Interval
    <2>4. wf[w].last # Never /\ wf[w].last \in Int
      BY <1>9, <2>2, RunFacts DEF Never
    <2>5. now - wf[w].last >= Every(w)
      BY <2>1, <2>4 DEF ScheduleDue
    <2> QED BY <2>1, <2>2, <2>3, <2>4, <2>5, RunFacts
  <1>10. Waiting'
    <2> HIDE DEF due
    <2> QED BY <1>4, <1>5, <1>6, <1>9 DEF History, Waiting
  <1>11. Past' /\ Distinct' /\ Spaced'
    BY <1>5 DEF History, Past, Distinct, Spaced
  <1> QED BY <1>7, <1>8, <1>10, <1>11 DEF History

\* A run is inserted for a row of the scan, under a key that is free.
LEMMA InsertRunHistory ==
  ASSUME TypeOK, History, NEW c \in Scanner, NEW row \in scan[c].rest,
         InsertRun(c, row)
  PROVE  TypeOK' /\ History'
  <1>0. PICK x \in ScanState : x = scan[c]
    BY DEF TypeOK
  <1>1. /\ row \in Row /\ row.wf \in Workflow /\ row.every \in Interval
        /\ row.every \in Int /\ x.at \in Time /\ x.at <= now
    BY <1>0, RunFacts DEF ScanState, Row, Interval, History, Held
  <1>2. PICK n \in RunState :
           n = [wf |-> row.wf, slot |-> x.at \div row.every, at |-> x.at,
                every |-> row.every, by |-> "nobody", done |-> Never]
    BY <1>1, IntervalTypes DEF RunState
  <1>3. /\ n.wf = row.wf /\ n.slot = n.at \div n.every /\ n.at = x.at /\ n.every = row.every
        /\ n.done = Never
    BY <1>2
  <1>4. /\ wf[row.wf].st = "live" /\ ~SlotTaken(row.wf, n.slot)
        /\ Len(runs) < MaxRuns
        /\ runs' = Append(runs, n)
        /\ since' = [since EXCEPT ![row.wf] = now]
        /\ scan' = [scan EXCEPT ![c].pc = "enqueue", ![c].rest = @ \ {row},
                                ![c].run = Len(runs) + 1]
        /\ UNCHANGED <<now, ticked, wf, deleting, edits, missed, faults>>
    BY <1>0, <1>2 DEF InsertRun, Slot, clock, rows
  <1>5. /\ Len(runs) \in Nat /\ DOMAIN runs = 1..Len(runs)
        /\ runs' \in Seq(RunState) /\ Len(runs') = Len(runs) + 1
        /\ \A r \in 1..Len(runs) : runs'[r] = runs[r]
        /\ runs'[Len(runs) + 1] = n
    BY <1>4, AppendProperties, LenProperties DEF TypeOK
  <1>6. PICK y \in ScanState :
           y = [x EXCEPT !.pc = "enqueue", !.rest = @ \ {row}, !.run = Len(runs) + 1]
    <2>1. Len(runs) + 1 \in 0..MaxRuns
      BY <1>4, <1>5, TimeAssumption
    <2> QED BY <2>1 DEF ScanState
  <1>7. /\ y.at = x.at /\ y.rest \subseteq x.rest /\ y.run = Len(runs) + 1
    BY <1>6 DEF ScanState
  <1>8. scan' = [scan EXCEPT ![c] = y]
    BY <1>0, <1>4, <1>6 DEF TypeOK
  <1>9. /\ scan' \in [Scanner -> ScanState]
        /\ \A d \in Scanner : scan'[d] = IF d = c THEN y ELSE scan[d]
    BY <1>8 DEF TypeOK
  <1>10. since' \in [Workflow -> Time]
    BY <1>4, RunFacts DEF TypeOK
  <1>11. TypeOK'
    BY <1>4, <1>5, <1>9, <1>10, TimeAssumption DEF TypeOK
  <1>12. \A r \in 1..Len(runs') : r \in 1..Len(runs) \/ r = Len(runs) + 1
    BY <1>5
  <1>13. Held'
    <2>1. 1..Len(runs) \subseteq 1..Len(runs') /\ Len(runs) + 1 \in 1..Len(runs')
      BY <1>5
    <2> QED BY <1>0, <1>1, <1>4, <1>7, <1>9, <2>1 DEF History, Held
  <1>14. Waiting'
    <2> SUFFICES ASSUME NEW d \in Scanner, NEW r \in 1..Len(runs'), NEW z \in scan'[d].rest,
                        runs'[r].wf = z.wf, runs'[r].done # Never,
                        runs'[r].done < scan'[d].at
                 PROVE  scan'[d].at - runs'[r].done >= z.every
      BY DEF Waiting
    <2>1. r \in 1..Len(runs) /\ runs'[r] = runs[r]
      BY <1>3, <1>5, <1>12
    <2>2. scan'[d].at = scan[d].at /\ z \in scan[d].rest
      BY <1>0, <1>7, <1>9
    <2> QED BY <2>1, <2>2 DEF History, Waiting
  <1>15. Past'
    <2>1. n.at <= now /\ n.done <= wf[n.wf].last /\ wf[n.wf].st # "none"
      BY <1>1, <1>3, <1>4, RunFacts
    <2> QED BY <1>4, <1>5, <1>12, <2>1 DEF History, Past
  <1>16. Distinct'
    <2>1. \A q \in 1..Len(runs) : ~(runs[q].wf = n.wf /\ runs[q].slot = n.slot)
      BY <1>3, <1>4, <1>5 DEF SlotTaken
    <2> QED BY <1>3, <1>5, <1>12, <2>1 DEF History, Distinct
  <1>17. Spaced'
    <2> SUFFICES ASSUME NEW q \in 1..Len(runs'), NEW r \in 1..Len(runs'),
                        runs'[q].wf = runs'[r].wf, runs'[q].done # Never,
                        runs'[q].done < runs'[r].at
                 PROVE  runs'[r].at - runs'[q].done >= runs'[r].every
      BY DEF Spaced
    <2>1. q \in 1..Len(runs) /\ runs'[q] = runs[q]
      BY <1>3, <1>5, <1>12
    <2>2. CASE r \in 1..Len(runs)
      BY <1>5, <2>1, <2>2 DEF History, Spaced
    <2>3. CASE r = Len(runs) + 1
      BY <1>0, <1>3, <1>5, <2>1, <2>3 DEF History, Waiting
    <2> QED BY <1>12, <2>2, <2>3
  <1> QED BY <1>11, <1>13, <1>14, <1>15, <1>16, <1>17 DEF History

\* A run completes now, which is not before any scan under way began.
LEMMA ExecCompleteHistory ==
  ASSUME TypeOK, History, NEW r \in 1..Len(runs), ExecComplete(r)
  PROVE  TypeOK' /\ History'
  <1>0. PICK x \in RunState : x = runs[r]
    BY RunFacts
  <1>1. PICK n \in RunState : n = [x EXCEPT !.by = "nobody", !.done = now]
    BY RunFacts DEF RunState
  <1>2. /\ n.wf = x.wf /\ n.slot = x.slot /\ n.at = x.at /\ n.every = x.every
        /\ n.done = now /\ x.wf \in Workflow
    BY <1>1 DEF RunState
  <1>3. runs' = [runs EXCEPT ![r] = n]
    BY <1>0, <1>1 DEF ExecComplete, TypeOK
  <1>4. /\ runs' \in Seq(RunState) /\ Len(runs') = Len(runs)
        /\ \A q \in 1..Len(runs) : runs'[q] = IF q = r THEN n ELSE runs[q]
    BY <1>3, RunWrite
  <1>5. /\ UNCHANGED <<now, ticked, deleting, edits, scan, since, missed, faults>>
        /\ wf' = [wf EXCEPT ![x.wf].last = now]
    BY <1>0 DEF ExecComplete, clock
  <1>6. PICK v \in WfState : v = wf[x.wf]
    BY <1>2 DEF TypeOK
  <1>7. PICK y \in WfState : y = [v EXCEPT !.last = now]
    BY RunFacts DEF WfState
  <1>8. y.last = now /\ y.st = v.st
    BY <1>7 DEF WfState
  <1>9. wf' = [wf EXCEPT ![x.wf] = y]
    BY <1>5, <1>6, <1>7
  <1>10. v.last <= now /\ v.last \in Int
    BY <1>2, <1>6, RunFacts DEF History, Past
  <1>11. wf' \in [Workflow -> WfState] /\ Onward
    <2>1. y.last <= now /\ y.last >= v.last
      BY <1>8, <1>10, RunFacts
    <2>2. wf[x.wf].st # "none" => y.st # "none" /\ y.last >= wf[x.wf].last
      BY <1>6, <1>8, <2>1
    <2> QED BY <1>2, <1>5, <1>9, <2>1, <2>2, WfWrite
  <1>12. TypeOK'
    BY <1>4, <1>5, <1>11 DEF TypeOK
  <1>13. Held'
    BY <1>4, <1>5 DEF History, Held
  <1>14. /\ \A q \in 1..Len(runs) : runs[q].at <= now
         /\ \A c \in Scanner : scan[c].at <= now
    BY DEF History, Past, Held
  <1>15. \A q \in 1..Len(runs) :
            /\ runs'[q].wf = runs[q].wf /\ runs'[q].slot = runs[q].slot
            /\ runs'[q].at = runs[q].at /\ runs'[q].every = runs[q].every
            /\ runs'[q].done = IF q = r THEN now ELSE runs[q].done
    BY <1>0, <1>2, <1>4
  <1>16. Waiting'
    <2> SUFFICES ASSUME NEW c \in Scanner, NEW q \in 1..Len(runs), NEW z \in scan[c].rest,
                        runs'[q].wf = z.wf, runs'[q].done # Never, runs'[q].done < scan[c].at
                 PROVE  scan[c].at - runs'[q].done >= z.every
      BY <1>4, <1>5 DEF Waiting
    <2>1. q # r
      BY <1>14, <1>15, RunFacts
    <2> QED BY <1>15, <2>1 DEF History, Waiting
  <1>17. Past'
    <2>1. \A w \in Workflow : wf'[w].last <= now
      BY <1>5, <1>11 DEF Onward
    <2>2. ASSUME NEW q \in 1..Len(runs)
          PROVE  /\ runs'[q].at <= now
                 /\ runs'[q].done <= wf'[runs'[q].wf].last
                 /\ wf'[runs'[q].wf].st # "none"
      <3>1. runs[q].wf \in Workflow /\ wf[runs[q].wf].st # "none"
        BY RunFacts DEF History, Past
      <3>2. /\ wf'[runs[q].wf].st # "none" /\ wf'[runs[q].wf].last >= wf[runs[q].wf].last
            /\ wf'[runs[q].wf].last \in Int
        BY <1>11, <3>1, TimeAssumption DEF Onward, WfState, Time, Never
      <3>3. runs[q].done <= wf[runs[q].wf].last
        BY DEF History, Past
      <3>4. CASE q = r
        <4>1. wf'[x.wf].last = now
          BY <1>2, <1>8, <1>9 DEF TypeOK
        <4> QED BY <1>0, <1>14, <1>15, <3>2, <3>4, <4>1, RunFacts
      <3>5. CASE q # r
        BY <1>14, <1>15, <3>1, <3>2, <3>3, <3>5, RunFacts
      <3> QED BY <3>4, <3>5
    <2> QED BY <1>4, <1>5, <2>1, <2>2 DEF Past
  <1>18. Distinct'
    BY <1>4, <1>15 DEF History, Distinct
  <1>19. Spaced'
    <2> SUFFICES ASSUME NEW q \in 1..Len(runs), NEW p \in 1..Len(runs),
                        runs'[q].wf = runs'[p].wf, runs'[q].done # Never,
                        runs'[q].done < runs'[p].at
                 PROVE  runs'[p].at - runs'[q].done >= runs'[p].every
      BY <1>4 DEF Spaced
    <2>1. q # r
      BY <1>14, <1>15, RunFacts
    <2> QED BY <1>15, <2>1 DEF History, Spaced
  <1> QED BY <1>12, <1>13, <1>16, <1>17, <1>18, <1>19 DEF History

-----------------------------------------------------------------------------

LEMMA StepHistory ==
  ASSUME TypeOK, History, [Next]_vars
  PROVE  TypeOK' /\ History'
  <1>1. ASSUME TypeOK', Steady, Shrinking, Onward PROVE TypeOK' /\ History'
    BY <1>1, SteadyHistory
  <1>2. CASE \E w \in Workflow : Edit(w)
    BY <1>1, <1>2, EditSteady
  <1>3. CASE \E w \in Workflow : OtherRunCompletes(w)
    BY <1>1, <1>3, OtherRunSteady
  <1>4. ASSUME NEW c \in Scanner, Scan(c) PROVE TypeOK' /\ History'
    <2>1. CASE ScanStart(c)
      BY <2>1, ScanStartHistory
    <2>2. CASE \E row \in scan[c].rest : InsertRun(c, row)
      BY <2>2, InsertRunHistory
    <2>3. CASE ScanOther(c)
      BY <1>1, <2>3, ScanOtherSteady
    <2> QED BY <1>4, <2>1, <2>2, <2>3 DEF Scan, ScanRow, ScanOther
  <1>5. ASSUME NEW r \in DOMAIN runs, ExecComplete(r) \/ ExecFail(r) \/ RetryRun(r)
        PROVE  TypeOK' /\ History'
    <2>1. r \in 1..Len(runs)
      BY <1>5, LenProperties DEF TypeOK
    <2>2. CASE ExecComplete(r)
      BY <2>1, <2>2, ExecCompleteHistory
    <2>3. CASE ExecFail(r) \/ RetryRun(r)
      BY <1>1, <2>1, <2>3, ByStepSteady
    <2> QED BY <1>5, <2>2, <2>3
  <1>6. CASE Tick \/ MissTick \/ UNCHANGED vars
    BY <1>1, <1>6, ClockSteady
  <1> QED BY <1>2, <1>3, <1>4, <1>5, <1>6 DEF Next

LEMMA HistoryAlways == Spec => [](TypeOK /\ History)
  <1>1. TypeOK /\ History /\ [Next]_vars => (TypeOK /\ History)'
    BY StepHistory
  <1> QED BY InitHistory, <1>1, PTL DEF Spec

(***************************************************************************)
(* Every state of the workflows, the runs and the scans is well typed; in  *)
(* particular intervals stay between their limits.                         *)
(***************************************************************************)
THEOREM SchedulerTypes == Spec => []TypeOK
  <1>1. TypeOK /\ History => TypeOK
    OBVIOUS
  <1> QED BY HistoryAlways, <1>1, PTL

(***************************************************************************)
(* enqueueDueScheduledWorkflows creates one run for a workflow and a slot, *)
(* however many scans overlap and whenever they die.                       *)
(***************************************************************************)
THEOREM SlotsAreUnique == Spec => []OneRunPerSlot
  <1>1. TypeOK /\ History => OneRunPerSlot
    BY LenProperties DEF TypeOK, History, Distinct, OneRunPerSlot
  <1> QED BY HistoryAlways, <1>1, PTL

(***************************************************************************)
(* A scheduled run begins a full interval after any completion before its  *)
(* scan: scheduleDue is decided on a snapshot, and stays right.            *)
(***************************************************************************)
THEOREM RunsAreSpaced == Spec => []RunsSpaced
  <1>1. TypeOK /\ History => RunsSpaced
    BY LenProperties DEF TypeOK, History, Spaced, RunsSpaced
  <1> QED BY HistoryAlways, <1>1, PTL

-----------------------------------------------------------------------------
(***************************************************************************)
(* NeverLate.  Prompt says what Patience means for the scans, the          *)
(* executions and lastRunAt: a workflow is due again an interval and       *)
(* Patience after its last run at the latest, and its key is free once the *)
(* slots that its runs are numbered by are over.  Counted says that every  *)
(* tick since then either has a scan under way that still has the          *)
(* workflow's row, or is one of those that were missed or broke off.       *)
(***************************************************************************)
Prompt ==
    /\ \A c \in Scanner :
          /\ scan[c].pc # "idle" => now <= scan[c].at + Patience
          /\ scan[c].pc = "enqueue" => runs[scan[c].run].at = scan[c].at
    /\ \A w \in Workflow :
          /\ since[w] <= now
          /\ w \notin Extra => wf[w].last <= since[w] + Patience
    /\ \A r \in 1..Len(runs) :
          /\ runs[r].at <= since[runs[r].wf]
          /\ runs[r].wf \notin Extra /\ runs[r].by # "nobody" /\ ~Gone(r)
                => now <= runs[r].at + Patience

RowOf(w) == [wf |-> w, every |-> Every(w)]
Serves(c, w, t) == scan[c].pc # "idle" /\ scan[c].at = t /\ RowOf(w) \in scan[c].rest
Due(w, t) ==
    /\ since[w] + Every(w) + Patience <= t
    /\ \A r \in DOMAIN runs : runs[r].wf = w => (runs[r].slot + 1) * Every(w) <= t
Unserved(w) == {t \in 0..now : /\ t % Minute = 0 /\ Due(w, t)
                               /\ t < now \/ ticked
                               /\ \A c \in Scanner : ~Serves(c, w, t)}
Counted == \A w \in Workflow \ Extra : On(w) => Cardinality(Unserved(w)) <= missed

Timely == TypeOK /\ History /\ Prompt

LEMMA TimeFacts ==
  ASSUME TypeOK
  PROVE  /\ Patience \in Nat /\ Minute \in Nat \ {0}
         /\ now \in Nat /\ missed \in Nat
         /\ Len(runs) \in Nat /\ DOMAIN runs = 1..Len(runs)
         /\ \A w \in Workflow : /\ since[w] \in Nat /\ wf[w].last \in Int
                                /\ Every(w) \in Nat \ {0}
         /\ \A c \in Scanner : scan[c].at \in Nat
         /\ \A r \in 1..Len(runs) : /\ runs[r].wf \in Workflow /\ runs[r].at \in Nat
                                    /\ runs[r].every \in Nat \ {0} /\ runs[r].slot \in Nat
  <1>1. \A w \in Workflow : Every(w) \in Nat \ {0}
    <2>1. \A w \in Workflow : Every(w) \in Interval
      BY IntervalTypes DEF Every, TypeOK, WfState
    <2>2. \A i \in Interval : i \in Nat \ {0}
      BY ConfigAssumption DEF Interval
    <2> QED BY <2>1, <2>2
  <1>2. now \in Nat /\ \A w \in Workflow : since[w] \in Nat
    BY DEF TypeOK, Time
  <1>3. \A c \in Scanner : scan[c].at \in Nat
    BY DEF TypeOK, ScanState, Time
  <1>4. \A x \in RunState : x.wf \in Workflow /\ x.at \in Nat /\ x.every \in Nat \ {0}
                            /\ x.slot \in Nat
    BY DEF RunState, Time, Interval
  <1>5. missed \in Nat /\ Len(runs) \in Nat /\ DOMAIN runs = 1..Len(runs)
    BY LenProperties DEF TypeOK
  <1> QED BY <1>1, <1>2, <1>3, <1>4, <1>5, TimeAssumption, RunFacts

-----------------------------------------------------------------------------
(***************************************************************************)
(* Prompt is inductive.  Most steps let no time pass, start no scan and    *)
(* insert no run; an execution that completes is in time, and lastRunAt    *)
(* with it.                                                                *)
(***************************************************************************)
InTime(r) == now <= runs[r].at + Patience

Swift ==
    /\ now' = now
    /\ Len(runs') = Len(runs)
    /\ \A w \in Workflow :
          /\ since[w] <= since'[w] /\ since'[w] <= now
          /\ w \notin Extra => wf'[w].last <= since'[w] + Patience
          /\ wf[w].st = "gone" => wf'[w].st = "gone"
    /\ \A c \in Scanner : scan'[c].pc # "idle" =>
          /\ scan[c].pc # "idle" /\ scan'[c].at = scan[c].at
          /\ scan'[c].pc = "enqueue" => scan[c].pc = "enqueue" /\ scan'[c].run = scan[c].run
    /\ \A r \in 1..Len(runs) :
          /\ runs'[r].wf = runs[r].wf /\ runs'[r].at = runs[r].at
          /\ runs'[r].by # "nobody" =>
                \/ runs[r].by # "nobody"
                \/ runs[r].wf \in Extra
                \/ InTime(r)

LEMMA SwiftPrompt ==
  ASSUME Timely, TypeOK', Swift
  PROVE  Prompt'
  <1>1. \A c \in Scanner :
           /\ scan'[c].pc # "idle" => now' <= scan'[c].at + Patience
           /\ scan'[c].pc = "enqueue" => runs'[scan'[c].run].at = scan'[c].at
    BY DEF Timely, History, Held, Prompt, Swift
  <1>2. \A w \in Workflow : /\ since'[w] <= now'
                            /\ w \notin Extra => wf'[w].last <= since'[w] + Patience
    BY DEF Swift
  <1>3. ASSUME NEW r \in 1..Len(runs) PROVE runs'[r].at <= since'[runs'[r].wf]
    <2>1. runs[r].at <= since[runs[r].wf] /\ since[runs[r].wf] <= since'[runs[r].wf]
      BY TimeFacts DEF Timely, Prompt, Swift
    <2>2. runs[r].wf \in Workflow /\ runs[r].at \in Nat
      BY TimeFacts DEF Timely
    <2>3. since'[runs[r].wf] \in Nat /\ since[runs[r].wf] \in Nat
      <3>1. since \in [Workflow -> Time] /\ since' \in [Workflow -> Time]
        BY DEF Timely, TypeOK
      <3> QED BY <2>2, <3>1 DEF Time
    <2> QED BY <2>1, <2>2, <2>3 DEF Swift
  <1>4. ASSUME NEW r \in 1..Len(runs),
               runs'[r].wf \notin Extra, runs'[r].by # "nobody", ~Gone(r)'
        PROVE  now' <= runs'[r].at + Patience
    <2>1. runs[r].wf \in Workflow /\ wf[runs[r].wf].st \in {"none", "live", "gone"}
      BY TimeFacts DEF Timely, TypeOK, WfState
    <2>2. wf[runs[r].wf].st # "none"
      BY DEF Timely, History, Past
    <2>3. ~Gone(r)
      BY <1>4, <2>1, <2>2 DEF Gone, Swift
    <2> QED BY <1>4, <2>3 DEF Timely, Prompt, Swift, InTime
  <1> QED BY <1>1, <1>2, <1>3, <1>4 DEF Prompt, Swift

\* What an edit, a scan, an execution and a tick that passes do to it.
LEMMA EditSwift == ASSUME Timely, NEW w \in Workflow, Edit(w) PROVE Swift
  <1>1. UNCHANGED <<now, runs, scan>>
    BY DEF Edit, CreateWorkflow, UpdateWorkflow, ArchiveWorkflow, RestoreWorkflow, Edited,
           DeleteRead, DeleteWrite, clock
  <1>2. \/ UNCHANGED since
        \/ since' = [since EXCEPT ![w] = now]
    BY DEF Edit, CreateWorkflow, UpdateWorkflow, ArchiveWorkflow, RestoreWorkflow, Edited,
           DeleteRead, DeleteWrite
  <1>3. \A v \in Workflow : /\ since[v] <= since'[v] /\ since'[v] <= now
                            /\ since[v] \in Nat /\ since'[v] \in Nat
    <2>1. \A v \in Workflow : since[v] \in Nat /\ since[v] <= now
      BY TimeFacts DEF Timely, Prompt
    <2>2. now \in Nat
      BY TimeFacts DEF Timely
    <2>3. \A v \in Workflow : since'[v] = since[v] \/ since'[v] = now
      BY <1>2 DEF Timely, TypeOK
    <2> QED BY <2>1, <2>2, <2>3
  <1>4. \A v \in Workflow : /\ wf'[v].last = wf[v].last \/ wf'[v].last = Never
                            /\ wf[v].st = "gone" => wf'[v].st = "gone"
    <2>1. \A v \in Workflow \ {w} : wf'[v] = wf[v]
      BY DEF Edit, CreateWorkflow, UpdateWorkflow, ArchiveWorkflow, RestoreWorkflow,
             DeleteRead, DeleteWrite, Timely, TypeOK
    <2>2. wf[w] \in WfState
      BY DEF Timely, TypeOK
    <2>3. ASSUME NEW a \in BOOLEAN, NEW c \in Config, CreateWorkflow(w, a, c)
          PROVE  wf'[w].last = Never /\ wf[w].st # "gone"
      BY <2>3 DEF CreateWorkflow, New, Timely, TypeOK
    <2>4. ASSUME NEW a \in BOOLEAN, NEW c \in Config, UpdateWorkflow(w, a, c)
          PROVE  wf'[w].last = wf[w].last /\ wf[w].st # "gone"
      BY <2>2, <2>4 DEF UpdateWorkflow, Timely, TypeOK, WfState
    <2>5. CASE ArchiveWorkflow(w) \/ RestoreWorkflow(w)
      BY <2>1, <2>2, <2>5 DEF ArchiveWorkflow, RestoreWorkflow, Timely, TypeOK, WfState
    <2>6. CASE DeleteRead(w)
      BY <2>6 DEF DeleteRead
    <2>7. CASE DeleteWrite(w)
      BY <2>1, <2>2, <2>7 DEF DeleteWrite, Timely, TypeOK, WfState
    <2> QED BY <2>1, <2>3, <2>4, <2>5, <2>6, <2>7 DEF Edit
  <1>5. ASSUME NEW v \in Workflow, v \notin Extra
        PROVE  wf'[v].last <= since'[v] + Patience
    <2>1. wf[v].last <= since[v] + Patience
      BY <1>5 DEF Timely, Prompt
    <2>2. wf[v].last \in Int /\ Patience \in Nat
      BY TimeFacts DEF Timely
    <2>3. /\ since[v] <= since'[v] /\ since[v] \in Nat /\ since'[v] \in Nat
          /\ wf'[v].last = wf[v].last \/ wf'[v].last = Never
      BY <1>3, <1>4
    <2> QED BY <2>1, <2>2, <2>3 DEF Never
  <1> QED BY <1>1, <1>3, <1>4, <1>5 DEF Swift

\* Steps that leave the rows of the workflows and since alone.
LEMMA SwiftElse ==
  ASSUME Timely, UNCHANGED <<wf, since, now>>, Steady,
         \A c \in Scanner : scan'[c].pc # "idle" =>
            /\ scan[c].pc # "idle" /\ scan'[c].at = scan[c].at
            /\ scan'[c].pc = "enqueue" => scan[c].pc = "enqueue" /\ scan'[c].run = scan[c].run,
         \A r \in 1..Len(runs) : runs'[r].by # "nobody" =>
            \/ runs[r].by # "nobody"
            \/ runs[r].wf \in Extra
            \/ InTime(r)
  PROVE  Swift
  <1>1. \A w \in Workflow : since[w] <= since'[w] /\ since'[w] <= now
    BY TimeFacts DEF Timely, Prompt
  <1> QED BY <1>1 DEF Swift, Steady, Timely, Prompt

\* A write to who executes a run.
LEMMA ByWritten ==
  ASSUME Timely, NEW r \in 1..Len(runs), NEW b, runs' = [runs EXCEPT ![r].by = b]
  PROVE  \A q \in 1..Len(runs) : runs'[q].by = IF q = r THEN b ELSE runs[q].by
  <1>1. DOMAIN runs = 1..Len(runs) /\ runs[r] \in RunState
    BY TimeFacts DEF Timely, TypeOK
  <1> QED BY <1>1 DEF RunState

\* A scan under way: a row is taken from it, the run in its hands is given to
\* the workers or to itself, it ends.
LEMMA ScanOtherSwift ==
  ASSUME Timely, NEW c \in Scanner, ScanOther(c)
  PROVE  Swift
  <1>1. UNCHANGED <<now, wf, since>>
    BY DEF ScanOther, RefuseRun, SkipRow, ScanEnqueue, ScanReturn, ScanEnd, ScanFails,
           clock, rows
  <1>2. Steady
    BY ScanOtherSteady DEF Timely
  <1>3. scan[c] \in ScanState
    BY DEF Timely, TypeOK
  <1>4. \/ scan' = [scan EXCEPT ![c] = NoScan]
        \/ \E row : scan' = [scan EXCEPT ![c].rest = @ \ {row}]
        \/ scan' = [scan EXCEPT ![c].pc = "loop", ![c].run = 0] /\ scan[c].pc # "idle"
        \/ scan' = [scan EXCEPT ![c].pc = "inline"] /\ scan[c].pc # "idle"
    BY DEF ScanOther, RefuseRun, SkipRow, ScanEnqueue, ScanReturn, ScanEnd, ScanFails, BreakOff
  <1>5. ASSUME NEW d \in Scanner, scan'[d].pc # "idle"
        PROVE  /\ scan[d].pc # "idle" /\ scan'[d].at = scan[d].at
               /\ scan'[d].pc = "enqueue" => scan[d].pc = "enqueue" /\ scan'[d].run = scan[d].run
    <2>1. CASE d # c
      BY <1>4, <1>5, <2>1 DEF Timely, TypeOK
    <2>2. CASE d = c
      BY <1>3, <1>4, <1>5, <2>2 DEF Timely, TypeOK, ScanState, NoScan
    <2> QED BY <2>1, <2>2
  <1>6. ASSUME NEW r \in 1..Len(runs), runs'[r].by # "nobody", runs[r].by = "nobody"
        PROVE  InTime(r)
    <2>1. PICK s \in 1..Len(runs) :
            /\ \E b : runs' = [runs EXCEPT ![s].by = b]
            /\ s = scan[c].run /\ scan[c].pc \in {"enqueue", "inline"}
            /\ scan[c].pc = "inline" => runs' = [runs EXCEPT ![s].by = "nobody"]
      <3>1. /\ \E b : runs' = [runs EXCEPT ![scan[c].run].by = b]
            /\ scan[c].pc \in {"enqueue", "inline"}
            /\ scan[c].pc = "inline" => runs' = [runs EXCEPT ![scan[c].run].by = "nobody"]
        <4>1. runs' # runs
          BY <1>6
        <4> QED BY <4>1 DEF ScanOther, RefuseRun, SkipRow, ScanEnqueue, ScanReturn, ScanEnd,
                            ScanFails
      <3> QED BY <3>1 DEF Timely, History, Held
    <2>2. PICK b : runs' = [runs EXCEPT ![s].by = b]
      BY <2>1
    <2>3. r = s
      BY <1>6, <2>2, ByWritten
    <2>4. scan[c].pc # "inline"
      <3>1. ASSUME runs' = [runs EXCEPT ![s].by = "nobody"] PROVE FALSE
        BY <1>6, <2>3, <3>1, ByWritten
      <3> QED BY <2>1, <3>1
    <2> QED BY <2>1, <2>3, <2>4 DEF Timely, Prompt, InTime
  <1> QED BY <1>1, <1>2, <1>5, <1>6, SwiftElse

LEMMA ByStepSwift ==
  ASSUME Timely, NEW r \in 1..Len(runs), ExecFail(r) \/ RetryRun(r)
  PROVE  Swift
  <1>1. UNCHANGED <<now, wf, since, scan>> /\ Steady
    BY ByStepSteady DEF ExecFail, RetryRun, clock, rows, Timely
  <1>2. \A q \in 1..Len(runs) : runs'[q].by # "nobody" =>
           runs[q].by # "nobody" \/ runs[q].wf \in Extra
    BY ByWritten DEF ExecFail, RetryRun
  <1> QED BY <1>1, <1>2, SwiftElse

LEMMA OtherRunSwift ==
  ASSUME Timely, NEW w \in Workflow, OtherRunCompletes(w)
  PROVE  Swift
  <1>1. UNCHANGED <<now, since, scan, runs>>
    BY DEF OtherRunCompletes, clock
  <1>2. \A v \in Workflow : /\ v \notin Extra => wf'[v] = wf[v]
                            /\ wf[v].st = "gone" => wf'[v] = wf[v]
    BY DEF OtherRunCompletes, Timely, TypeOK
  <1>3. \A v \in Workflow : since[v] <= since'[v] /\ since'[v] <= now
    BY <1>1, TimeFacts DEF Timely, Prompt
  <1> QED BY <1>1, <1>2, <1>3 DEF Swift, Timely, Prompt

\* The run that completes was in somebody's hands.
LEMMA ExecCompleteSwift ==
  ASSUME Timely, NEW r \in 1..Len(runs), ExecComplete(r)
  PROVE  Swift
  <1>1. UNCHANGED <<now, since, scan>>
    BY DEF ExecComplete, clock
  <1>2. runs[r] \in RunState /\ runs[r].wf \in Workflow
    BY RunFacts DEF Timely
  <1>3. /\ Len(runs') = Len(runs)
        /\ \A q \in 1..Len(runs) :
              /\ runs'[q].wf = runs[q].wf /\ runs'[q].at = runs[q].at
              /\ runs'[q].by # "nobody" => runs[q].by # "nobody"
    <2>1. PICK n : runs' = [runs EXCEPT ![r] = n] /\ n = [runs[r] EXCEPT !.by = "nobody", !.done = now]
      BY DEF ExecComplete
    <2>2. n \in RunState /\ n.wf = runs[r].wf /\ n.at = runs[r].at /\ n.by = "nobody"
      BY <1>2, <2>1, RunFacts DEF RunState, Timely
    <2> QED BY <2>1, <2>2, RunWrite DEF Timely
  <1>4. wf[runs[r].wf] \in WfState
    BY <1>2 DEF Timely, TypeOK
  <1>5. \A v \in Workflow :
           /\ wf'[v].st = wf[v].st
           /\ wf'[v].last = IF v = runs[r].wf THEN now ELSE wf[v].last
    BY <1>2, <1>4 DEF ExecComplete, Timely, TypeOK, WfState
  <1>6. runs[r].wf \notin Extra => now <= since[runs[r].wf] + Patience
    <2>1. runs[r].wf \notin Extra => now <= runs[r].at + Patience
      BY DEF ExecComplete, Timely, Prompt
    <2>2. runs[r].at <= since[runs[r].wf]
      BY DEF Timely, Prompt
    <2>3. /\ now \in Nat /\ runs[r].at \in Nat /\ since[runs[r].wf] \in Nat
          /\ Patience \in Nat
      BY <1>2, TimeFacts DEF Timely
    <2> QED BY <2>1, <2>2, <2>3
  <1>7. \A v \in Workflow : since[v] <= since'[v] /\ since'[v] <= now
    BY <1>1, TimeFacts DEF Timely, Prompt
  <1> QED BY <1>1, <1>3, <1>5, <1>6, <1>7 DEF Swift, Timely, Prompt

\* Time passes only while nothing is overdue; a scan begins now; a run is
\* inserted with the clock of its scan.
LEMMA TickPrompt == ASSUME Timely, TypeOK', Tick PROVE Prompt'
  <1>1. /\ now' = now + 1 /\ UNCHANGED <<wf, runs, scan, since>>
        /\ \A c \in Scanner : scan[c].pc # "idle" => now < scan[c].at + Patience
        /\ \A r \in 1..Len(runs) :
              runs[r].by # "nobody" /\ ~Gone(r) /\ runs[r].wf \notin Extra
                 => now < runs[r].at + Patience
    BY TimeFacts DEF Tick, rows, Timely
  <1>2. /\ now \in Nat /\ Patience \in Nat
        /\ \A c \in Scanner : scan[c].at \in Nat
        /\ \A r \in 1..Len(runs) : runs[r].at \in Nat
        /\ \A w \in Workflow : since[w] \in Nat
    BY TimeFacts DEF Timely
  <1>3. \A c \in Scanner :
          /\ scan[c].pc # "idle" => now' <= scan[c].at + Patience
          /\ scan[c].pc = "enqueue" => runs[scan[c].run].at = scan[c].at
    BY <1>1, <1>2 DEF Timely, Prompt
  <1>4. \A w \in Workflow : /\ since[w] <= now'
                            /\ w \notin Extra => wf[w].last <= since[w] + Patience
    BY <1>1, <1>2 DEF Timely, Prompt
  <1>5. \A r \in 1..Len(runs) :
          /\ runs[r].at <= since[runs[r].wf]
          /\ runs[r].wf \notin Extra /\ runs[r].by # "nobody" /\ ~Gone(r)
                => now' <= runs[r].at + Patience
    BY <1>1, <1>2 DEF Timely, Prompt
  <1> QED BY <1>1, <1>3, <1>4, <1>5 DEF Prompt, Gone

LEMMA ScanStartPrompt ==
  ASSUME Timely, TypeOK', NEW c \in Scanner, ScanStart(c)
  PROVE  Prompt'
  <1>1. /\ UNCHANGED <<now, wf, runs, since>>
        /\ \A d \in Scanner : d # c => scan'[d] = scan[d]
        /\ scan'[c].pc = "loop" /\ scan'[c].at = now
    BY DEF ScanStart, rows, Timely, TypeOK
  <1>2. now \in Nat /\ Patience \in Nat
    BY TimeFacts DEF Timely
  <1> QED BY <1>1, <1>2 DEF Timely, Prompt, Gone

LEMMA InsertRunPrompt ==
  ASSUME Timely, TypeOK', NEW c \in Scanner, NEW row \in scan[c].rest,
         scan[c].pc = "loop", InsertRun(c, row)
  PROVE  Prompt'
  <1>1. row.wf \in Workflow /\ scan[c] \in ScanState /\ scan[c].at <= now
    BY RunFacts DEF Row, Timely, TypeOK, History, Held
  <1>2. /\ UNCHANGED <<now, wf>>
        /\ since' = [since EXCEPT ![row.wf] = now]
        /\ \A d \in Scanner : d # c => scan'[d] = scan[d]
        /\ scan'[c].pc = "enqueue" /\ scan'[c].at = scan[c].at
        /\ scan'[c].run = Len(runs) + 1
    BY <1>1 DEF InsertRun, clock, rows, Timely, TypeOK, ScanState
  <1>3. PICK n : /\ runs' = Append(runs, n)
                 /\ n.wf = row.wf /\ n.at = scan[c].at /\ n.by = "nobody"
    BY DEF InsertRun
  <1>4. /\ Len(runs) \in Nat /\ Len(runs') = Len(runs) + 1
        /\ \A r \in 1..Len(runs) : runs'[r] = runs[r]
        /\ runs'[Len(runs) + 1] = n
    BY <1>3, AppendProperties, LenProperties DEF Timely, TypeOK
  <1>5. \A r \in 1..Len(runs') : r \in 1..Len(runs) \/ r = Len(runs) + 1
    BY <1>4
  <1>6. /\ now \in Nat /\ Patience \in Nat
        /\ \A w \in Workflow : since[w] \in Nat /\ wf[w].last \in Int
        /\ \A r \in 1..Len(runs) : runs[r].at \in Nat /\ runs[r].wf \in Workflow
    BY TimeFacts DEF Timely
  <1>7. \A w \in Workflow : /\ since'[w] = IF w = row.wf THEN now ELSE since[w]
                            /\ since[w] <= now
    BY <1>2 DEF Timely, TypeOK, Prompt
  <1>8. ASSUME NEW d \in Scanner
        PROVE  /\ scan'[d].pc # "idle" => now' <= scan'[d].at + Patience
               /\ scan'[d].pc = "enqueue" => runs'[scan'[d].run].at = scan'[d].at
    <2>1. CASE d = c
      BY <1>2, <1>3, <1>4, <2>1 DEF Timely, Prompt
    <2>2. CASE d # c
      <3>1. scan[d].pc = "enqueue" => scan[d].run \in 1..Len(runs)
        BY DEF Timely, History, Held
      <3> QED BY <1>2, <1>4, <2>2, <3>1 DEF Timely, Prompt
    <2> QED BY <2>1, <2>2
  <1>9. ASSUME NEW w \in Workflow
        PROVE  /\ since'[w] <= now'
               /\ w \notin Extra => wf'[w].last <= since'[w] + Patience
    <2>1. w \notin Extra => wf[w].last <= since[w] + Patience
      BY DEF Timely, Prompt
    <2> QED BY <1>2, <1>6, <1>7, <2>1
  <1>10. ASSUME NEW r \in 1..Len(runs')
         PROVE  /\ runs'[r].at <= since'[runs'[r].wf]
                /\ runs'[r].wf \notin Extra /\ runs'[r].by # "nobody" /\ ~Gone(r)'
                      => now' <= runs'[r].at + Patience
    <2>1. CASE r = Len(runs) + 1
      BY <1>1, <1>3, <1>4, <1>7, <2>1
    <2>2. CASE r \in 1..Len(runs)
      <3>1. runs[r].at <= since[runs[r].wf] /\ since[runs[r].wf] <= since'[runs[r].wf]
        BY <1>6, <1>7, <2>2 DEF Timely, Prompt
      <3>2. runs[r].at <= since'[runs[r].wf]
        BY <1>6, <1>7, <2>2, <3>1
      <3>3. Gone(r)' <=> Gone(r)
        BY <1>2, <1>4, <2>2 DEF Gone
      <3> QED BY <1>2, <1>4, <2>2, <3>2, <3>3 DEF Timely, Prompt
    <2> QED BY <1>5, <2>1, <2>2
  <1> QED BY <1>8, <1>9, <1>10 DEF Prompt

LEMMA MissTickSwift == ASSUME Timely, MissTick \/ UNCHANGED vars PROVE Swift
  <1>1. UNCHANGED <<now, wf, runs, scan, since>>
    BY DEF MissTick, rows, vars
  <1> QED BY <1>1, UnchangedSteady, SwiftElse DEF Timely

LEMMA StepPrompt ==
  ASSUME Timely, [Next]_vars
  PROVE  Timely'
  <1>1. TypeOK' /\ History'
    BY StepHistory DEF Timely
  <1> SUFFICES Prompt'
    BY <1>1 DEF Timely
  <1>2. ASSUME Swift PROVE Prompt'
    BY <1>1, <1>2, SwiftPrompt
  <1>3. CASE \E w \in Workflow : Edit(w) \/ OtherRunCompletes(w)
    BY <1>2, <1>3, EditSwift, OtherRunSwift
  <1>4. ASSUME NEW c \in Scanner, Scan(c) PROVE Prompt'
    <2>1. CASE ScanStart(c)
      BY <1>1, <2>1, ScanStartPrompt
    <2>2. CASE scan[c].pc = "loop" /\ \E row \in scan[c].rest : InsertRun(c, row)
      BY <1>1, <2>2, InsertRunPrompt
    <2>3. CASE ScanOther(c)
      BY <1>2, <2>3, ScanOtherSwift
    <2> QED BY <1>4, <2>1, <2>2, <2>3 DEF Scan, ScanRow, ScanOther
  <1>5. ASSUME NEW r \in DOMAIN runs, ExecComplete(r) \/ ExecFail(r) \/ RetryRun(r)
        PROVE  Prompt'
    <2>1. r \in 1..Len(runs)
      BY <1>5, LenProperties DEF Timely, TypeOK
    <2> QED BY <1>2, <1>5, <2>1, ExecCompleteSwift, ByStepSwift
  <1>6. CASE Tick
    BY <1>1, <1>6, TickPrompt
  <1>7. CASE MissTick \/ UNCHANGED vars
    BY <1>2, <1>7, MissTickSwift
  <1> QED BY <1>3, <1>4, <1>5, <1>6, <1>7 DEF Next

-----------------------------------------------------------------------------
(***************************************************************************)
(* Counted is inductive.  A set of ticks grows by one at most.             *)
(***************************************************************************)
LEMMA OneMore ==
  ASSUME NEW S, NEW T, NEW x, IsFiniteSet(S), T \subseteq S \cup {x}
  PROVE  /\ Cardinality(S) \in Nat /\ Cardinality(T) \in Nat
         /\ Cardinality(T) <= Cardinality(S) + 1
  <1>1. /\ IsFiniteSet(S \cup {x})
        /\ Cardinality(S \cup {x}) = Cardinality(S) \/ Cardinality(S \cup {x}) = Cardinality(S) + 1
    BY FS_AddElement
  <1>2. IsFiniteSet(T) /\ Cardinality(T) <= Cardinality(S \cup {x})
    BY <1>1, FS_Subset
  <1> QED BY <1>1, <1>2, FS_CardinalityType

LEMMA UnservedFinite ==
  ASSUME TypeOK, NEW w
  PROVE  IsFiniteSet(Unserved(w))
  <1>1. IsFiniteSet(0..now)
    BY TimeFacts, FS_Interval
  <1> QED BY <1>1, FS_Subset DEF Unserved

\* The interval of a workflow and whether it is on are as they were, and so
\* are its runs, or there are more of them.
Same(w) ==
    /\ since'[w] = since[w] /\ Every(w)' = Every(w)
    /\ On(w)' => On(w)
    /\ \A t \in Nat : Due(w, t)' => Due(w, t)

LEMMA CountKept ==
  ASSUME TypeOK, TypeOK', Counted, NEW w \in Workflow \ Extra, Same(w),
         \/ Unserved(w)' \subseteq Unserved(w) /\ missed' = missed
         \/ \E x : Unserved(w)' \subseteq Unserved(w) \cup {x} /\ missed' = missed + 1
  PROVE  On(w)' => Cardinality(Unserved(w)') <= missed'
  <1> SUFFICES ASSUME On(w)' PROVE Cardinality(Unserved(w)') <= missed'
    OBVIOUS
  <1>1. IsFiniteSet(Unserved(w)) /\ missed \in Nat
    BY UnservedFinite, TimeFacts
  <1>2. Cardinality(Unserved(w)) <= missed
    BY DEF Counted, Same
  <1>3. CASE Unserved(w)' \subseteq Unserved(w) /\ missed' = missed
    <2>1. /\ Cardinality(Unserved(w)') <= Cardinality(Unserved(w))
          /\ IsFiniteSet(Unserved(w)')
      BY <1>1, <1>3, FS_Subset
    <2>2. Cardinality(Unserved(w)') \in Nat /\ Cardinality(Unserved(w)) \in Nat
      BY <1>1, <2>1, FS_CardinalityType
    <2> QED BY <1>1, <1>2, <1>3, <2>1, <2>2
  <1>4. ASSUME NEW x, Unserved(w)' \subseteq Unserved(w) \cup {x}, missed' = missed + 1
        PROVE  Cardinality(Unserved(w)') <= missed'
    <2>1. PICK T : T = Unserved(w)'
      OBVIOUS
    <2>2. PICK S : S = Unserved(w)
      OBVIOUS
    <2>3. /\ Cardinality(S) \in Nat /\ Cardinality(T) \in Nat
          /\ Cardinality(T) <= Cardinality(S) + 1
      BY <1>1, <1>4, <2>1, <2>2, OneMore
    <2> QED BY <1>1, <1>2, <1>4, <2>1, <2>2, <2>3
  <1> QED BY <1>3, <1>4

\* A workflow that was just edited or given a run is not due.
LEMMA CountReset ==
  ASSUME TypeOK', NEW w \in Workflow, since'[w] = now'
  PROVE  Cardinality(Unserved(w)') <= missed'
  <1>1. /\ now' \in Nat /\ missed' \in Nat /\ Patience \in Nat
        /\ Every(w)' \in Nat \ {0}
    <2>1. now' \in Nat /\ missed' \in Nat /\ Patience \in Nat
      BY TimeAssumption DEF TypeOK, Time
    <2>2. Every(w)' \in Interval
      BY IntervalTypes DEF Every, TypeOK, WfState
    <2> QED BY <2>1, <2>2, ConfigAssumption DEF Interval
  <1>2. Unserved(w)' = {}
    BY <1>1 DEF Unserved, Due
  <1> QED BY <1>1, <1>2, FS_EmptySet

\* Its interval and its runs decide whether a number was used.
LEMMA SameWhen ==
  ASSUME TypeOK, NEW w \in Workflow, since'[w] = since[w],
         On(w)' => On(w), Every(w)' = Every(w),
         \A r \in DOMAIN runs : /\ r \in DOMAIN runs'
                                /\ runs'[r].wf = runs[r].wf /\ runs'[r].every = runs[r].every
                                /\ runs'[r].slot = runs[r].slot
  PROVE  Same(w)
  <1>1. Every(w)' = Every(w)
    OBVIOUS
  <1>2. ASSUME NEW t \in Nat, Due(w, t)' PROVE Due(w, t)
    <2>1. ASSUME NEW r \in DOMAIN runs, runs[r].wf = w
          PROVE  (runs[r].slot + 1) * Every(w) <= t
      BY <1>1, <1>2, <2>1 DEF Due
    <2> QED BY <1>1, <1>2, <2>1 DEF Due
  <1> QED BY <1>2 DEF Same

\* A tick that a scan serves stays served.
Serving(w) == \A c \in Scanner, t \in Nat :
    Due(w, t) /\ Serves(c, w, t) => Serves(c, w, t)'

LEMMA StillServed ==
  ASSUME TypeOK, NEW w \in Workflow, Same(w), Serving(w), UNCHANGED <<now, ticked>>
  PROVE  Unserved(w)' \subseteq Unserved(w)
  <1> SUFFICES ASSUME NEW t \in Unserved(w)' PROVE t \in Unserved(w)
    OBVIOUS
  <1>1. /\ t \in 0..now /\ t % Minute = 0 /\ Due(w, t)
        /\ t < now \/ ticked
        /\ \A c \in Scanner : ~Serves(c, w, t)'
    BY DEF Unserved, Same
  <1>2. t \in Nat
    BY <1>1
  <1> QED BY <1>1, <1>2 DEF Unserved, Serving

LEMMA SameSteady ==
  ASSUME TypeOK, TypeOK', NEW w \in Workflow, Steady, since'[w] = since[w], wf'[w] = wf[w]
  PROVE  Same(w)
  <1>1. DOMAIN runs = 1..Len(runs) /\ DOMAIN runs' = 1..Len(runs)
    BY LenProperties DEF TypeOK, Steady
  <1>2. /\ On(w)' <=> On(w)
        /\ Every(w)' = Every(w)
    BY DEF On, Every
  <1> QED BY <1>1, <1>2, SameWhen DEF Steady

\* The key of a scan that comes when the workflow is due is free.
LEMMA LaterSlot ==
  ASSUME NEW s \in Nat, NEW t \in Nat, NEW e \in Nat \ {0}, (s + 1) * e <= t
  PROVE  t \div e # s
  OBVIOUS

LEMMA KeyIsFree ==
  ASSUME Timely, NEW w \in Workflow, NEW t \in Nat, Due(w, t)
  PROVE  ~SlotTaken(w, t \div Every(w))
  <1> SUFFICES ASSUME NEW r \in 1..Len(runs), runs[r].wf = w,
                      runs[r].slot = t \div Every(w)
               PROVE  FALSE
    BY TimeFacts DEF SlotTaken, Timely
  <1>1. Every(w) \in Nat \ {0} /\ runs[r].slot \in Nat /\ DOMAIN runs = 1..Len(runs)
    BY TimeFacts DEF Timely
  <1>2. (runs[r].slot + 1) * Every(w) <= t
    BY <1>1 DEF Due
  <1> QED BY <1>1, <1>2, LaterSlot

\* A scan that breaks off leaves its own tick unserved.
LEMMA BreakOffCounted ==
  ASSUME Timely, TypeOK', Counted, NEW c \in Scanner, BreakOff(c), Steady,
         UNCHANGED <<now, ticked, wf, since>>
  PROVE  Counted'
  <1> SUFFICES ASSUME NEW w \in Workflow \ Extra
               PROVE  On(w)' => Cardinality(Unserved(w)') <= missed'
    BY DEF Counted
  <1>1. Same(w)
    BY SameSteady DEF Timely
  <1>2. \A d \in Scanner : d # c => scan'[d] = scan[d]
    BY DEF BreakOff, Timely, TypeOK
  <1>3. ASSUME NEW t \in Unserved(w)', t # scan[c].at PROVE t \in Unserved(w)
    <2>1. /\ t \in 0..now /\ t % Minute = 0 /\ Due(w, t)
          /\ t < now \/ ticked
          /\ \A d \in Scanner : ~Serves(d, w, t)'
      BY <1>1 DEF Unserved, Same
    <2>2. \A d \in Scanner : ~Serves(d, w, t)
      <3>1. Every(w)' = Every(w)
        BY <1>1 DEF Same
      <3>2. ASSUME NEW d \in Scanner, Serves(d, w, t) PROVE FALSE
        <4>1. d # c
          BY <1>3, <3>2 DEF Serves
        <4> QED BY <1>2, <2>1, <3>1, <3>2, <4>1 DEF Serves, RowOf
      <3> QED BY <3>2
    <2> QED BY <2>1, <2>2 DEF Unserved
  <1>4. Unserved(w)' \subseteq Unserved(w) \cup {scan[c].at}
    BY <1>3
  <1>5. missed' = missed + 1
    BY DEF BreakOff
  <1> QED BY <1>1, <1>4, <1>5, CountKept DEF Timely

\* A scan that goes on keeps its clock, and the row of a workflow that is due.
LEMMA GoesOnCounted ==
  ASSUME Timely, TypeOK', Counted, Steady, UNCHANGED <<now, ticked, wf, since, missed>>,
         NEW c \in Scanner,
         \A d \in Scanner : d # c => scan'[d] = scan[d],
         \/ /\ scan'[c].pc # "idle" /\ scan'[c].at = scan[c].at
            /\ scan'[c].rest = scan[c].rest
         \/ \E row \in scan[c].rest :
               /\ SlotTaken(row.wf, Slot(c, row))
               /\ scan'[c].pc = scan[c].pc /\ scan'[c].at = scan[c].at
               /\ scan'[c].rest = scan[c].rest \ {row}
         \/ scan[c].rest = {}
         \/ scan[c].pc = "idle"
  PROVE  Counted'
  <1> SUFFICES ASSUME NEW w \in Workflow \ Extra, On(w)'
               PROVE  Cardinality(Unserved(w)') <= missed'
    BY DEF Counted
  <1>1. Same(w) /\ Every(w)' = Every(w) /\ On(w)
    BY SameSteady DEF Timely, Same
  <1>2. Serving(w)
    <2> SUFFICES ASSUME NEW d \in Scanner, NEW t \in Nat, Due(w, t), Serves(d, w, t)
                 PROVE  Serves(d, w, t)'
      BY DEF Serving
    <2>1. CASE d # c
      BY <1>1, <2>1 DEF Serves, RowOf
    <2>2. ASSUME d = c, NEW row \in scan[c].rest, SlotTaken(row.wf, Slot(c, row))
          PROVE  row # RowOf(w)
      <3> SUFFICES ASSUME row = RowOf(w) PROVE FALSE
        OBVIOUS
      <3>1. SlotTaken(w, t \div Every(w))
        BY <2>2 DEF RowOf, Slot, Serves
      <3> QED BY <1>1, <3>1, KeyIsFree
    <2>3. CASE d = c
      BY <1>1, <2>2, <2>3 DEF Serves, RowOf
    <2> QED BY <2>1, <2>3
  <1>3. Unserved(w)' \subseteq Unserved(w)
    BY <1>1, <1>2, StillServed DEF Timely
  <1> QED BY <1>1, <1>3, CountKept DEF Timely

LEMMA ScanOtherCounted ==
  ASSUME Timely, TypeOK', Counted, NEW c \in Scanner, ScanOther(c)
  PROVE  Counted'
  <1>1. UNCHANGED <<now, ticked, wf, since>>
    BY DEF ScanOther, RefuseRun, SkipRow, ScanEnqueue, ScanReturn, ScanEnd, ScanFails,
           clock, rows
  <1>2. Steady
    BY ScanOtherSteady DEF Timely
  <1>3. scan[c] \in ScanState
    BY DEF Timely, TypeOK
  <1>4. CASE BreakOff(c)
    BY <1>1, <1>2, <1>4, BreakOffCounted
  <1>5. CASE \E row \in scan[c].rest : SkipRow(c, row)
    <2>1. PICK row \in scan[c].rest : SkipRow(c, row)
      BY <1>5
    <2>2. /\ SlotTaken(row.wf, Slot(c, row)) /\ missed' = missed
          /\ \A d \in Scanner : d # c => scan'[d] = scan[d]
      BY <2>1 DEF SkipRow, Timely, TypeOK
    <2>3. /\ scan'[c].pc = scan[c].pc /\ scan'[c].at = scan[c].at
          /\ scan'[c].rest = scan[c].rest \ {row}
      BY <1>3, <2>1 DEF SkipRow, Timely, TypeOK, ScanState
    <2> QED BY <1>1, <1>2, <2>2, <2>3, GoesOnCounted
  <1>6. CASE /\ \/ scan' = [scan EXCEPT ![c].pc = "loop", ![c].run = 0]
                \/ scan' = [scan EXCEPT ![c].pc = "inline"]
             /\ missed' = missed
    <2>1. /\ scan'[c].pc # "idle" /\ scan'[c].at = scan[c].at
          /\ scan'[c].rest = scan[c].rest
          /\ \A d \in Scanner : d # c => scan'[d] = scan[d]
      BY <1>3, <1>6 DEF Timely, TypeOK, ScanState
    <2> QED BY <1>1, <1>2, <1>6, <2>1, GoesOnCounted
  <1>7. CASE ScanEnd(c)
    <2>1. /\ scan[c].rest = {} /\ missed' = missed
          /\ \A d \in Scanner : d # c => scan'[d] = scan[d]
      BY <1>7 DEF ScanEnd, Timely, TypeOK
    <2> QED BY <1>1, <1>2, <2>1, GoesOnCounted
  <1> QED
    BY <1>4, <1>5, <1>6, <1>7 DEF ScanOther, RefuseRun, ScanEnqueue, ScanReturn, ScanFails

\* A scan that begins finds every workflow that is due, and serves its tick.
LEMMA ScanStartCounted ==
  ASSUME Timely, TypeOK', Counted, NEW c \in Scanner, ScanStart(c)
  PROVE  Counted'
  <1> SUFFICES ASSUME NEW w \in Workflow \ Extra, On(w)'
               PROVE  Cardinality(Unserved(w)') <= missed'
    BY DEF Counted
  <1>1. /\ UNCHANGED <<now, wf, runs, since, missed>> /\ ticked' = TRUE
        /\ scan[c].pc = "idle"
        /\ \A d \in Scanner : d # c => scan'[d] = scan[d]
        /\ scan'[c].pc = "loop" /\ scan'[c].at = now
        /\ scan'[c].rest = {[wf |-> v, every |-> Every(v)] :
                              v \in {u \in Workflow : On(u) /\ ScheduleDue(u)}}
    BY DEF ScanStart, rows, Timely, TypeOK
  <1>2. Same(w) /\ Every(w)' = Every(w) /\ On(w)
    BY <1>1, SameSteady, UnchangedSteady DEF Timely, Same
  <1>3. ASSUME NEW t \in Unserved(w)' PROVE t \in Unserved(w)
    <2>1. /\ t \in 0..now /\ t % Minute = 0 /\ Due(w, t)
          /\ \A d \in Scanner : ~Serves(d, w, t)'
      BY <1>1, <1>2 DEF Unserved, Same
    <2>2. \A d \in Scanner : ~Serves(d, w, t)
      BY <1>1, <1>2, <2>1 DEF Serves, RowOf
    <2>3. t # now
      <3> SUFFICES ASSUME t = now PROVE FALSE
        OBVIOUS
      <3>1. /\ now \in Nat /\ since[w] \in Nat /\ Every(w) \in Nat /\ Patience \in Nat
            /\ wf[w].last \in Int
        BY TimeFacts DEF Timely
      <3>2. wf[w].last <= since[w] + Patience
        BY DEF Timely, Prompt
      <3>3. ScheduleDue(w)
        BY <2>1, <3>1, <3>2 DEF ScheduleDue, Due
      <3>4. RowOf(w) \in scan'[c].rest
        BY <1>1, <1>2, <3>3 DEF RowOf
      <3>5. Serves(c, w, t)'
        BY <1>1, <1>2, <3>4 DEF Serves, RowOf
      <3> QED BY <2>1, <3>5
    <2>4. t < now
      <3>1. now \in Nat
        BY TimeFacts DEF Timely
      <3> QED BY <2>1, <2>3, <3>1
    <2> QED BY <2>1, <2>2, <2>4 DEF Unserved
  <1> QED BY <1>1, <1>2, <1>3, CountKept DEF Timely

LEMMA InsertRunCounted ==
  ASSUME Timely, TypeOK', Counted, NEW c \in Scanner, NEW row \in scan[c].rest,
         scan[c].pc = "loop", InsertRun(c, row)
  PROVE  Counted'
  <1> SUFFICES ASSUME NEW w \in Workflow \ Extra, On(w)'
               PROVE  Cardinality(Unserved(w)') <= missed'
    BY DEF Counted
  <1>1. row.wf \in Workflow /\ scan[c] \in ScanState
    BY RunFacts DEF Row, Timely, TypeOK
  <1>2. /\ UNCHANGED <<now, ticked, wf, missed>>
        /\ since' = [since EXCEPT ![row.wf] = now]
        /\ \A d \in Scanner : d # c => scan'[d] = scan[d]
        /\ scan'[c].pc = "enqueue" /\ scan'[c].at = scan[c].at
        /\ scan'[c].rest = scan[c].rest \ {row}
    BY <1>1 DEF InsertRun, clock, rows, Timely, TypeOK, ScanState
  <1>3. CASE row.wf = w
    <2>1. since'[w] = now'
      BY <1>2, <1>3 DEF Timely, TypeOK
    <2> QED BY <2>1, CountReset
  <1>4. CASE row.wf # w
    <2>1. since'[w] = since[w] /\ Every(w)' = Every(w) /\ (On(w)' => On(w))
      BY <1>2, <1>4 DEF Every, On
    <2>2. PICK n : runs' = Append(runs, n)
      BY DEF InsertRun
    <2>3. /\ DOMAIN runs = 1..Len(runs) /\ DOMAIN runs' = 1..(Len(runs) + 1)
          /\ Len(runs) \in Nat /\ \A r \in 1..Len(runs) : runs'[r] = runs[r]
      BY <2>2, AppendProperties, LenProperties DEF Timely, TypeOK
    <2>4. Same(w)
      BY <2>1, <2>3, SameWhen DEF Timely
    <2>5. row # RowOf(w)
      BY <1>4 DEF RowOf
    <2>6. Serving(w)
      BY <1>2, <2>1, <2>5 DEF Serving, Serves, RowOf
    <2>7. Unserved(w)' \subseteq Unserved(w)
      BY <1>2, <2>4, <2>6, StillServed DEF Timely
    <2> QED BY <1>2, <2>4, <2>7, CountKept DEF Timely
  <1> QED BY <1>3, <1>4

\* Steps of others: a workflow stays as it was, is edited, or is deleted.
LEMMA ElseCounted ==
  ASSUME Timely, TypeOK', Counted, UNCHANGED <<now, ticked, scan, missed>>,
         \A w \in Workflow : Same(w) \/ since'[w] = now' \/ ~On(w)'
  PROVE  Counted'
  <1> SUFFICES ASSUME NEW w \in Workflow \ Extra, On(w)'
               PROVE  Cardinality(Unserved(w)') <= missed'
    BY DEF Counted
  <1>1. CASE since'[w] = now'
    BY <1>1, CountReset
  <1>2. CASE Same(w)
    <2>1. Every(w)' = Every(w)
      BY <1>2 DEF Same
    <2>2. Serving(w)
      BY <2>1 DEF Serving, Serves, RowOf
    <2>3. Unserved(w)' \subseteq Unserved(w)
      BY <1>2, <2>2, StillServed DEF Timely
    <2> QED BY <1>2, <2>3, CountKept DEF Timely
  <1> QED BY <1>1, <1>2 DEF On

LEMMA EditCounted ==
  ASSUME Timely, TypeOK', Counted, NEW v \in Workflow, Edit(v)
  PROVE  Counted'
  <1>1. UNCHANGED <<now, ticked, scan, missed>> /\ Steady
    BY EditSteady DEF Edit, CreateWorkflow, UpdateWorkflow, ArchiveWorkflow, RestoreWorkflow,
                      Edited, DeleteRead, DeleteWrite, clock, Timely
  <1>2. CASE Edited(v)
    <2>1. \A w \in Workflow : w # v => wf'[w] = wf[w] /\ since'[w] = since[w]
      BY <1>2 DEF Edit, CreateWorkflow, UpdateWorkflow, ArchiveWorkflow, RestoreWorkflow,
                  Edited, DeleteRead, DeleteWrite, Timely, TypeOK
    <2>2. since'[v] = now'
      BY <1>1, <1>2 DEF Edited, Timely, TypeOK
    <2> QED BY <1>1, <2>1, <2>2, SameSteady, ElseCounted DEF Timely
  <1>3. CASE DeleteRead(v)
    BY <1>1, <1>3, SameSteady, ElseCounted DEF DeleteRead, Timely
  <1>4. CASE DeleteWrite(v)
    <2>1. \A w \in Workflow : w # v => wf'[w] = wf[w] /\ since'[w] = since[w]
      BY <1>4 DEF DeleteWrite, Timely, TypeOK
    <2>2. ~On(v)'
      BY <1>4 DEF DeleteWrite, On, Timely, TypeOK, WfState
    <2> QED BY <1>1, <2>1, <2>2, SameSteady, ElseCounted DEF Timely
  <1> QED BY <1>2, <1>3, <1>4
          DEF Edit, CreateWorkflow, UpdateWorkflow, ArchiveWorkflow, RestoreWorkflow

LEMMA OtherRunCounted ==
  ASSUME Timely, TypeOK', Counted, NEW v \in Workflow, OtherRunCompletes(v)
  PROVE  Counted'
  <1>1. UNCHANGED <<now, ticked, scan, missed, since, runs>> /\ Steady
    BY OtherRunSteady DEF OtherRunCompletes, clock, Timely
  <1>2. \A w \in Workflow : On(w)' = On(w) /\ Every(w)' = Every(w)
    BY DEF OtherRunCompletes, On, Every, Timely, TypeOK, WfState
  <1>3. \A w \in Workflow : Same(w)
    BY <1>1, <1>2, SameWhen DEF Timely
  <1> QED BY <1>1, <1>3, ElseCounted

LEMMA ExecutionCounted ==
  ASSUME Timely, TypeOK', Counted, NEW r \in 1..Len(runs),
         ExecComplete(r) \/ ExecFail(r) \/ RetryRun(r)
  PROVE  Counted'
  <1>1. UNCHANGED <<now, ticked, scan, missed, since>>
    BY DEF ExecComplete, ExecFail, RetryRun, clock, rows
  <1>2. \A w \in Workflow : On(w)' = On(w) /\ Every(w)' = Every(w)
    <2>1. UNCHANGED wf \/ wf' = [wf EXCEPT ![runs[r].wf].last = now]
      BY DEF ExecComplete, ExecFail, RetryRun, rows
    <2>2. \A w \in Workflow : /\ wf'[w].st = wf[w].st /\ wf'[w].active = wf[w].active
                              /\ wf'[w].archived = wf[w].archived
                              /\ wf'[w].config = wf[w].config
      <3>1. wf \in [Workflow -> WfState]
        BY DEF Timely, TypeOK
      <3>2. CASE UNCHANGED wf
        BY <3>2
      <3>3. ASSUME NEW v \in DOMAIN wf, wf' = [wf EXCEPT ![v].last = now]
            PROVE  \A w \in Workflow : /\ wf'[w].st = wf[w].st /\ wf'[w].active = wf[w].active
                                       /\ wf'[w].archived = wf[w].archived
                                       /\ wf'[w].config = wf[w].config
        <4>1. PICK x \in WfState : x = wf[v]
          BY <3>1, <3>3
        <4>2. PICK y : y = [x EXCEPT !.last = now] /\ wf' = [wf EXCEPT ![v] = y]
          BY <3>3, <4>1
        <4>3. /\ y.st = x.st /\ y.active = x.active
              /\ y.archived = x.archived /\ y.config = x.config
          BY <4>2 DEF WfState
        <4> QED BY <3>1, <4>1, <4>2, <4>3
      <3>4. runs[r].wf \in DOMAIN wf
        BY <3>1, TimeFacts DEF Timely
      <3> QED BY <2>1, <3>2, <3>3, <3>4
    <2> QED BY <2>2 DEF On, Every
  <1>3. /\ DOMAIN runs' = DOMAIN runs
        /\ \A q \in DOMAIN runs : /\ runs'[q].wf = runs[q].wf /\ runs'[q].slot = runs[q].slot
                                  /\ runs'[q].every = runs[q].every
    <2>1. PICK x \in RunState : x = runs[r]
      BY RunFacts DEF Timely
    <2>2. CASE ExecComplete(r)
      <3>1. PICK n : /\ n = [x EXCEPT !.by = "nobody", !.done = now]
                     /\ runs' = [runs EXCEPT ![r] = n]
        BY <2>1, <2>2 DEF ExecComplete
      <3>2. n.wf = x.wf /\ n.slot = x.slot /\ n.every = x.every
        BY <3>1 DEF RunState
      <3> QED BY <2>1, <3>1, <3>2
    <2>3. CASE ExecFail(r) \/ RetryRun(r)
      <3>1. PICK n, b : /\ n = [x EXCEPT !.by = b]
                        /\ runs' = [runs EXCEPT ![r] = n]
        BY <2>1, <2>3 DEF ExecFail, RetryRun
      <3>2. n.wf = x.wf /\ n.slot = x.slot /\ n.every = x.every
        BY <3>1 DEF RunState
      <3> QED BY <2>1, <3>1, <3>2
    <2> QED BY <2>2, <2>3
  <1>4. \A w \in Workflow : Same(w)
    BY <1>1, <1>2, <1>3, SameWhen DEF Timely
  <1> QED BY <1>1, <1>4, ElseCounted

\* Time passes a tick only when the cron has fired or missed it.
LEMMA TickCounted == ASSUME Timely, TypeOK', Counted, Tick PROVE Counted'
  <1> SUFFICES ASSUME NEW w \in Workflow \ Extra, On(w)'
               PROVE  Cardinality(Unserved(w)') <= missed'
    BY DEF Counted
  <1>1. /\ UNCHANGED <<wf, runs, scan, since, missed>>
        /\ now' = now + 1 /\ ticked' = FALSE
        /\ now % Minute = 0 => ticked
    BY DEF Tick, rows
  <1>2. Same(w) /\ Every(w)' = Every(w)
    BY <1>1, SameSteady, UnchangedSteady DEF Timely, Same
  <1>3. now \in Nat
    BY TimeFacts DEF Timely
  <1>4. ASSUME NEW t \in Unserved(w)' PROVE t \in Unserved(w)
    <2>0. t < now' \/ ticked'
      BY DEF Unserved
    <2>1. /\ t \in 0..(now + 1) /\ t % Minute = 0 /\ Due(w, t)
          /\ \A d \in Scanner : ~Serves(d, w, t)'
      BY <1>1, <1>2 DEF Unserved, Same
    <2>2. \A d \in Scanner : ~Serves(d, w, t)
      BY <1>1, <1>2, <2>1 DEF Serves, RowOf
    <2>3. t < now + 1
      BY <1>1, <2>0
    <2>4. t \in 0..now /\ (t < now \/ t = now)
      BY <1>3, <2>1, <2>3
    <2>5. t = now => ticked
      BY <1>1, <2>1
    <2> QED BY <2>1, <2>2, <2>4, <2>5 DEF Unserved
  <1> QED BY <1>1, <1>2, <1>4, CountKept DEF Timely

LEMMA MissTickCounted == ASSUME Timely, TypeOK', Counted, MissTick PROVE Counted'
  <1> SUFFICES ASSUME NEW w \in Workflow \ Extra, On(w)'
               PROVE  Cardinality(Unserved(w)') <= missed'
    BY DEF Counted
  <1>1. UNCHANGED <<now, wf, runs, scan, since>> /\ missed' = missed + 1
    BY DEF MissTick, rows
  <1>2. Same(w) /\ Every(w)' = Every(w)
    BY <1>1, SameSteady, UnchangedSteady DEF Timely, Same
  <1>3. now \in Nat
    BY TimeFacts DEF Timely
  <1>4. ASSUME NEW t \in Unserved(w)', t # now PROVE t \in Unserved(w)
    <2>1. /\ t \in 0..now /\ t % Minute = 0 /\ Due(w, t)
          /\ \A d \in Scanner : ~Serves(d, w, t)'
      BY <1>1, <1>2 DEF Unserved, Same
    <2>2. \A d \in Scanner : ~Serves(d, w, t)
      BY <1>1, <1>2, <2>1 DEF Serves, RowOf
    <2>3. t < now
      BY <1>3, <1>4, <2>1
    <2> QED BY <2>1, <2>2, <2>3 DEF Unserved
  <1>5. Unserved(w)' \subseteq Unserved(w) \cup {now}
    BY <1>4
  <1> QED BY <1>1, <1>2, <1>5, CountKept DEF Timely

LEMMA StepCounted ==
  ASSUME Timely, Counted, [Next]_vars
  PROVE  Counted'
  <1>1. TypeOK'
    BY StepHistory DEF Timely
  <1>2. CASE \E w \in Workflow : Edit(w) \/ OtherRunCompletes(w)
    BY <1>1, <1>2, EditCounted, OtherRunCounted
  <1>3. ASSUME NEW c \in Scanner, Scan(c) PROVE Counted'
    <2>1. CASE ScanStart(c)
      BY <1>1, <2>1, ScanStartCounted
    <2>2. CASE scan[c].pc = "loop" /\ \E row \in scan[c].rest : InsertRun(c, row)
      BY <1>1, <2>2, InsertRunCounted
    <2>3. CASE ScanOther(c)
      BY <1>1, <2>3, ScanOtherCounted
    <2> QED BY <1>3, <2>1, <2>2, <2>3 DEF Scan, ScanRow, ScanOther
  <1>4. ASSUME NEW r \in DOMAIN runs, ExecComplete(r) \/ ExecFail(r) \/ RetryRun(r)
        PROVE  Counted'
    <2>1. r \in 1..Len(runs)
      BY <1>4, LenProperties DEF Timely, TypeOK
    <2> QED BY <1>1, <1>4, <2>1, ExecutionCounted
  <1>5. CASE Tick
    BY <1>1, <1>5, TickCounted
  <1>6. CASE MissTick
    BY <1>1, <1>6, MissTickCounted
  <1>7. CASE UNCHANGED vars
    <2>1. \A w \in Workflow : Same(w)
      BY <1>1, <1>7, SameSteady, UnchangedSteady DEF vars, Timely
    <2> QED BY <1>1, <1>7, <2>1, ElseCounted DEF vars
  <1> QED BY <1>2, <1>3, <1>4, <1>5, <1>6, <1>7 DEF Next

-----------------------------------------------------------------------------
(***************************************************************************)
(* There are n + 1 ticks in n + 1 minutes, wherever they begin.            *)
(***************************************************************************)
LEMMA FirstTick ==
  ASSUME NEW d \in Nat, NEW m \in Nat \ {0}
  PROVE  \E k \in Nat : d <= k * m /\ k * m < d + m
  <1> DEFINE a == d + m - 1
             k == a \div m
  <1>0. a \in Nat
    OBVIOUS
  <1> HIDE DEF a
  <1>1. k \in Nat
    BY <1>0
  <1>2. k * m <= a /\ a < k * m + m
    BY <1>0
  <1> QED BY <1>0, <1>1, <1>2 DEF a

LEMMA Multiples ==
  ASSUME NEW m \in Nat \ {0}, NEW j \in Nat, NEW k \in Nat
  PROVE  /\ (k * m) % m = 0 /\ k * m \in Nat
         /\ k * m = j * m => k = j
         /\ j <= k => j * m <= k * m
         /\ \A n \in Nat : k <= j + n => k * m <= j * m + n * m
  OBVIOUS

LEMMA ManyTicks ==
  ASSUME NEW m \in Nat \ {0}, NEW d \in Nat, NEW n \in Nat, NEW S, IsFiniteSet(S),
         \A t \in Nat : d <= t /\ t < d + m * (1 + n) /\ t % m = 0 => t \in S
  PROVE  Cardinality(S) > n
  <1>1. PICK k \in Nat : d <= k * m /\ k * m < d + m
    BY FirstTick
  <1> DEFINE I == k..(k + n)
             T == {i * m : i \in I}
             g == [i \in I |-> i * m]
  <1>2. \A i \in I : i \in Nat /\ k <= i /\ i <= k + n
    OBVIOUS
  <1>3. T \subseteq S
    <2> SUFFICES ASSUME NEW i \in I PROVE i * m \in S
      OBVIOUS
    <2>1. /\ (i * m) % m = 0 /\ i * m \in Nat /\ k * m \in Nat
          /\ k * m <= i * m /\ i * m <= k * m + n * m
      BY <1>2, Multiples
    <2>2. d <= i * m
      BY <1>1, <2>1
    <2>3. n * m \in Nat /\ m * (1 + n) = m + n * m
      OBVIOUS
    <2>4. i * m < d + m * (1 + n)
      BY <1>1, <2>1, <2>3
    <2> QED BY <2>1, <2>2, <2>4
  <1>4. IsFiniteSet(I) /\ Cardinality(I) = n + 1
    BY FS_Interval
  <1>5. \E b : b \in Bijection(I, T)
    <2>1. g \in [I -> T]
      OBVIOUS
    <2>2. \A i, j \in I : g[i] = g[j] => i = j
      BY <1>2, Multiples
    <2>3. \A t \in T : \E i \in I : g[i] = t
      OBVIOUS
    <2> QED BY <2>1, <2>2, <2>3 DEF Bijection, Injection, Surjection, IsInjective
  <1> HIDE DEF I, T, g
  <1>6. IsFiniteSet(T) /\ Cardinality(T) = n + 1
    BY <1>4, <1>5, FS_Bijection DEF ExistsBijection
  <1>7. Cardinality(T) <= Cardinality(S) /\ Cardinality(S) \in Nat
    BY <1>3, FS_Subset, FS_CardinalityType
  <1> QED BY <1>6, <1>7

LEMMA Behind ==
  ASSUME NEW n \in Nat, NEW u \in Nat, NEW p \in Nat, NEW s \in Nat, ~(n < u + p + s)
  PROVE  u <= n - p - s /\ n - p - s \in Nat
  OBVIOUS

\* Ticks of which no scan can be under way any more.
LEMMA CountedNeverLate ==
  ASSUME Timely, Counted
  PROVE  NeverLate
  <1> DEFINE span == Minute * (1 + missed)
             d == now - Patience - span
  <1> SUFFICES ASSUME NEW w \in Workflow \ Extra, On(w),
                      \A due \in {since[w] + Every(w) + Patience} \cup UsedUntil(w) :
                         ~(now < due + Patience + span)
               PROVE  FALSE
    BY DEF NeverLate
  <1>1. /\ now \in Nat /\ missed \in Nat /\ since[w] \in Nat /\ Every(w) \in Nat
        /\ Patience \in Nat /\ Minute \in Nat \ {0}
        /\ DOMAIN runs = 1..Len(runs)
        /\ \A r \in 1..Len(runs) : runs[r].slot \in Nat
        /\ \A c \in Scanner : scan[c].at \in Nat
    BY TimeFacts DEF Timely
  <1>2. span \in Nat /\ span > 0
    BY <1>1
  <1> HIDE DEF span
  <1>3. since[w] + Every(w) + Patience <= d /\ d \in Nat
    <2>1. PICK u \in Nat : u = since[w] + Every(w) + Patience
      BY <1>1
    <2>2. ~(now < u + Patience + span)
      BY <2>1
    <2> QED BY <1>1, <1>2, <2>1, <2>2, Behind
  <1>4. ASSUME NEW r \in DOMAIN runs, runs[r].wf = w
        PROVE  (runs[r].slot + 1) * Every(w) <= d
    <2>1. PICK u \in Nat : u = (runs[r].slot + 1) * Every(w)
      BY <1>1
    <2>2. u \in UsedUntil(w)
      BY <1>4, <2>1 DEF UsedUntil
    <2> QED BY <1>1, <1>2, <2>1, <2>2, Behind
  <1>5. ASSUME NEW t \in Nat, d <= t PROVE Due(w, t)
    <2>1. ASSUME NEW r \in DOMAIN runs, runs[r].wf = w
          PROVE  (runs[r].slot + 1) * Every(w) <= t
      <3>1. PICK u \in Nat : u = (runs[r].slot + 1) * Every(w)
        BY <1>1
      <3> QED BY <1>3, <1>4, <1>5, <2>1, <3>1
    <2>2. since[w] + Every(w) + Patience <= t
      BY <1>1, <1>3, <1>5
    <2> QED BY <2>1, <2>2 DEF Due
  <1>6. d + span + Patience = now
    BY <1>1, <1>2
  <1> HIDE DEF d
  <1>7. ASSUME NEW t \in Nat, d <= t, t < d + span, t % Minute = 0
        PROVE  t \in Unserved(w)
    <2>1. t + Patience < now
      BY <1>1, <1>2, <1>3, <1>6, <1>7
    <2>2. t \in 0..now /\ t < now
      BY <1>1, <2>1
    <2>3. ASSUME NEW c \in Scanner PROVE ~Serves(c, w, t)
      <3>1. scan[c].pc # "idle" => now <= scan[c].at + Patience
        BY DEF Timely, Prompt
      <3> QED BY <1>1, <2>1, <3>1 DEF Serves
    <2> QED BY <1>5, <1>7, <2>2, <2>3 DEF Unserved
  <1>8. IsFiniteSet(Unserved(w))
    BY UnservedFinite DEF Timely
  <1>9. Cardinality(Unserved(w)) > missed
    <2>1. PICK S : S = Unserved(w)
      OBVIOUS
    <2>2. \A t \in Nat : d <= t /\ t < d + Minute * (1 + missed) /\ t % Minute = 0 => t \in S
      BY <1>7, <2>1 DEF span
    <2> QED BY <1>1, <1>3, <1>8, <2>1, <2>2, ManyTicks
  <1>10. Cardinality(Unserved(w)) <= missed
    BY DEF Counted
  <1>11. Cardinality(Unserved(w)) \in Nat
    BY <1>8, FS_CardinalityType
  <1> QED BY <1>1, <1>9, <1>10, <1>11

LEMMA InitCounted == Init => Timely /\ Counted
  <1> SUFFICES ASSUME Init PROVE Timely /\ Counted
    OBVIOUS
  <1>1. TypeOK /\ History
    BY InitHistory
  <1>2. Prompt
    <2>1. Len(runs) = 0
      BY DEF Init
    <2>2. \A w \in Workflow : wf[w].last = Never
      BY DEF Init, Absent, New
    <2> QED BY <2>1, <2>2, TimeAssumption DEF Init, Prompt, NoScan, Never
  <1>3. \A w \in Workflow : Unserved(w) = {}
    BY <1>1, TimeFacts DEF Init, Unserved, Due
  <1>4. Cardinality({}) = 0 /\ missed = 0
    BY FS_EmptySet DEF Init
  <1>5. Counted
    BY <1>3, <1>4 DEF Counted
  <1> QED BY <1>1, <1>2, <1>5 DEF Timely

(***************************************************************************)
(* A workflow that is on gets its next run an interval, a minute and two   *)
(* delays after the last one, or as late after the slots of its earlier    *)
(* runs are over, and a minute later for each tick that was missed or      *)
(* whose scan broke off: failed executions and scans that overlap cost it  *)
(* nothing.                                                                *)
(***************************************************************************)
THEOREM RunsAreNeverLate == Spec => []NeverLate
  <1>1. Timely /\ Counted /\ [Next]_vars => (Timely /\ Counted)'
    BY StepPrompt, StepCounted
  <1>2. Timely /\ Counted => NeverLate
    BY CountedNeverLate
  <1> QED BY InitCounted, <1>1, <1>2, PTL DEF Spec
=============================================================================
