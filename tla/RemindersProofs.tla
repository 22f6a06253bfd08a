-------------------------- MODULE RemindersProofs --------------------------
(***************************************************************************)
(* Proofs about Reminders, for every set of reminders, scans and requests, *)
(* every number of attempts and every limit.                               *)
(***************************************************************************)
EXTENDS Reminders, FiniteSetTheorems, TLAPS

(***************************************************************************)
(* What is known of a scan: the jobs it has selected exist, the one it has *)
(* in hand is not among those left, and the attempts it has read are no    *)
(* more than there are, less the one it counts itself.                     *)
(***************************************************************************)
Busy == {"cancel", "mark", "deliver", "sent", "failed"}
Delivering == {"deliver", "sent", "failed"}

Fit(y, jobs, over) ==
    /\ \A x \in y.rest : jobs[x].st # "none"
    /\ y.pc \in Busy => y.cur \in Reminder /\ y.cur \notin y.rest /\ jobs[y.cur].st # "none"
    /\ y.pc = "cancel" => over
    /\ y.pc = "mark" => y.attempts <= jobs[y.cur].attempts
    /\ y.pc \in Delivering => y.attempts + 1 <= jobs[y.cur].attempts
Held == \A c \in Scanner : Fit(scan[c], job, closed)

Asked == \A r \in Request :
    /\ req[r].pc = "cancel" => closed
    /\ req[r].pc = "mark" => req[r].cur \in Reminder /\ job[req[r].cur].st # "none"

\* What the status of a job tells.
Told == \A x \in Reminder :
    /\ job[x].st = "CANCELLED" => closed
    /\ job[x].st = "DEAD_LETTER" => job[x].attempts >= MaxAttempts
    /\ job[x].st = "PROCESSING" =>
          x \in stuck \/ \E c \in Scanner : scan[c].pc \in Delivering /\ scan[c].cur = x

Queued == \A x \in Pending \ lapsed : job[x].st # "none" \/ \E r \in Request : Coming(r, x)

Care ==
    /\ meeting = "closed" => closed
    /\ Held /\ Asked /\ Told /\ Queued

-----------------------------------------------------------------------------

LEMMA StateTypes == NoJob \in JobState /\ NoScan \in ScanState /\ Idle \in ReqState
  BY DEF NoJob, NoScan, Idle, JobState, ScanState, ReqState, JobStatus

LEMMA InitCare == Init => TypeOK /\ Care /\ AttemptsBounded
  <1> SUFFICES ASSUME Init PROVE TypeOK /\ Care /\ AttemptsBounded
    OBVIOUS
  <1>1. TypeOK
    <2>1. NoJob \in JobState /\ NoScan \in ScanState /\ Idle \in ReqState
      BY StateTypes
    <2>2. edits \in 0..MaxEdits /\ faults \in 0..MaxFaults
      BY BoundAssumption DEF Init
    <2>3. rem \in [Reminder -> RemStatus]
      BY DEF Init, RemStatus
    <2> QED BY <2>1, <2>2, <2>3 DEF Init, TypeOK
  <1>2. Care
    BY DEF Init, Care, Held, Fit, Asked, Told, Queued, Pending, NoJob, NoScan, Idle, Busy, Delivering
  <1>3. AttemptsBounded
    <2>1. \A x \in Reminder : Taking(x) = {}
      BY DEF Init, Taking, NoScan
    <2>2. Cardinality(Scanner) \in Nat /\ Cardinality({}) = 0
      BY BoundAssumption, FS_CardinalityType, FS_EmptySet
    <2>3. \A x \in Reminder : job[x].attempts = 0
      BY DEF Init, NoJob
    <2> QED BY <2>1, <2>2, <2>3, BoundAssumption DEF AttemptsBounded
  <1> QED BY <1>1, <1>2, <1>3

-----------------------------------------------------------------------------
(***************************************************************************)
(* Requests leave the scans alone, and take no attempt from a job.         *)
(***************************************************************************)
Kept ==
    /\ closed => closed'
    /\ meeting' = "closed" => closed'
    /\ \A x \in Reminder : /\ job'[x].attempts = job[x].attempts
                           /\ job[x].st # "none" => job'[x].st # "none"

LEMMA KeptHeld ==
  ASSUME TypeOK, Held, Kept, UNCHANGED scan
  PROVE  Held'
  BY DEF TypeOK, Held, Fit, Kept, ScanState, Busy, Delivering

LEMMA KeptBounded ==
  ASSUME AttemptsBounded, Kept, UNCHANGED scan
  PROVE  AttemptsBounded'
  BY DEF AttemptsBounded, Kept, Taking

Asking == \E r \in Request : NewRequest(r) \/ RequestStep(r) \/ RequestDies(r)
Editing == OneStepRequest \/ \E x \in Reminder : TimePasses(x)

LEMMA DropTypes ==
  ASSUME TypeOK, NEW r \in Request, Drop(r)
  PROVE  /\ UNCHANGED <<meeting, rem, job, scan, edits, closed, stuck>>
         /\ lapsed' \subseteq Reminder /\ req' \in [Request -> ReqState]
  <1>1. req[r].rest \subseteq Reminder /\ req[r].cur \in Reminder \cup {Nil}
    BY DEF TypeOK, ReqState
  <1> QED BY <1>1, StateTypes DEF Drop, TypeOK, Pending

LEMMA RequestTypes ==
  ASSUME TypeOK, Asking \/ Editing
  PROVE  TypeOK' /\ UNCHANGED scan
  <1>1. ASSUME NEW r \in Request, NewRequest(r)
        PROVE  TypeOK' /\ UNCHANGED scan
    <2>1. /\ UNCHANGED <<job, scan, faults, stuck>> /\ edits' \in 0..MaxEdits
          /\ req' \in [Request -> ReqState]
      BY <1>1, BoundAssumption
      DEF NewRequest, TypeOK, CreateMeeting, CancelMeeting, CompleteMeeting, UpdateMeeting,
          CreateReminder, Edit, OneMore, ReqState
    <2>2. rem' \in [Reminder -> RemStatus]
      BY <1>1
      DEF NewRequest, TypeOK, CreateMeeting, CancelMeeting, CompleteMeeting, UpdateMeeting,
          CreateReminder, RemStatus
    <2>3. meeting' \in {"none", "open", "closed"} /\ closed' \in BOOLEAN /\ lapsed' = lapsed
      BY <1>1
      DEF NewRequest, TypeOK, CreateMeeting, CancelMeeting, CompleteMeeting, UpdateMeeting,
          CreateReminder
    <2> QED BY <2>1, <2>2, <2>3 DEF TypeOK
  <1>2. ASSUME NEW r \in Request, RequestStep(r)
        PROVE  TypeOK' /\ UNCHANGED scan
    <2>1. CASE FindReminders(r) \/ ResetDone(r) \/ ListReminders(r)
      BY <2>1, StateTypes
      DEF FindReminders, ResetDone, ListReminders, Go, Pending, TypeOK, ReqState, bounds
    <2>2. CASE MarkScheduled(r)
      <3>1. CASE Drop(r) /\ UNCHANGED faults
        BY <3>1, DropTypes DEF TypeOK
      <3>2. CASE ~(Drop(r) /\ UNCHANGED faults)
        <4>1. rem' \in [Reminder -> RemStatus]
          BY <2>2, <3>2 DEF MarkScheduled, TypeOK, RemStatus
        <4>2. req' \in [Request -> ReqState]
          <5>1. [req[r] EXCEPT !.pc = "upsert", !.cur = Nil] \in ReqState
            BY DEF TypeOK, ReqState
          <5>2. \E y \in ReqState : req' = [req EXCEPT ![r] = y]
            BY <2>2, <3>2, <5>1, StateTypes DEF MarkScheduled, Go
          <5> QED BY <5>2 DEF TypeOK
        <4>3. UNCHANGED <<meeting, job, scan, edits, faults, closed, lapsed, stuck>>
          BY <2>2, <3>2 DEF MarkScheduled, Go, bounds
        <4> QED BY <4>1, <4>2, <4>3 DEF TypeOK
      <3> QED BY <2>2, <3>1, <3>2 DEF MarkScheduled
    <2>3. CASE CancelJobs(r)
      <3>1. job' \in [Reminder -> JobState]
        BY <2>3, ZenonT(30) DEF CancelJobs, TypeOK, JobState, JobStatus
      <3> QED BY <2>3, <3>1, StateTypes DEF CancelJobs, Go, TypeOK, bounds
    <2>4. ASSUME NEW x \in Reminder, ResetReminder(r, x)
          PROVE  TypeOK' /\ UNCHANGED scan
      <3>1. CASE Drop(r) /\ UNCHANGED faults
        BY <3>1, DropTypes DEF TypeOK
      <3>2. CASE ~(Drop(r) /\ UNCHANGED faults)
        BY <2>4, <3>2 DEF ResetReminder, Go, TypeOK, ReqState, RemStatus, bounds
      <3> QED BY <2>4, <3>1, <3>2 DEF ResetReminder
    <2>5. ASSUME NEW x \in Reminder, NEW due \in BOOLEAN, UpsertJob(r, x, due)
          PROVE  TypeOK' /\ UNCHANGED scan
      <3>1. CASE Drop(r) /\ UNCHANGED faults
        BY <3>1, DropTypes DEF TypeOK
      <3>2. CASE ~(Drop(r) /\ UNCHANGED faults)
        <4>1. job' \in [Reminder -> JobState]
          BY <2>5, <3>2 DEF UpsertJob, TypeOK, JobState, JobStatus
        <4>2. req' \in [Request -> ReqState]
          BY <2>5, <3>2 DEF UpsertJob, Go, TypeOK, ReqState
        <4> QED BY <2>5, <3>2, <4>1, <4>2 DEF UpsertJob, Go, TypeOK, bounds
      <3> QED BY <2>5, <3>1, <3>2 DEF UpsertJob
    <2> QED BY <1>2, <2>1, <2>2, <2>3, <2>4, <2>5 DEF RequestStep
  <1>3. ASSUME NEW r \in Request, RequestDies(r)
        PROVE  TypeOK' /\ UNCHANGED scan
    BY <1>3, DropTypes, BoundAssumption DEF RequestDies, Fault, TypeOK
  <1>4. CASE Editing
    <2>1. ASSUME NEW st \in {"open", "closed"}, SetStatus(st)
          PROVE  TypeOK' /\ UNCHANGED scan
      BY <2>1, BoundAssumption DEF SetStatus, EditOnly, OneMore, TypeOK
    <2>2. ASSUME NEW x \in Reminder, DeleteReminder(x)
          PROVE  TypeOK' /\ UNCHANGED scan
      BY <2>2, BoundAssumption DEF DeleteReminder, EditOnly, OneMore, TypeOK, RemStatus
    <2>3. ASSUME NEW x \in Reminder, NEW st \in ByHand, UpdateReminder(x, st)
          PROVE  TypeOK' /\ UNCHANGED scan
      BY <2>3, BoundAssumption DEF UpdateReminder, EditOnly, OneMore, TypeOK, RemStatus
    <2>4. ASSUME NEW x \in Reminder, RetryJob(x) \/ TimePasses(x)
          PROVE  TypeOK' /\ UNCHANGED scan
      <3>1. job' \in [Reminder -> JobState]
        <4>1. CASE RetryJob(x)
          BY <4>1 DEF RetryJob, TypeOK, JobState, JobStatus
        <4>2. CASE TimePasses(x)
          BY <4>2 DEF TimePasses, TypeOK, JobState, JobStatus
        <4> QED BY <2>4, <4>1, <4>2
      <3>2. edits' \in 0..MaxEdits /\ stuck' \subseteq Reminder
        BY <2>4, BoundAssumption DEF RetryJob, TimePasses, OneMore, bounds, TypeOK
      <3>3. UNCHANGED <<meeting, rem, scan, req, faults, closed, lapsed>>
        BY <2>4 DEF RetryJob, TimePasses, bounds
      <3> QED BY <3>1, <3>2, <3>3 DEF TypeOK
    <2> QED BY <1>4, <2>1, <2>2, <2>3, <2>4 DEF Editing, OneStepRequest
  <1> QED BY <1>1, <1>2, <1>3, <1>4 DEF Asking

LEMMA RequestCare ==
  ASSUME TypeOK, Care, Asking \/ Editing
  PROVE  Kept /\ Care'
  <1> USE DEF Care, Kept, Asked, Told, Queued, Pending, Coming, TypeOK, JobState, ReqState
  <1>1. ASSUME NEW r \in Request, NEW some \in SUBSET Reminder, CreateMeeting(r, some)
        PROVE  Kept /\ Asked' /\ Told' /\ Queued'
    BY <1>1 DEF CreateMeeting, Edit
  <1>2. ASSUME NEW r \in Request, CancelMeeting(r) \/ CompleteMeeting(r)
        PROVE  Kept /\ Asked' /\ Told' /\ Queued'
    <2>1. Kept /\ Asked'
      BY <1>2, SMTT(30) DEF CancelMeeting, CompleteMeeting, Edit
    <2>2. Told'
      BY <1>2 DEF CancelMeeting, CompleteMeeting, Edit
    <2>3. CASE CancelMeeting(r)
      <3>1. Pending' = {}
        BY <2>3 DEF CancelMeeting
      <3> QED BY <2>1, <2>2, <3>1
    <2>4. CASE CompleteMeeting(r)
      <3>1. Queued'
        BY <2>4 DEF CompleteMeeting, Edit
      <3> QED BY <2>1, <2>2, <3>1
    <2> QED BY <1>2, <2>3, <2>4
  <1>3. ASSUME NEW r \in Request, NEW st \in {"open", "closed"}, UpdateMeeting(r, st)
        PROVE  Kept /\ Asked' /\ Told' /\ Queued'
    BY <1>3 DEF UpdateMeeting, Edit
  <1>4. ASSUME NEW r \in Request, NEW x \in Reminder, CreateReminder(r, x)
        PROVE  Kept /\ Asked' /\ Told' /\ Queued'
    BY <1>4 DEF CreateReminder, Edit
  <1>5. ASSUME NEW r \in Request, Drop(r)
        PROVE  Kept /\ Asked' /\ Told' /\ Queued'
    BY <1>5 DEF Drop, Idle
  <1>6. ASSUME NEW r \in Request, FindReminders(r) \/ ResetDone(r)
        PROVE  Kept /\ Asked' /\ Told' /\ Queued'
    <2>1. /\ \A q \in Request \ {r} : req'[q] = req[q]
          /\ req'[r].pc \in {"reset", "list"}
          /\ UNCHANGED <<meeting, rem, job, scan, closed, lapsed, stuck>>
      BY <1>6 DEF FindReminders, ResetDone, Go
    <2> QED BY <2>1
  <1>7. ASSUME NEW r \in Request, ListReminders(r)
        PROVE  Kept /\ Asked' /\ Told' /\ Queued'
    BY <1>7 DEF ListReminders, Go, Idle
  <1>8. ASSUME NEW r \in Request, MarkScheduled(r), ~(Drop(r) /\ UNCHANGED faults)
        PROVE  Kept /\ Asked' /\ Told' /\ Queued'
    <2>1. /\ \A q \in Request \ {r} : req'[q] = req[q]
          /\ req'[r].pc \in {"idle", "upsert"}
          /\ \A x \in Reminder : x \in req[r].rest => req'[r].pc = "upsert" /\ x \in req'[r].rest
      <3>1. CASE req[r].rest = {}
        BY <1>8, <3>1 DEF MarkScheduled, Go, Idle
      <3>2. CASE req[r].rest # {}
        <4>1. req' = [req EXCEPT ![r] = [req[r] EXCEPT !.pc = "upsert", !.cur = Nil]]
          BY <1>8, <3>2 DEF MarkScheduled, Go
        <4> QED BY <4>1
      <3> QED BY <3>1, <3>2
    <2>2. /\ req[r].pc = "mark" /\ rem' = [rem EXCEPT ![req[r].cur] = "SCHEDULED"]
          /\ UNCHANGED <<meeting, job, scan, closed, lapsed, stuck>>
      BY <1>8 DEF MarkScheduled, Go
    <2>3. Kept /\ Asked' /\ Told'
      BY <2>1, <2>2
    <2>4. Queued'
      BY <2>1, <2>2
    <2> QED BY <2>3, <2>4
  <1>9. ASSUME NEW r \in Request, CancelJobs(r)
        PROVE  Kept /\ Asked' /\ Told' /\ Queued'
    <2>1. /\ \A q \in Request \ {r} : req'[q] = req[q]
          /\ req[r].pc = "cancel" /\ req'[r].pc = "idle"
          /\ UNCHANGED <<meeting, rem, scan, closed, lapsed>>
      BY <1>9 DEF CancelJobs, Go, Idle
    <2>2. /\ closed
          /\ \A x \in Reminder : job'[x].attempts = job[x].attempts
          /\ \A x \in Reminder : \/ job'[x].st = job[x].st /\ job[x].st # "PROCESSING"
                                 \/ job[x].st # "none" /\ job'[x].st = "CANCELLED"
      <3>1. closed
        BY <1>9 DEF CancelJobs
      <3>2. ASSUME NEW x \in Reminder
            PROVE  /\ job'[x].attempts = job[x].attempts
                   /\ \/ job'[x].st = job[x].st /\ job[x].st # "PROCESSING"
                      \/ job[x].st # "none" /\ job'[x].st = "CANCELLED"
        <4>1. job'[x] = IF job[x].st \in {"QUEUED", "PROCESSING", "FAILED"}
                        THEN [job[x] EXCEPT !.st = "CANCELLED", !.due = TRUE] ELSE job[x]
          BY <1>9 DEF CancelJobs
        <4>2. CASE job[x].st \in {"QUEUED", "PROCESSING", "FAILED"}
          BY <4>1, <4>2
        <4>3. CASE job[x].st \notin {"QUEUED", "PROCESSING", "FAILED"}
          BY <4>1, <4>3
        <4> QED BY <4>2, <4>3
      <3> QED BY <3>1, <3>2
    <2>3. Kept /\ Asked' /\ Told'
      BY <2>1, <2>2, SMTT(30)
    <2>4. Queued'
      BY <2>1, <2>2, SMTT(30)
    <2> QED BY <2>3, <2>4
  <1>10. ASSUME NEW r \in Request, NEW x \in Reminder, ResetReminder(r, x),
               ~(Drop(r) /\ UNCHANGED faults)
        PROVE  Kept /\ Asked' /\ Told' /\ Queued'
    <2>1. /\ \A q \in Request \ {r} : req'[q] = req[q]
          /\ req'[r].pc = "reset"
          /\ UNCHANGED <<meeting, job, scan, closed, lapsed, stuck>>
      BY <1>10 DEF ResetReminder, Go
    <2> QED BY <2>1
  <1>11. ASSUME NEW r \in Request, NEW x \in Reminder, NEW due \in BOOLEAN, UpsertJob(r, x, due),
               ~(Drop(r) /\ UNCHANGED faults)
        PROVE  Kept /\ Asked' /\ Told' /\ Queued'
    <2>1. /\ \A q \in Request \ {r} : req'[q] = req[q]
          /\ req[r].pc = "upsert" /\ req'[r].pc = "mark"
          /\ req'[r].rest = req[r].rest \ {x} /\ req'[r].cur = x
          /\ stuck' = stuck \ {x}
          /\ UNCHANGED <<meeting, rem, scan, closed, lapsed>>
      BY <1>11 DEF UpsertJob, Go
    <2>2. /\ \A y \in Reminder \ {x} : job'[y] = job[y]
          /\ job'[x].st = "QUEUED" /\ job'[x].attempts = job[x].attempts
      BY <1>11 DEF UpsertJob
    <2>3. Kept /\ Asked' /\ Told'
      BY <2>1, <2>2, SMTT(30)
    <2>4. Queued'
      BY <2>1, <2>2
    <2> QED BY <2>3, <2>4
  <1>12. ASSUME NEW st \in {"open", "closed"}, SetStatus(st)
        PROVE  Kept /\ Asked' /\ Told' /\ Queued'
    BY <1>12 DEF SetStatus, EditOnly
  <1>13. ASSUME NEW x \in Reminder, DeleteReminder(x)
        PROVE  Kept /\ Asked' /\ Told' /\ Queued'
    BY <1>13 DEF DeleteReminder, EditOnly
  <1>14. ASSUME NEW x \in Reminder, NEW st \in ByHand, UpdateReminder(x, st)
        PROVE  Kept /\ Asked' /\ Told' /\ Queued'
    BY <1>14 DEF UpdateReminder, EditOnly
  <1>15. ASSUME NEW x \in Reminder, RetryJob(x)
        PROVE  Kept /\ Asked' /\ Told' /\ Queued'
    <2>1. stuck' = stuck \ {x} /\ UNCHANGED <<meeting, rem, scan, req, closed, lapsed>>
      BY <1>15 DEF RetryJob
    <2>2. /\ \A y \in Reminder \ {x} : job'[y] = job[y]
          /\ job'[x].st = "QUEUED" /\ job'[x].attempts = job[x].attempts
      BY <1>15 DEF RetryJob
    <2>3. Kept /\ Asked' /\ Told'
      BY <2>1, <2>2, SMTT(30)
    <2>4. Queued'
      BY <2>1, <2>2
    <2> QED BY <2>3, <2>4
  <1>16. ASSUME NEW x \in Reminder, TimePasses(x)
        PROVE  Kept /\ Asked' /\ Told' /\ Queued'
    BY <1>16 DEF TimePasses
  <1>17. Kept /\ Asked' /\ Told' /\ Queued'
    <2> HIDE DEF Care, Kept, Asked, Told, Queued, Pending, Coming, TypeOK, JobState, ReqState
    <2>1. ASSUME NEW r \in Request, NewRequest(r)
          PROVE  Kept /\ Asked' /\ Told' /\ Queued'
      BY <2>1, <1>1, <1>2, <1>3, <1>4 DEF NewRequest
    <2>2. ASSUME NEW r \in Request, RequestStep(r), ~(Drop(r) /\ UNCHANGED faults)
          PROVE  Kept /\ Asked' /\ Told' /\ Queued'
      BY <2>2, <1>6, <1>7, <1>8, <1>9, <1>10, <1>11 DEF RequestStep
    <2>3. ASSUME NEW r \in Request, RequestDies(r)
          PROVE  Kept /\ Asked' /\ Told' /\ Queued'
      BY <2>3, <1>5 DEF RequestDies
    <2>4. CASE Editing
      BY <2>4, <1>12, <1>13, <1>14, <1>15, <1>16 DEF Editing, OneStepRequest
    <2> QED BY <2>1, <2>2, <2>3, <2>4, <1>5 DEF Asking
  <1>18. Held'
    BY <1>17, RequestTypes, KeptHeld
  <1> QED BY <1>17, <1>18

-----------------------------------------------------------------------------
(***************************************************************************)
(* Scans.                                                                  *)
(***************************************************************************)
Scanning == \E c \in Scanner : ScanStart(c) \/ ScanStep(c) \/ ScanDies(c) \/ SentFails(c)

\* Scan c takes a step to y, and no job loses attempts.
JobsKept == \A x \in Reminder :
    /\ job'[x].attempts >= job[x].attempts
    /\ job[x].st # "none" => job'[x].st # "none"

LEMMA HeldWrite ==
  ASSUME TypeOK, Held, NEW c \in Scanner, NEW y \in ScanState, scan' = [scan EXCEPT ![c] = y],
         job' \in [Reminder -> JobState], JobsKept, UNCHANGED closed, Fit(y, job', closed)
  PROVE  scan' \in [Scanner -> ScanState] /\ Held'
  <1>1. \A d \in Scanner : scan'[d] = IF d = c THEN y ELSE scan[d]
    BY DEF TypeOK
  <1>2. ASSUME NEW d \in Scanner, d # c
        PROVE  Fit(scan[d], job', closed)
    <2>1. /\ scan[d].rest \subseteq Reminder /\ scan[d].attempts \in Nat
          /\ \A x \in Reminder : job[x].attempts \in Nat /\ job'[x].attempts \in Nat
      BY DEF TypeOK, ScanState, JobState
    <2>2. Fit(scan[d], job, closed)
      BY DEF Held
    <2> QED BY <2>1, <2>2 DEF Fit, JobsKept, Busy, Delivering
  <1>3. scan' \in [Scanner -> ScanState]
    BY DEF TypeOK
  <1> QED BY <1>1, <1>2, <1>3 DEF Held

\* It takes no job, and does not count an attempt.
LEMMA BoundedWrite ==
  ASSUME TypeOK, AttemptsBounded, NEW c \in Scanner, NEW y \in ScanState,
         scan' = [scan EXCEPT ![c] = y],
         \A x \in Reminder : job'[x].attempts = job[x].attempts,
         y.rest \subseteq scan[c].rest,
         y.pc \in {"cancel", "mark"} => y.cur \in scan[c].rest
  PROVE  AttemptsBounded'
  <1>1. \A d \in Scanner : scan'[d] = IF d = c THEN y ELSE scan[d]
    BY DEF TypeOK
  <1>2. SUFFICES ASSUME NEW x \in Reminder
                 PROVE  job[x].attempts + Cardinality(Taking(x)') < Limit + Cardinality(Scanner)
    BY DEF AttemptsBounded
  <1>3. Taking(x)' \subseteq Taking(x) /\ Taking(x) \subseteq Scanner
    BY <1>1 DEF Taking
  <1>4. /\ IsFiniteSet(Taking(x)) /\ Cardinality(Taking(x)') <= Cardinality(Taking(x))
        /\ Cardinality(Taking(x)) \in Nat /\ Cardinality(Taking(x)') \in Nat
    BY <1>3, BoundAssumption, FS_Subset, FS_CardinalityType
  <1>5. Cardinality(Scanner) \in Nat /\ Limit \in Nat /\ job[x].attempts \in Nat
    BY BoundAssumption, FS_CardinalityType DEF TypeOK, JobState
  <1>6. job[x].attempts + Cardinality(Taking(x)) < Limit + Cardinality(Scanner)
    BY DEF AttemptsBounded
  <1> QED BY <1>4, <1>5, <1>6

\* The statuses tell of the jobs what they told, when c has left a job it
\* delivered no more PROCESSING than it is stuck.
LEMMA ToldWrite ==
  ASSUME TypeOK, Told, NEW c \in Scanner, NEW y \in ScanState, scan' = [scan EXCEPT ![c] = y],
         UNCHANGED closed,
         \A x \in Reminder :
            \/ /\ job'[x] = job[x] /\ (x \in stuck => x \in stuck')
               /\ \/ ~(scan[c].pc \in Delivering /\ scan[c].cur = x)
                  \/ y.pc \in Delivering /\ y.cur = x
                  \/ job[x].st # "PROCESSING" \/ x \in stuck'
                  \/ \E d \in Scanner \ {c} : scan[d].pc \in Delivering /\ scan[d].cur = x
            \/ job'[x].st = "PROCESSING" /\ y.pc \in Delivering /\ y.cur = x
            \/ job'[x].st = "CANCELLED" /\ closed
            \/ job'[x].st = "DEAD_LETTER" /\ job'[x].attempts >= MaxAttempts
            \/ job'[x].st \in {"SENT", "FAILED"}
  PROVE  Told'
  <1>1. \A d \in Scanner : scan'[d] = IF d = c THEN y ELSE scan[d]
    BY DEF TypeOK
  <1> QED BY <1>1 DEF Told

\* Requests are where they were, so that the jobs that scans write are those
\* that exist, and reminders become pending no more than their jobs do.
LEMMA AskedWrite ==
  ASSUME Asked, Queued, JobsKept, UNCHANGED <<req, closed, lapsed>>,
         \A x \in Reminder : x \in Pending' => x \in Pending \/ job[x].st # "none"
  PROVE  Asked' /\ Queued'
  BY DEF Asked, Queued, JobsKept, Coming, Pending

LEMMA ScanStartCare ==
  ASSUME TypeOK, Care, AttemptsBounded, NEW c \in Scanner, ScanStart(c)
  PROVE  TypeOK' /\ Care' /\ AttemptsBounded'
  <1>1. PICK y \in ScanState : /\ scan' = [scan EXCEPT ![c] = y]
                               /\ y.pc = "loop" /\ y.rest = Due
    <2>1. [NoScan EXCEPT !.pc = "loop", !.rest = Due] \in ScanState
      BY DEF NoScan, ScanState, Due
    <2> QED BY <2>1 DEF ScanStart, To, NoScan
  <1>2. UNCHANGED <<meeting, rem, job, req, edits, faults, closed, lapsed, stuck>> /\ scan[c].pc = "idle"
    BY DEF ScanStart, To, bounds
  <1>3. JobsKept /\ \A x \in Reminder : job[x].attempts \in Nat
    BY <1>2 DEF JobsKept, TypeOK, JobState
  <1>4. Held' /\ scan' \in [Scanner -> ScanState]
    <2>1. Fit(y, job', closed)
      BY <1>1, <1>2 DEF Fit, Busy, Delivering, Due
    <2> QED BY <1>1, <1>2, <1>3, <2>1, HeldWrite DEF Care, TypeOK
  <1>5. TypeOK'
    BY <1>2, <1>4 DEF TypeOK
  <1>6. Told'
    BY <1>1, <1>2, ToldWrite DEF Care, Delivering
  <1>7. Asked' /\ Queued'
    BY <1>2, <1>3, AskedWrite DEF Care, Pending
  <1>8. AttemptsBounded'
    <2>1. SUFFICES ASSUME NEW x \in Reminder
                   PROVE  job[x].attempts + Cardinality(Taking(x)') < Limit + Cardinality(Scanner)
      BY <1>2 DEF AttemptsBounded
    <2>2. CASE x \in Due
      <3>1. Taking(x)' \subseteq Scanner
        BY DEF Taking
      <3>2. Cardinality(Taking(x)') <= Cardinality(Scanner) /\ job[x].attempts < Limit
            /\ Cardinality(Taking(x)') \in Nat /\ Cardinality(Scanner) \in Nat
        BY <2>2, <3>1, BoundAssumption, FS_Subset, FS_CardinalityType DEF Due
      <3> QED BY <1>3, <3>2, BoundAssumption
    <2>3. CASE x \notin Due
      <3>1. \A d \in Scanner : scan'[d] = IF d = c THEN y ELSE scan[d]
        BY <1>1 DEF TypeOK
      <3>2. Taking(x)' \subseteq Taking(x) /\ Taking(x) \subseteq Scanner
        BY <1>1, <2>3, <3>1 DEF Taking
      <3>3. /\ Cardinality(Taking(x)') <= Cardinality(Taking(x))
            /\ Cardinality(Taking(x)) \in Nat /\ Cardinality(Taking(x)') \in Nat
            /\ Cardinality(Scanner) \in Nat
        BY <3>2, BoundAssumption, FS_Subset, FS_CardinalityType
      <3> QED BY <1>3, <3>3, BoundAssumption DEF AttemptsBounded
    <2> QED BY <2>2, <2>3
  <1> QED BY <1>2, <1>4, <1>5, <1>6, <1>7, <1>8 DEF Care

\* The steps of a scan that write neither a job nor a reminder.
Moves(c) ==
    \/ ScanEnd(c) \/ \E x \in Reminder : ScanJob(c, x)
    \/ /\ scan[c].pc \in Delivering
       /\ \E pc \in {"sent", "failed"} : scan' = [scan EXCEPT ![c].pc = pc]
       /\ faults' \in 0..MaxFaults
       /\ UNCHANGED <<meeting, rem, job, req, edits, closed, lapsed, stuck>>

LEMMA ScanMoveCare ==
  ASSUME TypeOK, Care, AttemptsBounded, NEW c \in Scanner, Moves(c)
  PROVE  TypeOK' /\ Care' /\ AttemptsBounded'
  <1>1. PICK y \in ScanState :
           /\ scan' = [scan EXCEPT ![c] = y]
           /\ y.rest \subseteq scan[c].rest
           /\ y.pc \in {"cancel", "mark"} => y.cur \in scan[c].rest
           /\ scan[c].pc \in Delivering => y.pc \in Delivering /\ y.cur = scan[c].cur
           /\ Fit(y, job, closed)
    <2>0. scan[c] \in ScanState /\ Fit(scan[c], job, closed)
      BY DEF TypeOK, Care, Held
    <2>1. CASE ScanEnd(c)
      BY <2>1, StateTypes
      DEF ScanEnd, To, NoScan, Fit, Busy, Delivering
    <2>2. ASSUME NEW pc \in {"sent", "failed"}, scan[c].pc \in Delivering,
                 scan' = [scan EXCEPT ![c].pc = pc]
          PROVE  \E y \in ScanState :
                    /\ scan' = [scan EXCEPT ![c] = y]
                    /\ y.rest \subseteq scan[c].rest
                    /\ y.pc \in {"cancel", "mark"} => y.cur \in scan[c].rest
                    /\ scan[c].pc \in Delivering => y.pc \in Delivering /\ y.cur = scan[c].cur
                    /\ Fit(y, job, closed)
      <3>1. PICK y \in ScanState : y = [scan[c] EXCEPT !.pc = pc]
        BY <2>0 DEF ScanState
      <3>2. y.pc \in Delivering /\ y.pc = pc
            /\ y.rest = scan[c].rest /\ y.cur = scan[c].cur /\ y.attempts = scan[c].attempts
        BY <2>0, <3>1 DEF ScanState, Delivering
      <3>3. Fit(y, job, closed)
        BY <2>0, <2>2, <3>2 DEF Fit, Busy, Delivering
      <3>4. scan' = [scan EXCEPT ![c] = y]
        BY <2>2, <3>1 DEF TypeOK
      <3> QED BY <3>2, <3>3, <3>4
    <2>3. ASSUME NEW x \in Reminder, ScanJob(c, x), Skipped(x)
          PROVE  scan' = [scan EXCEPT ![c] = [scan[c] EXCEPT !.rest = @ \ {x}]] /\ scan[c].pc = "loop"
      BY <2>3 DEF ScanJob, To
    <2>4. ASSUME NEW x \in Reminder, ScanJob(c, x), Skipped(x)
          PROVE  \E y \in ScanState : /\ scan' = [scan EXCEPT ![c] = y] /\ y.pc = "loop"
                                       /\ y.rest \subseteq scan[c].rest
      <3>1. [scan[c] EXCEPT !.rest = @ \ {x}] \in ScanState
        BY <2>0 DEF ScanState
      <3> QED BY <2>0, <2>3, <2>4, <3>1 DEF ScanState
    <2>5. ASSUME NEW x \in Reminder, ScanJob(c, x), ~Skipped(x)
          PROVE  \E y \in ScanState :
                    /\ scan' = [scan EXCEPT ![c] = y] /\ y.cur = x /\ x \in scan[c].rest
                    /\ y.pc = (IF meeting = "closed" THEN "cancel" ELSE "mark")
                    /\ y.rest = scan[c].rest \ {x} /\ y.attempts = job[x].attempts
      <3>1. scan' = [scan EXCEPT ![c] = [pc |-> IF meeting = "closed" THEN "cancel" ELSE "mark",
                     cur |-> x, rest |-> scan[c].rest \ {x}, attempts |-> job[x].attempts,
                     linked |-> Row(x)]] /\ x \in scan[c].rest
        BY <2>5 DEF ScanJob, To
      <3>2. Row(x) \in BOOLEAN /\ job[x].attempts \in Nat
        BY DEF Row, TypeOK, JobState
      <3>3. [pc |-> IF meeting = "closed" THEN "cancel" ELSE "mark",
             cur |-> x, rest |-> scan[c].rest \ {x}, attempts |-> job[x].attempts,
             linked |-> Row(x)] \in ScanState
        BY <2>0, <3>2 DEF ScanState
      <3> QED BY <3>1, <3>3
    <2>6. ASSUME NEW x \in Reminder, ScanJob(c, x)
          PROVE  scan[c].pc = "loop" /\ job[x].attempts <= job[x].attempts
      BY <2>6 DEF ScanJob, TypeOK, JobState
    <2>7. ASSUME NEW x \in Reminder, ScanJob(c, x)
          PROVE  \E y \in ScanState :
                    /\ scan' = [scan EXCEPT ![c] = y]
                    /\ y.rest \subseteq scan[c].rest
                    /\ y.pc \in {"cancel", "mark"} => y.cur \in scan[c].rest
                    /\ scan[c].pc \in Delivering => y.pc \in Delivering /\ y.cur = scan[c].cur
                    /\ Fit(y, job, closed)
      <3>1. CASE Skipped(x)
        <4>1. PICK y \in ScanState : /\ scan' = [scan EXCEPT ![c] = y] /\ y.pc = "loop"
                                     /\ y.rest \subseteq scan[c].rest
          BY <2>4, <2>7, <3>1
        <4>2. Fit(y, job, closed)
          BY <2>0, <4>1 DEF Fit, Busy, Delivering
        <4> QED BY <2>6, <2>7, <4>1, <4>2 DEF Delivering
      <3>2. CASE ~Skipped(x)
        <4>1. PICK y \in ScanState :
                 /\ scan' = [scan EXCEPT ![c] = y] /\ y.cur = x /\ x \in scan[c].rest
                 /\ y.pc = (IF meeting = "closed" THEN "cancel" ELSE "mark")
                 /\ y.rest = scan[c].rest \ {x} /\ y.attempts = job[x].attempts
          BY <2>5, <2>7, <3>2
        <4>2. Fit(y, job, closed)
          BY <2>0, <2>6, <2>7, <4>1 DEF Fit, Busy, Delivering, Care
        <4> QED BY <2>6, <2>7, <4>1, <4>2 DEF Delivering
      <3> QED BY <3>1, <3>2
    <2> QED BY <2>1, <2>2, <2>7 DEF Moves
  <1>2. UNCHANGED <<meeting, rem, job, req, edits, closed, lapsed, stuck>> /\ faults' \in 0..MaxFaults
    BY DEF Moves, ScanEnd, ScanJob, To, bounds, TypeOK
  <1>3. JobsKept
    BY <1>2 DEF JobsKept, TypeOK, JobState
  <1>4. Held' /\ scan' \in [Scanner -> ScanState]
    BY <1>1, <1>2, <1>3, HeldWrite DEF Care, TypeOK
  <1>5. TypeOK'
    BY <1>2, <1>4 DEF TypeOK
  <1>6. Told'
    BY <1>1, <1>2, ToldWrite DEF Care
  <1>7. Asked' /\ Queued'
    BY <1>2, <1>3, AskedWrite DEF Care, Pending
  <1>8. AttemptsBounded'
    BY <1>1, <1>2, BoundedWrite
  <1> QED BY <1>2, <1>4, <1>5, <1>6, <1>7, <1>8 DEF Care

LEMMA BreakOffCare ==
  ASSUME TypeOK, Care, AttemptsBounded, NEW c \in Scanner, BreakOff(c), faults' \in 0..MaxFaults
  PROVE  TypeOK' /\ Care' /\ AttemptsBounded'
  <1>1. /\ scan' = [scan EXCEPT ![c] = NoScan] /\ NoScan \in ScanState
        /\ NoScan.rest = {} /\ NoScan.pc = "idle"
        /\ UNCHANGED <<meeting, rem, job, req, edits, closed, lapsed>>
    BY StateTypes DEF BreakOff, NoScan
  <1>2. stuck \subseteq stuck' /\ stuck' \subseteq Reminder
    BY DEF BreakOff, TypeOK, Care, Held, Fit, Busy
  <1>3. JobsKept
    BY <1>1 DEF JobsKept, TypeOK, JobState
  <1>4. Held' /\ scan' \in [Scanner -> ScanState]
    <2>1. Fit(NoScan, job', closed)
      BY <1>1 DEF Fit, Busy, Delivering
    <2> QED BY <1>1, <1>3, <2>1, HeldWrite DEF Care, TypeOK
  <1>5. TypeOK'
    BY <1>1, <1>2, <1>4 DEF TypeOK
  <1>6. Told'
    <2>1. ASSUME NEW x \in Reminder, scan[c].pc \in Delivering, scan[c].cur = x,
                 job[x].st = "PROCESSING"
          PROVE  x \in stuck' \/ \E d \in Scanner \ {c} :
                                    scan[d].pc \in Delivering /\ scan[d].cur = x
      BY <2>1 DEF BreakOff, Others, Delivering
    <2> QED BY <1>1, <1>2, <2>1, ToldWrite DEF Care
  <1>7. Asked' /\ Queued'
    BY <1>1, <1>3, AskedWrite DEF Care, Pending
  <1>8. AttemptsBounded'
    BY <1>1, BoundedWrite
  <1> QED BY <1>1, <1>4, <1>5, <1>6, <1>7, <1>8 DEF Care

\* Those that write a job.
LEMMA OnwardType ==
  ASSUME TypeOK, NEW c \in Scanner
  PROVE  /\ Onward(c) \in ScanState /\ Onward(c).pc = "loop" /\ Onward(c).rest = scan[c].rest
  BY DEF Onward, NoScan, ScanState, TypeOK

LEMMA OnwardFit ==
  ASSUME TypeOK, Care, NEW c \in Scanner, job' \in [Reminder -> JobState], JobsKept
  PROVE  Fit(Onward(c), job', closed)
  <1>1. scan[c].rest \subseteq Reminder /\ \A x \in scan[c].rest : job[x].st # "none"
    BY DEF TypeOK, ScanState, Care, Held, Fit
  <1> QED BY <1>1, OnwardType DEF Fit, JobsKept, Busy, Delivering

LEMMA CancelJobCare ==
  ASSUME TypeOK, Care, AttemptsBounded, NEW c \in Scanner, CancelJob(c)
  PROVE  TypeOK' /\ Care' /\ AttemptsBounded'
  <1> DEFINE x == scan[c].cur
  <1>1. /\ x \in Reminder /\ job[x].st # "none" /\ closed
        /\ scan' = [scan EXCEPT ![c] = Onward(c)] /\ stuck' = stuck \ {x}
        /\ UNCHANGED <<meeting, rem, req, edits, faults, closed, lapsed>>
    BY DEF CancelJob, To, bounds, Care, Held, Fit, Busy
  <1>2. /\ job' \in [Reminder -> JobState] /\ job'[x].st = "CANCELLED"
        /\ job'[x].attempts = job[x].attempts
        /\ \A y \in Reminder \ {x} : job'[y] = job[y]
    BY <1>1 DEF CancelJob, TypeOK, JobState, JobStatus
  <1>3. JobsKept
    BY <1>1, <1>2 DEF JobsKept, TypeOK, JobState
  <1>4. Held' /\ scan' \in [Scanner -> ScanState]
    BY <1>1, <1>2, <1>3, OnwardType, OnwardFit, HeldWrite DEF Care
  <1>5. TypeOK'
    BY <1>1, <1>2, <1>4 DEF TypeOK
  <1>6. Told'
    BY <1>1, <1>2, OnwardType, ToldWrite, ZenonT(30) DEF Care
  <1>7. Asked' /\ Queued'
    BY <1>1, <1>3, AskedWrite DEF Care, Pending
  <1>8. AttemptsBounded'
    BY <1>1, <1>2, OnwardType, BoundedWrite
  <1> QED BY <1>1, <1>4, <1>5, <1>6, <1>7, <1>8 DEF Care

LEMMA StartDeliveryCare ==
  ASSUME TypeOK, Care, AttemptsBounded, NEW c \in Scanner, StartDelivery(c)
  PROVE  TypeOK' /\ Care' /\ AttemptsBounded'
  <1> DEFINE x == scan[c].cur
  <1>0. PICK y \in ScanState : y = [scan[c] EXCEPT !.pc = "deliver"]
    BY DEF TypeOK, ScanState
  <1>1. /\ x \in Reminder /\ job[x].st # "none" /\ x \notin scan[c].rest
        /\ scan[c].pc = "mark" /\ scan[c].attempts <= job[x].attempts
        /\ scan' = [scan EXCEPT ![c] = y] /\ stuck' = stuck \ {x}
        /\ y.pc = "deliver" /\ y.cur = x /\ y.rest = scan[c].rest /\ y.attempts = scan[c].attempts
        /\ UNCHANGED <<meeting, rem, req, edits, faults, closed, lapsed>>
    BY <1>0 DEF StartDelivery, To, bounds, TypeOK, ScanState, Care, Held, Fit, Busy
  <1>2. /\ job' \in [Reminder -> JobState] /\ job'[x].st = "PROCESSING"
        /\ job'[x].attempts = job[x].attempts + 1
        /\ \A z \in Reminder \ {x} : job'[z] = job[z]
    BY <1>1 DEF StartDelivery, TypeOK, JobState, JobStatus
  <1>3. JobsKept /\ \A z \in Reminder : job[z].attempts \in Nat
    BY <1>1, <1>2 DEF JobsKept, TypeOK, JobState
  <1>4. Held' /\ scan' \in [Scanner -> ScanState]
    <2>1. Fit(scan[c], job, closed) /\ scan[c].rest \subseteq Reminder /\ scan[c].attempts \in Nat
      BY DEF Care, Held, TypeOK, ScanState
    <2>2. Fit(y, job', closed)
      BY <1>1, <1>2, <1>3, <2>1 DEF Fit, JobsKept, Busy, Delivering
    <2> QED BY <1>1, <1>2, <1>3, <2>2, HeldWrite DEF Care
  <1>5. TypeOK'
    BY <1>1, <1>2, <1>4 DEF TypeOK
  <1>6. Told'
    BY <1>1, <1>2, ToldWrite, ZenonT(30) DEF Care, Delivering
  <1>7. Asked' /\ Queued'
    BY <1>1, <1>3, AskedWrite DEF Care, Pending
  <1>8. AttemptsBounded'
    <2>1. SUFFICES ASSUME NEW z \in Reminder
                   PROVE  job'[z].attempts + Cardinality(Taking(z)')
                             < Limit + Cardinality(Scanner)
      BY DEF AttemptsBounded
    <2>2. \A d \in Scanner : scan'[d] = IF d = c THEN y ELSE scan[d]
      BY <1>1 DEF TypeOK
    <2>3. Taking(z)' \subseteq Taking(z) /\ Taking(z) \subseteq Scanner
      BY <1>1, <2>2 DEF Taking
    <2>4. /\ IsFiniteSet(Taking(z)) /\ Cardinality(Taking(z)) \in Nat
          /\ Cardinality(Taking(z)') <= Cardinality(Taking(z)) /\ Cardinality(Taking(z)') \in Nat
          /\ Cardinality(Scanner) \in Nat
          /\ job[z].attempts + Cardinality(Taking(z)) < Limit + Cardinality(Scanner)
      BY <2>3, BoundAssumption, FS_Subset, FS_CardinalityType DEF AttemptsBounded
    <2>5. CASE z = x
      <3>1. c \in Taking(z) /\ Taking(z)' \subseteq Taking(z) \ {c}
        BY <1>1, <2>2, <2>3, <2>5 DEF Taking
      <3>2. /\ IsFiniteSet(Taking(z) \ {c})
            /\ Cardinality(Taking(z) \ {c}) = Cardinality(Taking(z)) - 1
        BY <2>4, <3>1, FS_RemoveElement
      <3>3. Cardinality(Taking(z)') <= Cardinality(Taking(z)) - 1
        BY <3>1, <3>2, FS_Subset
      <3> QED BY <1>2, <1>3, <2>4, <2>5, <3>3, BoundAssumption
    <2>6. CASE z # x
      BY <1>2, <1>3, <2>4, <2>6, BoundAssumption
    <2> QED BY <2>5, <2>6
  <1> QED BY <1>1, <1>4, <1>5, <1>6, <1>7, <1>8 DEF Care

LEMMA RecordCare ==
  ASSUME TypeOK, Care, AttemptsBounded, NEW c \in Scanner, RecordSent(c) \/ RecordFailure(c)
  PROVE  TypeOK' /\ Care' /\ AttemptsBounded'
  <1> DEFINE x == scan[c].cur
  <1>1. CASE Unlinked(c)
    <2>1. CASE RecordFailure(c)
      BY <1>1, <2>1, BreakOffCare DEF RecordFailure, TypeOK
    <2>2. CASE RecordSent(c)
      <3>1. /\ scan[c].pc = "sent" /\ scan' = [scan EXCEPT ![c].pc = "failed"]
            /\ UNCHANGED <<meeting, rem, job, req, edits, faults, closed, lapsed, stuck>>
        BY <1>1, <2>2 DEF RecordSent, To, bounds
      <3>2. Moves(c)
        BY <3>1 DEF Moves, Delivering, TypeOK
      <3> QED BY <3>2, ScanMoveCare
    <2> QED BY <2>1, <2>2
  <1>2. CASE ~Unlinked(c)
    <2>1. /\ x \in Reminder /\ job[x].st # "none" /\ scan[c].pc \in Delivering
          /\ scan[c].attempts + 1 <= job[x].attempts
          /\ scan' = [scan EXCEPT ![c] = Onward(c)] /\ stuck' = stuck \ {x}
          /\ UNCHANGED <<meeting, req, edits, faults, closed, lapsed>>
      BY <1>2
      DEF RecordSent, RecordFailure, To, bounds, Care, Held, Fit, Busy, Delivering
    <2>2. PICK st \in {"SENT", "DEAD_LETTER", "FAILED"}, due \in BOOLEAN :
             /\ job' = [job EXCEPT ![x].st = st, ![x].due = due]
             /\ st = "DEAD_LETTER" => scan[c].attempts + 1 >= MaxAttempts
      <3>1. CASE RecordSent(c)
        BY <1>2, <3>1 DEF RecordSent
      <3>2. CASE RecordFailure(c)
        <4>1. GiveUp(scan[c].attempts + 1) \in BOOLEAN
          BY DEF GiveUp
        <4>2. job' = [job EXCEPT ![x].st = AfterFailure(c),
                                ![x].due = GiveUp(scan[c].attempts + 1)]
          BY <1>2, <3>2 DEF RecordFailure
        <4>3. /\ AfterFailure(c) \in {"DEAD_LETTER", "FAILED"}
              /\ AfterFailure(c) = "DEAD_LETTER" => scan[c].attempts + 1 >= MaxAttempts
          BY DEF AfterFailure, GiveUp
        <4> QED BY <4>1, <4>2, <4>3
      <3> QED BY <3>1, <3>2
    <2>3. /\ job' \in [Reminder -> JobState] /\ job'[x].st = st
          /\ job'[x].attempts = job[x].attempts
          /\ \A z \in Reminder \ {x} : job'[z] = job[z]
      BY <2>1, <2>2 DEF TypeOK, JobState, JobStatus
    <2>4. /\ JobsKept /\ scan[c].attempts \in Nat
          /\ \A z \in Reminder : job[z].attempts \in Nat /\ job'[z].attempts = job[z].attempts
      BY <2>1, <2>3 DEF JobsKept, TypeOK, JobState, ScanState
    <2>5. Held' /\ scan' \in [Scanner -> ScanState]
      BY <2>1, <2>3, <2>4, OnwardType, OnwardFit, HeldWrite DEF Care
    <2>6. /\ rem' \in [Reminder -> RemStatus]
          /\ \A z \in Reminder \ {x} : rem'[z] = rem[z]
      BY <1>2, <2>1
      DEF RecordSent, RecordFailure, SetReminder, ReminderAfter, TypeOK, RemStatus
    <2>7. TypeOK'
      BY <2>1, <2>3, <2>5, <2>6 DEF TypeOK
    <2>8. Told'
      <3>1. st = "DEAD_LETTER" => job'[x].attempts >= MaxAttempts
        BY <2>1, <2>2, <2>3, <2>4, BoundAssumption, SMTT(30)
      <3>2. \/ job'[x].st = "DEAD_LETTER" /\ job'[x].attempts >= MaxAttempts
            \/ job'[x].st \in {"SENT", "FAILED"}
        BY <2>3, <3>1
      <3> QED BY <2>1, <2>3, <3>2, OnwardType, ToldWrite, ZenonT(30) DEF Care
    <2>9. Asked' /\ Queued'
      BY <2>1, <2>4, <2>6, AskedWrite DEF Care, Pending
    <2>10. AttemptsBounded'
      BY <2>1, <2>4, OnwardType, BoundedWrite DEF Delivering
    <2> QED BY <2>1, <2>5, <2>7, <2>8, <2>9, <2>10 DEF Care
  <1> QED BY <1>1, <1>2

-----------------------------------------------------------------------------

LEMMA NextCare ==
  ASSUME TypeOK, Care, AttemptsBounded, [Next]_vars
  PROVE  TypeOK' /\ Care' /\ AttemptsBounded'
  <1>1. CASE Asking \/ Editing
    BY <1>1, RequestTypes, RequestCare, KeptBounded
  <1>2. ASSUME NEW c \in Scanner, ScanStart(c) \/ ScanStep(c) \/ ScanDies(c) \/ SentFails(c)
        PROVE  TypeOK' /\ Care' /\ AttemptsBounded'
    <2>1. CASE ScanDies(c)
      BY <2>1, BreakOffCare, BoundAssumption DEF ScanDies, Fault, TypeOK
    <2>2. CASE Deliver(c) \/ SentFails(c)
      <3>1. Moves(c)
        BY <2>2, BoundAssumption
        DEF Moves, Deliver, SentFails, To, Fault, bounds, TypeOK, ScanState, Delivering
      <3> QED BY <3>1, ScanMoveCare
    <2>3. CASE ScanEnd(c) \/ \E x \in Reminder : ScanJob(c, x)
      BY <2>3, ScanMoveCare DEF Moves
    <2> QED BY <1>2, <2>1, <2>2, <2>3, ScanStartCare, CancelJobCare, StartDeliveryCare,
        RecordCare
        DEF ScanStep
  <1>3. CASE UNCHANGED vars
    BY <1>3
    DEF vars, bounds, TypeOK, Care, Held, Fit, Asked, Told, Queued, Pending, Coming, AttemptsBounded,
        Taking
  <1> QED BY <1>1, <1>2, <1>3 DEF Next, Asking, Editing

-----------------------------------------------------------------------------
(***************************************************************************)
(* The theorems.                                                           *)
(***************************************************************************)
\* The invariant of the rows and of what is under way.
THEOREM CareCorrect == Spec => [](TypeOK /\ Care /\ AttemptsBounded)
  <1>1. Init => TypeOK /\ Care /\ AttemptsBounded
    BY InitCare
  <1>2. TypeOK /\ Care /\ AttemptsBounded /\ [Next]_vars
           => (TypeOK /\ Care /\ AttemptsBounded)'
    BY NextCare
  <1> QED BY <1>1, <1>2, PTL DEF Spec

\* The rows and what is under way have their types.
THEOREM TypeCorrect == Spec => []TypeOK
  BY CareCorrect, PTL

\* The cron tries a job at most Limit - 1 times and once more for each scan.
THEOREM AttemptsCorrect == Spec => []AttemptsBounded
  BY CareCorrect, PTL

\* A job is given up only after MaxAttempts attempts.
THEOREM GivenUpCorrect == Spec => []GivenUpLate
  <1>1. Care => GivenUpLate
    BY DEF Care, Told, GivenUpLate
  <1> QED BY <1>1, CareCorrect, PTL

\* A reminder of a meeting that was never closed is in good hands.
THEOREM NoneForgottenCorrect == Spec => []NoneForgotten
  <1>1. TypeOK /\ Care => NoneForgotten
    BY DEF TypeOK, Care, Told, Queued, NoneForgotten, Pending, JobState, JobStatus
  <1> QED BY <1>1, CareCorrect, PTL
=============================================================================
