----------------------------- MODULE Reminders -----------------------------
(***************************************************************************)
(* The reminders of a meeting.  A reminder has at most one job, which the  *)
(* requests that create, move, cancel or complete the meeting queue again  *)
(* or cancel, and which the cron of every instance delivers: each minute   *)
(* it selects the jobs that are due and goes through them one by one.      *)
(* Nothing locks a job.  Two scans may deliver it at the same time, and a  *)
(* request may change it while a scan has it in hand.                      *)
(*                                                                         *)
(* What a delivery does (an inbox row, a mail, a WhatsApp message, a       *)
(* webhook event) is its outcome only.  Time is whether a job is due.      *)
(***************************************************************************)
EXTENDS Integers, FiniteSets

CONSTANTS
    Reminder,     \* bound: rows of reminders of the meeting
    Scanner,      \* scans that may be under way at a time
    Request,      \* requests that may be under way at a time
    MaxAttempts,  \* maxAttempts of a job: 3
    Limit,        \* jobs with so many attempts are not selected: 10
    ByHand,       \* statuses that users set a reminder to
    MaxEdits,     \* bound: requests
    MaxFaults,    \* bound: deaths of an instance, errors of the database
    Nil           \* no reminder

ASSUME BoundAssumption ==
    /\ MaxAttempts \in Nat \ {0} /\ Limit \in Nat /\ MaxAttempts <= Limit
    /\ MaxEdits \in Nat /\ MaxFaults \in Nat
    /\ IsFiniteSet(Scanner) /\ Nil \notin Reminder
    /\ ByHand \subseteq {"PENDING", "SCHEDULED", "SENT", "FAILED", "CANCELLED"}

VARIABLES
    meeting,  \* none, open, or closed: cancelled, completed or archived
    rem,      \* status of the reminder rows
    job,      \* job rows
    scan,     \* scans
    req,      \* requests
    edits,    \* requests so far
    faults,   \* faults so far
    closed,   \* history: the meeting was closed once
    lapsed,   \* history: reminders that a request dropped, or a user set by hand
    stuck     \* history: jobs that a scan left in the middle of a delivery

vars == <<meeting, rem, job, scan, req, edits, faults, closed, lapsed, stuck>>
bounds == <<edits, faults>>

RemStatus == {"none", "PENDING", "SCHEDULED", "SENT", "FAILED", "CANCELLED", "gone"}
JobStatus == {"none", "QUEUED", "PROCESSING", "SENT", "FAILED", "CANCELLED", "DEAD_LETTER"}
JobState == [st : JobStatus, attempts : Nat, due : BOOLEAN]
ScanState == [pc : {"idle", "loop", "cancel", "mark", "deliver", "sent", "failed"},
              rest : SUBSET Reminder, cur : Reminder \cup {Nil}, attempts : Nat,
              linked : BOOLEAN]
ReqState == [pc : {"idle", "find", "reset", "list", "upsert", "mark", "cancel"},
             rest : SUBSET Reminder, cur : Reminder \cup {Nil}]

NoJob == [st |-> "none", attempts |-> 0, due |-> TRUE]
NoScan == [pc |-> "idle", rest |-> {}, cur |-> Nil, attempts |-> 0, linked |-> FALSE]
Idle == [pc |-> "idle", rest |-> {}, cur |-> Nil]

Init ==
    /\ meeting = "none"
    /\ rem = [x \in Reminder |-> "none"]
    /\ job = [x \in Reminder |-> NoJob]
    /\ scan = [c \in Scanner |-> NoScan]
    /\ req = [r \in Request |-> Idle]
    /\ edits = 0 /\ faults = 0
    /\ closed = FALSE /\ lapsed = {} /\ stuck = {}

-----------------------------------------------------------------------------
(***************************************************************************)
(* Requests.  Each writes what it is about and goes on to the jobs.        *)
(***************************************************************************)
Row(x) == rem[x] \notin {"none", "gone"}
Pending == {x \in Reminder : rem[x] \in {"PENDING", "SCHEDULED"}}

OneMore == edits < MaxEdits /\ edits' = edits + 1
Edit(r, pc) ==
    /\ OneMore
    /\ req[r].pc = "idle" /\ req' = [req EXCEPT ![r].pc = pc]
    /\ UNCHANGED <<job, scan, faults, stuck>>
EditOnly == OneMore /\ UNCHANGED <<job, req, scan, faults, stuck>>

\* createMeeting and a booking: the meeting with its reminders.
CreateMeeting(r, some) ==
    /\ meeting = "none"
    /\ meeting' = "open"
    /\ rem' = [x \in Reminder |-> IF x \in some THEN "PENDING" ELSE "none"]
    /\ Edit(r, "list")
    /\ UNCHANGED <<closed, lapsed>>

\* updateMeeting sets any status; markNoShow and a booking that moves leave
\* the meeting open.
UpdateMeeting(r, st) ==
    /\ meeting # "none"
    /\ meeting' = st /\ closed' = (closed \/ st = "closed")
    /\ Edit(r, "find")
    /\ UNCHANGED <<rem, lapsed>>

\* cancelMeeting and a booking that is cancelled.
CancelMeeting(r) ==
    /\ meeting # "none"
    /\ meeting' = "closed" /\ closed' = TRUE
    /\ rem' = [x \in Reminder |-> IF x \in Pending THEN "CANCELLED" ELSE rem[x]]
    /\ Edit(r, "cancel")
    /\ UNCHANGED lapsed

CompleteMeeting(r) ==
    /\ meeting # "none"
    /\ meeting' = "closed" /\ closed' = TRUE
    /\ Edit(r, "cancel")
    /\ UNCHANGED <<rem, lapsed>>

\* archiveMeeting, restoreMeeting and startMeeting leave the jobs alone.
SetStatus(st) ==
    /\ meeting # "none"
    /\ meeting' = st /\ closed' = (closed \/ st = "closed")
    /\ EditOnly
    /\ UNCHANGED <<rem, lapsed>>

\* createReminder and the follow-ups of a meeting.
CreateReminder(r, x) ==
    /\ meeting # "none" /\ rem[x] = "none"
    /\ rem' = [rem EXCEPT ![x] = "PENDING"]
    /\ Edit(r, "find")
    /\ UNCHANGED <<meeting, closed, lapsed>>

UpdateReminder(x, st) ==
    /\ Row(x)
    /\ rem' = [rem EXCEPT ![x] = st] /\ lapsed' = lapsed \cup {x}
    /\ EditOnly
    /\ UNCHANGED <<meeting, closed>>

\* The job stays, without its reminder.
DeleteReminder(x) ==
    /\ Row(x)
    /\ rem' = [rem EXCEPT ![x] = "gone"]
    /\ EditOnly
    /\ UNCHANGED <<meeting, closed, lapsed>>

\* retryReminderJob, of a job in any status.
RetryJob(x) ==
    /\ job[x].st # "none"
    /\ OneMore
    /\ job' = [job EXCEPT ![x].st = "QUEUED", ![x].due = TRUE]
    /\ stuck' = stuck \ {x}
    /\ UNCHANGED <<meeting, rem, scan, req, faults, closed, lapsed>>

\* What a request does with the jobs.
Go(r, next) ==
    /\ req' = [req EXCEPT ![r] = next]
    /\ UNCHANGED <<meeting, scan, bounds, closed>>

\* The request ends in the middle: what it had left stays as it is.
Drop(r) ==
    /\ lapsed' = lapsed \cup req[r].rest \cup ({req[r].cur} \ {Nil})
                   \cup (IF req[r].pc \in {"find", "reset", "list"} THEN Pending ELSE {})
    /\ req' = [req EXCEPT ![r] = Idle]
    /\ UNCHANGED <<meeting, rem, job, scan, edits, closed, stuck>>

\* rescheduleReminderJobsForMeeting: reminders that were not delivered are
\* pending again.
FindReminders(r) ==
    /\ req[r].pc = "find"
    /\ Go(r, [pc |-> "reset", cur |-> Nil,
              rest |-> Pending \cup {x \in Reminder : rem[x] = "FAILED"}])
    /\ UNCHANGED <<rem, job, lapsed, stuck>>

ResetReminder(r, x) ==
    /\ req[r].pc = "reset" /\ x \in req[r].rest
    /\ \/ ~Row(x) /\ Drop(r) /\ UNCHANGED faults
       \/ /\ Row(x)
          /\ rem' = [rem EXCEPT ![x] = "PENDING"]
          /\ Go(r, [req[r] EXCEPT !.rest = @ \ {x}])
          /\ UNCHANGED <<job, lapsed, stuck>>

ResetDone(r) ==
    /\ req[r].pc = "reset" /\ req[r].rest = {}
    /\ Go(r, [req[r] EXCEPT !.pc = "list"])
    /\ UNCHANGED <<rem, job, lapsed, stuck>>

\* enqueueReminderJobsForMeeting: a job for each, new or again; the attempts
\* of a job that exists go on.
ListReminders(r) ==
    /\ req[r].pc = "list"
    /\ Go(r, IF Pending = {} THEN Idle ELSE [pc |-> "upsert", rest |-> Pending, cur |-> Nil])
    /\ UNCHANGED <<rem, job, lapsed, stuck>>

UpsertJob(r, x, due) ==
    /\ req[r].pc = "upsert" /\ x \in req[r].rest
    /\ \/ ~Row(x) /\ Drop(r) /\ UNCHANGED faults
       \/ /\ Row(x)
          /\ job' = [job EXCEPT ![x].st = "QUEUED", ![x].due = due]
          /\ stuck' = stuck \ {x}
          /\ Go(r, [pc |-> "mark", rest |-> req[r].rest \ {x}, cur |-> x])
          /\ UNCHANGED <<rem, lapsed>>

MarkScheduled(r) ==
    LET x == req[r].cur IN
    /\ req[r].pc = "mark"
    /\ \/ ~Row(x) /\ Drop(r) /\ UNCHANGED faults
       \/ /\ Row(x)
          /\ rem' = [rem EXCEPT ![x] = "SCHEDULED"]
          /\ Go(r, IF req[r].rest = {} THEN Idle
                   ELSE [req[r] EXCEPT !.pc = "upsert", !.cur = Nil])
          /\ UNCHANGED <<job, lapsed, stuck>>

\* cancelReminderJobsForMeeting: one statement.
CancelJobs(r) ==
    LET open == {x \in Reminder : job[x].st \in {"QUEUED", "PROCESSING", "FAILED"}} IN
    /\ req[r].pc = "cancel"
    /\ job' = [x \in Reminder |->
                   IF x \in open THEN [job[x] EXCEPT !.st = "CANCELLED", !.due = TRUE]
                   ELSE job[x]]
    /\ stuck' = stuck \ open
    /\ Go(r, Idle)
    /\ UNCHANGED <<rem, lapsed>>

-----------------------------------------------------------------------------
(***************************************************************************)
(* Scans: the cron of an instance, or an administrator's request.          *)
(***************************************************************************)
\* Mutants: the attempts are not looked at; failed jobs are not selected.
DueForEver == {x \in Reminder : job[x].st \in {"QUEUED", "FAILED"} /\ job[x].due}
DueOnce == {x \in Reminder : job[x].st = "QUEUED" /\ job[x].due /\ job[x].attempts < Limit}
Due == {x \in Reminder : /\ job[x].st \in {"QUEUED", "FAILED"}
                         /\ job[x].due /\ job[x].attempts < Limit}

\* nextAttemptAt matters only while the job waits.
TimePasses(x) ==
    /\ job[x].st \in {"QUEUED", "FAILED"} /\ ~job[x].due
    /\ job' = [job EXCEPT ![x].due = TRUE]
    /\ UNCHANGED <<meeting, rem, scan, req, bounds, closed, lapsed, stuck>>

To(c, next) ==
    /\ scan' = [scan EXCEPT ![c] = next]
    /\ UNCHANGED <<meeting, req, bounds, closed, lapsed>>
Onward(c) == [NoScan EXCEPT !.pc = "loop", !.rest = scan[c].rest]

ScanStart(c) ==
    /\ scan[c].pc = "idle" /\ Due # {}
    /\ To(c, [NoScan EXCEPT !.pc = "loop", !.rest = Due])
    /\ UNCHANGED <<rem, job, stuck>>

\* processReminderJob reads the job and its meeting.
Skipped(x) == job[x].st \in {"SENT", "CANCELLED"}

ScanJob(c, x) ==
    /\ scan[c].pc = "loop" /\ x \in scan[c].rest
    /\ To(c, IF Skipped(x) THEN [scan[c] EXCEPT !.rest = @ \ {x}]
             ELSE [pc |-> IF meeting = "closed" THEN "cancel" ELSE "mark", cur |-> x,
                   rest |-> scan[c].rest \ {x}, attempts |-> job[x].attempts,
                   linked |-> Row(x)])
    /\ UNCHANGED <<rem, job, stuck>>

ScanEnd(c) ==
    /\ scan[c].pc = "loop" /\ scan[c].rest = {}
    /\ To(c, NoScan)
    /\ UNCHANGED <<rem, job, stuck>>

CancelJob(c) ==
    LET x == scan[c].cur IN
    /\ scan[c].pc = "cancel"
    /\ job' = [job EXCEPT ![x].st = "CANCELLED", ![x].due = TRUE]
    /\ stuck' = stuck \ {x}
    /\ To(c, Onward(c))
    /\ UNCHANGED rem

StartDelivery(c) ==
    LET x == scan[c].cur IN
    /\ scan[c].pc = "mark"
    /\ job' = [job EXCEPT ![x] = [st |-> "PROCESSING", attempts |-> @.attempts + 1, due |-> TRUE]]
    /\ stuck' = stuck \ {x}
    /\ To(c, [scan[c] EXCEPT !.pc = "deliver"])
    /\ UNCHANGED rem

Deliver(c) ==
    /\ scan[c].pc = "deliver"
    /\ \E pc \in {"sent", "failed"} : To(c, [scan[c] EXCEPT !.pc = pc])
    /\ UNCHANGED <<rem, job, stuck>>

\* The transaction updates the reminder, which may be gone: then it fails as
\* a delivery does.
Unlinked(c) == scan[c].linked /\ ~Row(scan[c].cur)
SetReminder(c, st) == rem' = IF scan[c].linked THEN [rem EXCEPT ![scan[c].cur] = st] ELSE rem

RecordSent(c) ==
    LET x == scan[c].cur IN
    /\ scan[c].pc = "sent"
    /\ \/ /\ Unlinked(c)
          /\ To(c, [scan[c] EXCEPT !.pc = "failed"])
          /\ UNCHANGED <<rem, job, stuck>>
       \/ /\ ~Unlinked(c)
          /\ job' = [job EXCEPT ![x].st = "SENT", ![x].due = TRUE]
          /\ SetReminder(c, "SENT")
          /\ stuck' = stuck \ {x}
          /\ To(c, Onward(c))

\* A scan that ends in the middle of a delivery leaves the job PROCESSING,
\* unless another scan has it in hand.
Others(c, x) ==
    \E d \in Scanner \ {c} : scan[d].pc \in {"deliver", "sent", "failed"} /\ scan[d].cur = x
BreakOff(c) ==
    LET x == scan[c].cur IN
    /\ scan' = [scan EXCEPT ![c] = NoScan]
    /\ stuck' = IF scan[c].pc \in {"deliver", "sent", "failed"} /\ job[x].st = "PROCESSING"
                   /\ ~Others(c, x) THEN stuck \cup {x} ELSE stuck
    /\ UNCHANGED <<meeting, rem, job, req, edits, closed, lapsed>>

\* Mutant: given up one attempt too early.
OneTooEarly(attempts) == attempts + 1 >= MaxAttempts
GiveUp(attempts) == attempts >= MaxAttempts

\* Mutants: a job whose delivery failed is cancelled; the reminder takes the
\* status of its job.
NoRetry(c) == "CANCELLED"
AfterFailure(c) == IF GiveUp(scan[c].attempts + 1) THEN "DEAD_LETTER" ELSE "FAILED"
SameAsJob(c) == AfterFailure(c)
ReminderAfter(c) == IF GiveUp(scan[c].attempts + 1) THEN "FAILED" ELSE "SCHEDULED"

RecordFailure(c) ==
    LET x == scan[c].cur IN
    /\ scan[c].pc = "failed"
    /\ \/ Unlinked(c) /\ BreakOff(c) /\ UNCHANGED faults
       \/ /\ ~Unlinked(c)
          /\ job' = [job EXCEPT ![x].st = AfterFailure(c), ![x].due = GiveUp(scan[c].attempts + 1)]
          /\ SetReminder(c, ReminderAfter(c))
          /\ stuck' = stuck \ {x}
          /\ To(c, Onward(c))

\* The instance dies, or the database fails a statement of a request or of
\* a scan; a transaction that fails after a delivery counts as a failure.
Fault == faults < MaxFaults /\ faults' = faults + 1
RequestDies(r) == Fault /\ req[r].pc # "idle" /\ Drop(r)
ScanDies(c) == Fault /\ scan[c].pc # "idle" /\ BreakOff(c)
SentFails(c) ==
    /\ Fault /\ scan[c].pc = "sent"
    /\ scan' = [scan EXCEPT ![c].pc = "failed"]
    /\ UNCHANGED <<meeting, rem, job, req, edits, closed, lapsed, stuck>>

-----------------------------------------------------------------------------

RequestStep(r) ==
    \/ FindReminders(r) \/ ResetDone(r) \/ ListReminders(r) \/ MarkScheduled(r) \/ CancelJobs(r)
    \/ \E x \in Reminder, due \in BOOLEAN : ResetReminder(r, x) \/ UpsertJob(r, x, due)

ScanStep(c) ==
    \/ ScanEnd(c) \/ CancelJob(c) \/ StartDelivery(c) \/ Deliver(c)
    \/ RecordSent(c) \/ RecordFailure(c)
    \/ \E x \in Reminder : ScanJob(c, x)

NewRequest(r) ==
    \/ \E some \in SUBSET Reminder : CreateMeeting(r, some)
    \/ CancelMeeting(r) \/ CompleteMeeting(r)
    \/ \E st \in {"open", "closed"} : UpdateMeeting(r, st)
    \/ \E x \in Reminder : CreateReminder(r, x)

OneStepRequest ==
    \/ \E st \in {"open", "closed"} : SetStatus(st)
    \/ \E x \in Reminder : DeleteReminder(x) \/ RetryJob(x)
    \/ \E x \in Reminder, st \in ByHand : UpdateReminder(x, st)

Next ==
    \/ \E r \in Request : NewRequest(r) \/ RequestStep(r) \/ RequestDies(r)
    \/ \E c \in Scanner : ScanStart(c) \/ ScanStep(c) \/ ScanDies(c) \/ SentFails(c)
    \/ \E x \in Reminder : TimePasses(x)
    \/ OneStepRequest

Spec == Init /\ [][Next]_vars

\* Time passes, the cron fires every minute in an instance that is up, and
\* what has begun goes on.
Fairness ==
    /\ \A r \in Request : WF_vars(RequestStep(r))
    /\ \A c \in Scanner : WF_vars(ScanStart(c)) /\ WF_vars(ScanStep(c))
    /\ \A x \in Reminder : WF_vars(TimePasses(x))
FairSpec == Spec /\ Fairness

-----------------------------------------------------------------------------

TypeOK ==
    /\ meeting \in {"none", "open", "closed"} /\ closed \in BOOLEAN
    /\ rem \in [Reminder -> RemStatus]
    /\ job \in [Reminder -> JobState]
    /\ scan \in [Scanner -> ScanState]
    /\ req \in [Request -> ReqState]
    /\ edits \in 0..MaxEdits /\ faults \in 0..MaxFaults
    /\ lapsed \subseteq Reminder /\ stuck \subseteq Reminder

(***************************************************************************)
(* However often a job is retried, queued again or taken by two scans, it  *)
(* is tried at most Limit - 1 times and once more for each scan under way. *)
(***************************************************************************)
Taking(x) == {c \in Scanner : \/ x \in scan[c].rest
                              \/ scan[c].pc \in {"cancel", "mark"} /\ scan[c].cur = x}
AttemptsBounded ==
    \A x \in Reminder : job[x].attempts + Cardinality(Taking(x)) < Limit + Cardinality(Scanner)

(***************************************************************************)
(* A job is given up for good only after MaxAttempts attempts, although a  *)
(* scan counts from what it read before other scans went on.               *)
(***************************************************************************)
GivenUpLate ==
    \A x \in Reminder : job[x].st = "DEAD_LETTER" => job[x].attempts >= MaxAttempts

(***************************************************************************)
(* While its meeting has never been closed, a reminder that is pending or  *)
(* scheduled is in good hands: its job is waiting and will be selected, or *)
(* is being delivered, or was delivered or given up; or a request is about *)
(* to queue it.  The exceptions are requests and scans that broke off,     *)
(* reminders that users set by hand, and jobs that used up the limit.      *)
(***************************************************************************)
Coming(r, x) ==
    \/ req[r].pc \in {"find", "reset", "list"}
    \/ req[r].pc \in {"upsert", "mark"} /\ x \in req[r].rest
NoneForgotten ==
    \A x \in Pending \ (lapsed \cup stuck) :
        \/ closed
        \/ \E r \in Request : Coming(r, x)
        \/ job[x].st \in {"QUEUED", "FAILED", "SENT", "DEAD_LETTER"}
        \/ job[x].st = "PROCESSING" /\ \E c \in Scanner : scan[c].cur = x

(***************************************************************************)
(* A job that waits with attempts left is delivered, given up or cancelled *)
(* in the end, unless a scan breaks off in the middle of its delivery.     *)
(***************************************************************************)
Waiting(x) == job[x].st \in {"QUEUED", "FAILED"} /\ job[x].attempts < Limit
Settled(x) ==
    \/ job[x].st \in {"SENT", "CANCELLED", "DEAD_LETTER"}
    \/ x \in stuck
    \/ job[x].attempts >= Limit
JobsSettle == \A x \in Reminder : Waiting(x) ~> Settled(x)
=============================================================================
